------------------------------ MODULE Displays ------------------------------
(***************************************************************************)
(* The display chips of the Nut machines: the HP-41C's, with three rows of *)
(* digits that the processor reads and writes from either end              *)
(* (coconut_lcd.c; when its picture goes to the window is in NutPower),    *)
(* and the Voyagers', which shows bits of the memory and can blink         *)
(* (voyager_lcd.c).                                                        *)
(***************************************************************************)
EXTENDS Integers, Sequences

CONSTANTS COCONUT_DISPLAY_DIGITS,     \* 12
          LcdWords,                   \* of C, the least significant digit first
          MAX_LCD_OPS,                \* bound: registers read and written, and display instructions
          VOYAGER_LCD_BLINK_DIVISOR,  \* 150
          UPDATE_CYCLES               \* 15: word times between two pictures

ASSUME DisplayAssumption ==
  /\ COCONUT_DISPLAY_DIGITS \in Nat \ {0} /\ COCONUT_DISPLAY_DIGITS % 6 = 0
  /\ MAX_LCD_OPS \in Nat /\ VOYAGER_LCD_BLINK_DIVISOR \in Nat \ {0} /\ UPDATE_CYCLES \in Nat

VARIABLES coconut,   \* the rows a, b and c, and the annunciators
          voyager,   \* voyager_display_reg_t, with what the processor and the window know of it
          lcd_chip,  \* which of the two the calculator has
          lcd_ops

dsvars == <<coconut, voyager, lcd_chip, lcd_ops>>

LEFT == COCONUT_DISPLAY_DIGITS - 1
RIGHT == 0
Positions == RIGHT..LEFT
Rows == {"a", "b", "c"}

DisplaysInit ==
  /\ coconut = [row |-> [x \in Rows |-> [i \in Positions |-> 0]], ann |-> <<0, 0, 0>>]
  /\ voyager = [enable |-> FALSE, blink |-> FALSE, blink_state |-> FALSE, blink_count |-> 0, count |-> 0,
                display_enable |-> FALSE, awake |-> TRUE, lit |-> FALSE,
                blinked |-> FALSE]     \* history: an instruction let it blink, in this process
  /\ lcd_chip \in {"coconut", "voyager"}
  /\ lcd_ops = 0

-----------------------------------------------------------------------------
(* coconut_lcd_rot *)
Rotated(reg, dir) ==
  IF dir = LEFT THEN [i \in Positions |-> reg[(i - 1) % COCONUT_DISPLAY_DIGITS]]
                ELSE [i \in Positions |-> reg[(i + 1) % COCONUT_DISPLAY_DIGITS]]

(* Which rows a read or a write takes, how many characters, at which end.  *)
Access(rows, chars, dir) == [rows |-> rows, chars |-> chars, dir |-> dir]
All == COCONUT_DISPLAY_DIGITS
coconut_lcd_rd_n ==
  << Access(<<"a">>, All, LEFT), Access(<<"b">>, All, LEFT), Access(<<"c">>, All, LEFT),
     Access(<<"a", "b">>, All \div 2, LEFT), Access(<<"a", "b", "c">>, All \div 3, LEFT),
     Access(<<>>, 0, LEFT), Access(<<"c">>, 1, LEFT), Access(<<"a">>, 1, RIGHT), Access(<<"b">>, 1, RIGHT),
     Access(<<"c">>, 1, RIGHT), Access(<<"a">>, 1, LEFT), Access(<<"b">>, 1, LEFT),
     Access(<<"a", "b">>, 1, RIGHT), Access(<<"a", "b">>, 1, LEFT),
     Access(<<"a", "b", "c">>, 1, RIGHT), Access(<<"a", "b", "c">>, 1, LEFT) >>

coconut_lcd_wr_n ==
  << Access(<<"a">>, All, LEFT), Access(<<"b">>, All, LEFT), Access(<<"c">>, All, LEFT),
     Access(<<"a", "b">>, All \div 2, LEFT), Access(<<"a", "b", "c">>, All \div 3, LEFT),
     Access(<<"a", "b">>, All \div 2, RIGHT), Access(<<"a", "b", "c">>, All \div 3, RIGHT),
     Access(<<"a">>, 1, LEFT), Access(<<"b">>, 1, LEFT), Access(<<"c">>, 1, LEFT),
     Access(<<"a">>, 1, RIGHT), Access(<<"b">>, 1, RIGHT), Access(<<"c">>, 1, RIGHT),
     Access(<<"a", "b">>, 1, RIGHT), Access(<<"a", "b", "c">>, 1, LEFT), Access(<<"a", "b", "c">>, 1, RIGHT) >>

(* The digits of an access, in the order of the loops over characters and  *)
(* rows; the j-th is at the end after the turns of its row before it.      *)
Row(acc, j) == acc.rows[((j - 1) % Len(acc.rows)) + 1]
Turns(acc, j) == (j - 1) \div Len(acc.rows)
Digits_of(acc) == acc.chars * Len(acc.rows)

RECURSIVE Turn(_, _, _)
Turn(reg, dir, n) == IF n = 0 THEN reg ELSE Turn(Rotated(reg, dir), dir, n - 1)

(* coconut_lcd_rd_reg: the digit at the end is read, and the row turned *)
ReadDigits(row, acc) == [j \in 1..Digits_of(acc) |-> Turn(row[Row(acc, j)], acc.dir, Turns(acc, j))[acc.dir]]
AfterRead(row, acc) ==
  [x \in Rows |-> IF x \in {acc.rows[i] : i \in DOMAIN acc.rows} THEN Turn(row[x], acc.dir, acc.chars) ELSE row[x]]

(* coconut_lcd_wr_reg: the row is turned the other way, and the digit      *)
(* written; row c has one bit to a digit.                                  *)
RECURSIVE AfterWrite(_, _, _, _)
AfterWrite(row, acc, c, j) ==
  IF j > Digits_of(acc) THEN row
  ELSE LET x == Row(acc, j)
           digit == IF x = "c" THEN c[j] % 2 ELSE c[j]
       IN  AfterWrite([row EXCEPT ![x] = [Rotated(@, LEFT - acc.dir) EXCEPT ![acc.dir] = digit]], acc, c, j + 1)

More == lcd_ops < MAX_LCD_OPS /\ lcd_ops' = lcd_ops + 1

CoconutInstruction ==
  /\ lcd_chip = "coconut" /\ More /\ UNCHANGED <<voyager, lcd_chip>>
  /\ \/ \E n \in 0..15 : coconut' = [coconut EXCEPT !.row = AfterRead(@, coconut_lcd_rd_n[n + 1])]
     \/ \E n \in 0..15, c \in LcdWords :
          coconut' = [coconut EXCEPT !.row = AfterWrite(@, coconut_lcd_wr_n[n + 1], c, 1)]
     \/ \E c \in LcdWords :                                      \* coconut_lcd_wr
          coconut' = [coconut EXCEPT !.ann = <<c[1], c[2], c[3]>>]

-----------------------------------------------------------------------------
(* The Voyager's.  voyager_display_update; a picture is lit or dark.       *)
VoyagerUpdate(v) ==
  LET shown == [v EXCEPT !.lit = v.enable /\ (v.blink => v.blink_state), !.count = UPDATE_CYCLES]
  IN  IF ~v.blink THEN shown
      ELSE IF v.blink_count = 1
      THEN [shown EXCEPT !.blink_state = ~@, !.blink_count = VOYAGER_LCD_BLINK_DIVISOR]
      ELSE [shown EXCEPT !.blink_count = IF @ > 0 THEN @ - 1 ELSE @]  \* below 0 it never comes to 0

VoyagerCycle_Blinks(v) ==  \* mutant: the picture is not made again while it blinks
  IF v.count = 0 /\ ~v.blink THEN VoyagerUpdate(v) ELSE [v EXCEPT !.count = IF @ > 0 THEN @ - 1 ELSE 0]

VoyagerCycle(v) == IF v.count = 0 THEN VoyagerUpdate(v) ELSE [v EXCEPT !.count = @ - 1]

set_display_state(v, on) == [v EXCEPT !.enable = on, !.display_enable = on]
voyager_op_display_off(v) == [set_display_state(v, FALSE) EXCEPT !.count = 2, !.blink = FALSE]
voyager_op_display_toggle(v) == [set_display_state(v, ~v.enable) EXCEPT !.count = 0]
voyager_op_display_blink(v) ==
  [set_display_state(v, TRUE) EXCEPT !.blink = TRUE, !.blink_state = TRUE,
                                     !.blink_count = VOYAGER_LCD_BLINK_DIVISOR, !.count = 0, !.blinked = TRUE]
VoyagerSleep(v) == [VoyagerUpdate(v) EXCEPT !.awake = FALSE]
VoyagerWake(v) == [VoyagerUpdate(set_display_state(v, v.enable)) EXCEPT !.awake = TRUE]
voyager_display_reset(v) == [set_display_state(v, FALSE) EXCEPT !.blink = FALSE, !.count = 0]

(* A state file has enable and blink; blink_state and blink_count stay     *)
(* what they were in this process.                                         *)
VoyagerRestore(v, enable, blink, awake) ==
  VoyagerUpdate(set_display_state([v EXCEPT !.blink = blink, !.awake = awake], enable))

VoyagerTime ==
  /\ lcd_chip = "voyager"
  /\ voyager' = VoyagerCycle(voyager) /\ UNCHANGED <<coconut, lcd_chip, lcd_ops>>

VoyagerInstruction ==
  /\ lcd_chip = "voyager" /\ voyager.awake /\ More /\ UNCHANGED <<coconut, lcd_chip>>
  /\ voyager' \in {voyager_op_display_off(voyager), voyager_op_display_toggle(voyager),
                   voyager_op_display_blink(voyager), VoyagerSleep(voyager)}

VoyagerEvent ==
  /\ lcd_chip = "voyager" /\ More /\ UNCHANGED <<coconut, lcd_chip>>
  /\ \/ voyager' = VoyagerWake(voyager)
     \/ voyager' = [voyager_display_reset(voyager) EXCEPT !.awake = TRUE]     \* nut_reset wakes the processor
     \/ \E enable, blink, awake \in BOOLEAN : voyager' = VoyagerRestore(voyager, enable, blink, awake)

DisplaysNext == CoconutInstruction \/ VoyagerTime \/ VoyagerInstruction \/ VoyagerEvent

DisplaysSpec == DisplaysInit /\ [][DisplaysNext]_dsvars /\ WF_dsvars(VoyagerTime)

-----------------------------------------------------------------------------
(* A character that is read from an end of the rows and written back there *)
(* leaves the HP-41C's display as it was, and so does reading a whole row. *)
SameEnd == {p \in (0..15) \X (0..15) : /\ coconut_lcd_rd_n[p[1] + 1] = coconut_lcd_wr_n[p[2] + 1]
                                       /\ coconut_lcd_rd_n[p[1] + 1].chars = 1}
ReadBack ==
  lcd_chip = "coconut" =>
  /\ \A p \in SameEnd : LET acc == coconut_lcd_rd_n[p[1] + 1]
                        IN  AfterWrite(AfterRead(coconut.row, acc), acc, ReadDigits(coconut.row, acc), 1) = coconut.row
  /\ \A n \in {0, 1, 2} : AfterRead(coconut.row, coconut_lcd_rd_n[n + 1]) = coconut.row

(* A Voyager that blinks shows its picture and hides it again and again,   *)
(* asleep too and after a restore, once an instruction has let it blink in *)
(* this process, and one that is switched off goes dark.  (Restored        *)
(* blinking into a process in which it never blinked, it stays dark:       *)
(* blink_count goes down from 0.)                                          *)
Blinking == voyager.enable /\ voyager.blink
WindowFollows ==
  /\ Blinking /\ voyager.blinked ~> (~Blinking \/ voyager.lit)
  /\ (Blinking \/ ~voyager.enable) ~> ((~Blinking /\ voyager.enable) \/ ~voyager.lit)

DisplaysFollow == []ReadBack /\ WindowFollows
=============================================================================
