-------------------------------- MODULE Pick --------------------------------
(***************************************************************************)
(* The printer and keyboard control chip of the printing Woodstocks        *)
(* (pick.c).  Keys that are pressed wait in a ring until the program reads *)
(* them; characters that the program prints fill a line from the right,    *)
(* and the line goes to the window when the printer, whose way back takes  *)
(* longer with every character, is home.                                   *)
(***************************************************************************)
EXTENDS Integers, Sequences

CONSTANTS PICK_KEY_BUFFER_SIZE,   \* 7
          PRINTER_COLUMNS,        \* 20
          PICK_DELAY_CR_SEEN, PICK_DELAY_HOME,   \* 50 and 100 word times
          PickKeys, Chars,
          MAX_USES                \* bound: keys pressed and characters printed between two resets

ASSUME PickAssumption ==
  /\ {PICK_KEY_BUFFER_SIZE, PRINTER_COLUMNS, PICK_DELAY_CR_SEEN, PICK_DELAY_HOME} \subseteq Nat \ {0}
  /\ MAX_USES \in Nat

VARIABLES key_buffer,  \* count, head, tail, keycode
          printer,     \* left_ptr, buffer, cr_seen_timer, home_timer
          act,         \* what the program sees: C, and flag F2
          keys,        \* history: the keys that found room in the ring, and those that were read
          paper        \* history: the characters that found room in the line, and those that are in the window

pkvars == <<key_buffer, printer, act, keys, paper>>

NoKeycode == 0

PickInit ==
  /\ key_buffer = [count |-> 0, head |-> 0, tail |-> 0,
                   keycode |-> [i \in 0..(PICK_KEY_BUFFER_SIZE - 1) |-> NoKeycode]]
  /\ printer = [left_ptr |-> PRINTER_COLUMNS, cr_seen_timer |-> 0, home_timer |-> 0,
                buffer |-> [i \in 0..(PRINTER_COLUMNS - 1) |-> NoKeycode]]
  /\ act = [c |-> NoKeycode, F2 |-> FALSE]
  /\ keys = [pressed |-> <<>>, read |-> <<>>]
  /\ paper = [chars |-> <<>>, window |-> <<>>]

-----------------------------------------------------------------------------
(* The keyboard *)
RingNext(i) == IF i + 1 >= PICK_KEY_BUFFER_SIZE THEN 0 ELSE i + 1

(* pick_press_key; a key that finds no room is discarded *)
pick_press_key_Late(key) ==      \* mutant: room for one key too many
  /\ IF key_buffer.count <= PICK_KEY_BUFFER_SIZE
     THEN /\ key_buffer' = [key_buffer EXCEPT !.keycode[key_buffer.tail] = key, !.count = @ + 1,
                                              !.tail = RingNext(@)]
          /\ keys' = [keys EXCEPT !.pressed = Append(@, key)]
     ELSE UNCHANGED <<key_buffer, keys>>
  /\ UNCHANGED <<printer, act, paper>>

pick_press_key(key) ==
  /\ IF key_buffer.count < PICK_KEY_BUFFER_SIZE
     THEN /\ key_buffer' = [key_buffer EXCEPT !.keycode[key_buffer.tail] = key, !.count = @ + 1,
                                              !.tail = RingNext(@)]
          /\ keys' = [keys EXCEPT !.pressed = Append(@, key)]
     ELSE UNCHANGED <<key_buffer, keys>>
  /\ UNCHANGED <<printer, act, paper>>

(* pick_read: with nothing in the ring it returns what was there before *)
pick_read ==
  LET key == key_buffer.keycode[key_buffer.head]
  IN  /\ act' = [act EXCEPT !.c = key]
      /\ IF key_buffer.count # 0
         THEN /\ key_buffer' = [key_buffer EXCEPT !.count = @ - 1, !.head = RingNext(@)]
              /\ keys' = [keys EXCEPT !.read = Append(@, key)]
         ELSE UNCHANGED <<key_buffer, keys>>
      /\ UNCHANGED <<printer, paper>>

-----------------------------------------------------------------------------
(* The printer *)
Line(p) == [j \in 1..(PRINTER_COLUMNS - p.left_ptr) |-> p.buffer[PRINTER_COLUMNS - j]]

(* pick_print_char *)
PrintChar(p, ch) ==
  IF p.left_ptr = 0 THEN p        \* overflow: the character is lost
  ELSE [left_ptr |-> p.left_ptr - 1, buffer |-> [p.buffer EXCEPT ![p.left_ptr - 1] = ch],
        cr_seen_timer |-> p.cr_seen_timer + PICK_DELAY_CR_SEEN,
        home_timer |-> p.home_timer + PICK_DELAY_HOME]

(* pick_op_print_0123, pick_op_print6: the characters of C up to its end mark *)
pick_op_print(chs) ==
  LET p[i \in 0..Len(chs)] == IF i = 0 THEN printer ELSE PrintChar(p[i - 1], chs[i])
      room == IF Len(chs) < printer.left_ptr THEN Len(chs) ELSE printer.left_ptr
  IN  /\ printer' = p[Len(chs)]
      /\ paper' = [paper EXCEPT !.chars = @ \o SubSeq(chs, 1, room)]
      /\ UNCHANGED <<key_buffer, act, keys>>

(* pick_cycle, with pick_printer_print_line *)
pick_cycle ==
  LET cr == IF printer.cr_seen_timer # 0 THEN printer.cr_seen_timer - 1 ELSE 0
      home == IF printer.home_timer # 0 THEN printer.home_timer - 1 ELSE 0
      prints == printer.home_timer = 1
  IN  /\ printer' = [printer EXCEPT !.cr_seen_timer = cr, !.home_timer = home,
                                    !.left_ptr = IF prints THEN PRINTER_COLUMNS ELSE @]
      /\ paper' = IF prints THEN [paper EXCEPT !.window = @ \o Line(printer)] ELSE paper
      /\ UNCHANGED <<key_buffer, act, keys>>

-----------------------------------------------------------------------------
(* pick_op_home, pick_op_cr, pick_op_check_keycode_available: they pulse   *)
(* F2 of the processor, which the program tests next.                      *)
PickTest ==
  /\ act' \in {[act EXCEPT !.F2 = printer.home_timer = 0],
               [act EXCEPT !.F2 = printer.cr_seen_timer = 0],
               [act EXCEPT !.F2 = key_buffer.count > 0]}
  /\ UNCHANGED <<key_buffer, printer, keys, paper>>

(* pick_reset: on a reset, on waking and when a state has been restored *)
pick_reset ==
  /\ key_buffer' = [key_buffer EXCEPT !.count = 0, !.head = 0, !.tail = 0]
  /\ printer' = [printer EXCEPT !.left_ptr = PRINTER_COLUMNS, !.cr_seen_timer = 0, !.home_timer = 0]
  /\ keys' = [pressed |-> <<>>, read |-> <<>>] /\ paper' = [chars |-> <<>>, window |-> <<>>]
  /\ UNCHANGED act

Uses == Len(keys.pressed) + Len(paper.chars)

PickNext ==
  \/ /\ Uses < MAX_USES
     /\ \E key \in PickKeys : pick_press_key(key)
  \/ pick_read \/ PickTest \/ pick_cycle \/ pick_reset
  \/ \E n \in 1..(MAX_USES - Uses) : \E chs \in [1..n -> Chars] : pick_op_print(chs)

PickSpec == PickInit /\ [][PickNext]_pkvars

-----------------------------------------------------------------------------
(* The program reads the keys in the order in which they were pressed and  *)
(* misses none but those that found the ring full; every character that    *)
(* found room is on a line in the window, once and in its place, or still  *)
(* in the buffer, and the buffer waits only while the printer is away.     *)
Ring == [i \in 1..key_buffer.count |->
           key_buffer.keycode[(key_buffer.head + i - 1) % PICK_KEY_BUFFER_SIZE]]
PickKeepsOrder ==
  /\ keys.read \o Ring = keys.pressed
  /\ paper.window \o Line(printer) = paper.chars
  /\ printer.left_ptr < PRINTER_COLUMNS <=> printer.home_timer > 0
=============================================================================
