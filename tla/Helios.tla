------------------------------- MODULE Helios -------------------------------
(***************************************************************************)
(* The HP 82143A printer (helios.c).  Bytes that the program writes to it  *)
(* wait in a buffer; the end of a line, or the last place in the buffer,   *)
(* prints as much of it as a line holds, and the rest moves to the start.  *)
(* Among the bytes are characters or columns of dots, runs of blanks, and  *)
(* changes of the mode in which what follows is printed.  A byte for a     *)
(* buffer that is full overruns it.                                        *)
(***************************************************************************)
EXTENDS Integers, Sequences, SequencesExt

CONSTANTS HELIOS_BUF_MAX,             \* 43
          HELIOS_PRINTER_WIDTH_PIXELS, \* 168
          CHAR_COLUMNS,               \* 7
          Bytes,                      \* what the program writes
          WindowButtons, SwitchModes, \* of the printer's window: status bits, and sets of them
          MAX_BYTES                   \* bound: bytes written between two resets

ASSUME HeliosAssumption ==
  /\ HELIOS_BUF_MAX \in Nat \ {0, 1} /\ CHAR_COLUMNS \in Nat \ {0}
  /\ HELIOS_PRINTER_WIDTH_PIXELS \in Nat /\ 2 * CHAR_COLUMNS <= HELIOS_PRINTER_WIDTH_PIXELS /\ MAX_BYTES \in Nat
  /\ WindowButtons \subseteq {"PRT_KEY", "ADV_KEY"}
  /\ SwitchModes \subseteq {{}, {"MODE_TRACE"}, {"MODE_NORM"}}

VARIABLES helios,      \* helios_reg_t: status, mode, buffer
          awake,       \* of nut_reg_t
          sent,        \* history: what is to be printed, and the mode that each byte in the buffer is in
          lines,       \* history: the lines in the window
          overrun      \* history: a byte was written behind the end of the buffer

hevars == <<helios, awake, sent, lines, overrun>>

(* A byte: data below 0x80, runs of blanks or empty columns 0xa0 to 0xbf,  *)
(* a mode 0xd0 to 0xdf, an end of line 0xe0 or 0xe8, a command above.  0x80*)
(* to 0x9f and 0xc0 to 0xcf change the mode of the line, not the status.   *)
Data == [kind |-> "data"]
BlankRun(of, n) == [kind |-> "run", of |-> of, n |-> n]
Mode(m) == [kind |-> "mode", m |-> m]
LineMode(m) == [kind |-> "line_mode", m |-> m]
Eol(right) == [kind |-> "eol", right |-> right]
IgnoreAdv(on) == [kind |-> "ignore_adv", on |-> on]

Modes == {"LOWER_CASE", "GRAPHICS", "DOUBLE_WIDE"}

ASSUME HeliosBytesAssumption ==
  \A b \in Bytes :
    \/ b = Data
    \/ \E of \in {"blank", "column"}, n \in 0..23 : b = BlankRun(of, n)
    \/ \E m \in SUBSET Modes : b \in {Mode(m), LineMode(m)}
    \/ \E on \in BOOLEAN : b \in {Eol(on), IgnoreAdv(on)}

helios_get_mode(h) == h.status \cap Modes
helios_set_mode(h, m) == [h EXCEPT !.status = (@ \ Modes) \cup m]
Bit(h, b, on) == [h EXCEPT !.status = IF on THEN @ \cup {b} ELSE @ \ {b}]

HeliosReset(mode) == [status |-> {"IDLE", "BUF_EMPTY"}, mode |-> mode, buffer |-> <<>>]
NothingSent == [items |-> <<>>, modes |-> <<>>, count |-> 0]

(* as installed, or from a state file in one of the program's modes *)
HeliosInit ==
  /\ \E m \in {{}} \cup {b.m : b \in {b \in Bytes : b.kind = "mode"}} : helios = helios_set_mode(HeliosReset({}), m)
  /\ awake = TRUE /\ overrun = FALSE
  /\ sent = NothingSent /\ lines = <<>>

-----------------------------------------------------------------------------
(* helios_add_char and helios_add_column: is there room, and how much it   *)
(* takes.  A column is as wide as the status says, not the buffer's mode,  *)
(* and is checked as a single one.                                         *)
Wide(m) == IF "DOUBLE_WIDE" \in m THEN 2 ELSE 1
Takes(h, isColumn, m) == IF isColumn THEN Wide(helios_get_mode(h)) ELSE CHAR_COLUMNS * Wide(m)
HasRoom(col_idx, isColumn, m) ==
  col_idx + (IF isColumn THEN 1 ELSE CHAR_COLUMNS * Wide(m)) <= HELIOS_PRINTER_WIDTH_PIXELS

(* helios_eol: one round of the loop over the buffer.  A run prints one    *)
(* blank at a time and counts itself down; a byte that finds no room is    *)
(* where the loop ends.                                                    *)
FillOne(h, l) ==
  LET b == Head(l.buffer)
      isColumn == IF b.kind = "run" THEN b.of = "column" ELSE "GRAPHICS" \in l.mode
      printed(item, rest) ==
        [l EXCEPT !.col_idx = @ + Takes(h, isColumn, l.mode), !.items = Append(@, item), !.buffer = rest]
  IN  IF l.buffer = <<>> THEN l
      ELSE IF b.kind = "mode" THEN [l EXCEPT !.mode = b.m, !.buffer = Tail(@)]
      ELSE IF b.kind = "run" /\ b.n = 0 THEN [l EXCEPT !.buffer = Tail(@)]
      ELSE IF ~HasRoom(l.col_idx, isColumn, l.mode) THEN l
      ELSE IF b.kind = "run" THEN printed(<<b.of, 0>>, <<[b EXCEPT !.n = @ - 1]>> \o Tail(l.buffer))
      ELSE printed(<<"data", b.no>>, Tail(l.buffer))

(* Every round takes a byte from the buffer or a column of the line.       *)
Rounds(l) == HELIOS_PRINTER_WIDTH_PIXELS + Len(l.buffer)

FillLine(h, start) ==
  LET after[i \in 0..Rounds(start)] == IF i = 0 THEN start ELSE FillOne(h, after[i - 1])
  IN  after[Rounds(start)]

Kept_All(h, l) == [h EXCEPT !.buffer = SubSeq(@, Len(@) - Len(l.buffer) + 1, Len(@))]   \* mutant: a run that is cut starts again
Kept(h, l) == [h EXCEPT !.buffer = l.buffer]

Eol_of(h) == FillLine(h, [buffer |-> h.buffer, mode |-> h.mode, col_idx |-> 0, items |-> <<>>])

helios_eol(h, right_justify, s) ==
  LET l == Eol_of(h)
      h1 == Kept(h, l)
  IN  /\ helios' = IF l.buffer = <<>> THEN Bit(h1, "BUF_EMPTY", TRUE) ELSE h1
      /\ lines' = Append(lines, [items |-> l.items,
                                   right |-> right_justify /\ l.col_idx < HELIOS_PRINTER_WIDTH_PIXELS])
      /\ sent' = [s EXCEPT !.modes = SubSeq(@, Len(@) - Len(l.buffer) + 1, Len(@))]

-----------------------------------------------------------------------------
(* helios_npic_write *)
Stored(b) ==
  CASE b.kind = "data"      -> [kind |-> "data", no |-> sent.count]
    [] b.kind = "line_mode" -> Mode(b.m)
    [] OTHER                -> b

Buffered(h, b) ==
  LET h1 == IF h.buffer = <<>> THEN Bit([h EXCEPT !.mode = helios_get_mode(h)], "BUF_EMPTY", FALSE) ELSE h
      h2 == [h1 EXCEPT !.buffer = Append(@, Stored(b))]
  IN  IF b.kind = "mode" THEN helios_set_mode(h2, b.m) ELSE h2

Items(b) == CASE b.kind = "data" -> << <<"data", b.no>> >>
              [] b.kind = "run"  -> [i \in 1..b.n |-> <<b.of, 0>>]
              [] OTHER           -> <<>>

helios_npic_write(b) ==
  LET h == Bit(helios, "LAST_BYTE_EOL", b.kind = "eol")
      hb == Buffered(h, b)
      s == [items |-> sent.items \o Items(Stored(b)),
            modes |-> Append(sent.modes, helios_get_mode(h)), count |-> sent.count + 1]
  IN  /\ CASE b.kind = "eol" -> helios_eol(h, b.right, [sent EXCEPT !.count = @ + 1])
           [] b.kind = "ignore_adv" ->
                /\ helios' = Bit(h, "IGNORE_ADV", b.on) /\ sent' = [sent EXCEPT !.count = @ + 1]
                /\ UNCHANGED lines
           [] OTHER -> /\ Len(helios.buffer) < HELIOS_BUF_MAX
                       /\ IF Len(hb.buffer) = HELIOS_BUF_MAX
                          THEN helios_eol(hb, "RIGHT_JUST" \in h.status, s)
                          ELSE helios' = hb /\ sent' = s /\ UNCHANGED lines
      /\ UNCHANGED <<awake, overrun>>

(* buffer[count++] when there is no place left; what follows is undefined  *)
Overruns(b) ==
  /\ b.kind \notin {"eol", "ignore_adv"} /\ Len(helios.buffer) = HELIOS_BUF_MAX
  /\ overrun' = TRUE /\ UNCHANGED <<helios, awake, sent, lines>>

(* helios_event_fn: the buttons and the switch of the window *)
HeliosButton(b, on) ==
  /\ helios' = Bit(helios, b, on)
  /\ awake' = (awake \/ helios'.status \cap {"PRT_KEY", "ADV_KEY"} # {})
  /\ UNCHANGED <<sent, lines, overrun>>

HeliosMode(m) ==
  /\ helios' = [helios EXCEPT !.status = (@ \ {"MODE_TRACE", "MODE_NORM"}) \cup m]
  /\ UNCHANGED <<awake, sent, lines, overrun>>

(* helios_reset leaves mode as it is; nut_reset has woken the processor *)
helios_reset ==
  /\ helios' = HeliosReset(helios.mode) /\ awake' = TRUE
  /\ sent' = NothingSent /\ lines' = <<>> /\ UNCHANGED overrun

op_powoff == awake /\ awake' = FALSE /\ UNCHANGED <<helios, sent, lines, overrun>>

HeliosNext ==
  /\ ~overrun
  /\ \/ /\ awake /\ sent.count < MAX_BYTES
        /\ \E b \in Bytes : helios_npic_write(b) \/ Overruns(b)
     \/ \E b \in WindowButtons, on \in BOOLEAN : HeliosButton(b, on)
     \/ \E m \in SwitchModes : HeliosMode(m)
     \/ helios_reset \/ op_powoff

HeliosSpec == HeliosInit /\ [][HeliosNext]_hevars

-----------------------------------------------------------------------------
(* Whatever does not fit a line is on the next: everything written is, in  *)
(* its order, once in the window or still in the buffer, which the status  *)
(* calls empty exactly when it is; and there is room for the next byte,    *)
(* unless blanks of which a whole line was not enough are at the front of  *)
(* a full buffer: no byte was taken from it, and the next one overruns it. *)
NothingIsLost ==
  /\ FlattenSeq([i \in DOMAIN lines |-> lines[i].items])
       \o FlattenSeq([i \in DOMAIN helios.buffer |-> Items(helios.buffer[i])]) = sent.items
  /\ "BUF_EMPTY" \in helios.status <=> helios.buffer = <<>>
  /\ \/ Len(helios.buffer) < HELIOS_BUF_MAX
     \/ Len(helios.buffer) = HELIOS_BUF_MAX /\ Head(helios.buffer).kind = "run" /\ Head(helios.buffer).n > 0

(* helios_reg_t says of mode: "print mode in effect at start of buffer".   *)
ModeIsThatOfTheStart == helios.buffer # <<>> => helios.mode = sent.modes[1]
=============================================================================
