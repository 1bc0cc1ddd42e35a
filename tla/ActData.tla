------------------------------ MODULE ActData ------------------------------
(***************************************************************************)
(* The data of the Woodstock processor ACT (proc_woodstock.c): registers,  *)
(* pointer, status bits, external flags, keys and RAM, and the display     *)
(* that it scans in every cycle, for the platforms that have one of its    *)
(* own.  Module Woodstock has the flow of control, which is left out here: *)
(* the firmware is a set of instruction words of which any comes next.     *)
(***************************************************************************)
EXTENDS DigitProcessor

CONSTANTS PSetMap, PTestMap,  \* p_set_map and p_test_map: from the 4 bits of the instruction to P
          ESegment, GSegment, \* the digits of the character generator that light these segments
          ACT_SSIZE,          \* 16: status bits
          ActRam,             \* the addresses that exist: whole blocks of ACT_BLOCK
          ACT_BLOCK,          \* 16: registers of a block
          ActSessions         \* the words of the firmware, the keys, scanner lines and external flags that are
                              \* used, platform and key_scanner_as_flags, and the registers in earlier state files

ASSUME ActAssumption ==
  /\ HEX = 16
  /\ ESegment \subseteq Digit /\ GSegment \subseteq Digit
  /\ PSetMap \in [1..16 -> Nat]
  /\ \A x \in ActSessions : x.words \subseteq 0..1023 /\ x.keys \subseteq 0..255

VARIABLES setup,           \* one of ActSessions
          ad,              \* act_reg_t
          act_segments,    \* sim->display_segments
          act_steady       \* history: are A, B and display_enable as they were when the frame was begun?

advars == <<setup, ad, act_segments, act_steady>>

ActRegs == {"a", "b", "c", "y", "z", "t", "m1", "m2"}
NoKeyBuf == -1
Spc == setup.platform = "spice"
Clyde == setup.platform = "clyde"

-----------------------------------------------------------------------------
(* init_ops.  The words whose names have no case below are those of module *)
(* Woodstock, and bad_op.                                                  *)
MiscOps ==
  (\o10 :> "op_clear_reg") @@ (\o110 :> "op_clear_s") @@ (\o210 :> "op_display_toggle") @@ (\o310 :> "op_display_off")
  @@ (\o410 :> "op_m1_exch_c") @@ (\o510 :> "op_m1_to_c") @@ (\o610 :> "op_m2_exch_c") @@ (\o710 :> "op_m2_to_c")
  @@ (\o1010 :> "op_stack_to_a") @@ (\o1110 :> "op_down_rotate") @@ (\o1210 :> "op_y_to_a")
  @@ (\o1310 :> "op_c_to_stack") @@ (\o1410 :> "op_decimal") @@ (\o1610 :> "op_f_to_a") @@ (\o1710 :> "op_f_exch_a")
  @@ (\o120 :> "op_keys_to_a") @@ (\o320 :> "op_display_reset_twf") @@ (\o420 :> "op_binary")
  @@ (\o520 :> "op_circulate_a_left") @@ (\o620 :> "op_dec_p") @@ (\o720 :> "op_inc_p")
  @@ (\o1160 :> "op_c_to_addr") @@ (\o1260 :> "op_clear_data_regs") @@ (\o1360 :> "op_c_to_data")
  @@ (\o70 :> "op_data_to_c")

RowOps ==
  (\o04 :> "op_set_s") @@ (\o14 :> "op_clr_s") @@ (\o24 :> "op_test_s_eq_1") @@ (\o34 :> "op_test_s_eq_0")
  @@ (\o30 :> "op_load_constant") @@ (\o44 :> "op_test_p_eq") @@ (\o54 :> "op_test_p_ne")
  @@ (\o50 :> "op_c_to_register") @@ (\o70 :> "op_register_to_c") @@ (\o74 :> "op_set_p")

ActOp(w) ==
  CASE w % 4 = 2                -> "op_arith"
    [] w \in DOMAIN MiscOps     -> MiscOps[w]
    [] w \notin DOMAIN MiscOps /\ w % 64 \in DOMAIN RowOps -> RowOps[w % 64]
    [] OTHER                    -> "no say in the data"

Tests == {"op_test_s_eq_0", "op_test_s_eq_1", "op_test_p_eq", "op_test_p_ne"}

-----------------------------------------------------------------------------
LeftBy(c, op, done) == [c EXCEPT !.reg = done.regs, !.carry = done.carry, !.then_goto = op \in 22..27]

act_arith(c, op, field) ==
  LeftBy(c, op, Arith!Execute(Arith!woodstock_op_arith[op + 1], c.reg, field[1], field[2],
                              IF c.decimal THEN DEC ELSE HEX))

(* A test leaves a carry if it fails.  P = 0 after two increments is also  *)
(* true of 1 where the firmware searches for a label.                      *)
TestP(c, val) ==
  IF val = 0 /\ c.incremented[2] /\ c.incremented[3] /\ setup.label_search THEN c.p \notin {0, 1} ELSE c.p # val

act_tests(c, op, n) ==
  [c EXCEPT !.then_goto = TRUE,
            !.carry = CASE op = "op_test_s_eq_0" -> n \in c.s
                        [] op = "op_test_s_eq_1" -> n \notin c.s
                        [] op = "op_test_p_eq"   -> TestP(c, PTestMap[n + 1])
                        [] op = "op_test_p_ne"   -> ~TestP(c, PTestMap[n + 1])]

DownP(c) == IF c.p > 0 THEN c.p - 1 ELSE WSIZE - 1

act_pointer(c, op, n) ==
  CASE op = "op_inc_p" -> [c EXCEPT !.p = IF @ + 1 >= WSIZE THEN 0 ELSE @ + 1, !.incremented[1] = TRUE]
    [] op = "op_dec_p" -> [c EXCEPT !.p = DownP(c)]
    [] op = "op_set_p" -> [c EXCEPT !.p = PSetMap[n + 1]]
    [] op = "op_load_constant" ->
         [c EXCEPT !.reg["c"] = IF c.p < WSIZE THEN [@ EXCEPT ![c.p] = n] ELSE @, !.p = DownP(c)]
    [] op = "op_binary"  -> [c EXCEPT !.decimal = FALSE]
    [] op = "op_decimal" -> [c EXCEPT !.decimal = TRUE]
    [] OTHER -> c

act_status(c, op, n) ==
  CASE op = "op_clear_s" -> [c EXCEPT !.s = @ \cap {1, 2, 5, 15}]
    [] op = "op_set_s" /\ n < ACT_SSIZE -> [c EXCEPT !.s = @ \cup {n}]
    [] op = "op_clr_s" /\ n < ACT_SSIZE -> [c EXCEPT !.s = @ \ {n}]
    [] op = "op_keys_to_a" ->
         LET key == IF c.key_buf = NoKeyBuf THEN 0 ELSE c.key_buf
         IN  [c EXCEPT !.reg["a"] = [@ EXCEPT ![2] = key \div 16, ![1] = key % 16]]
    [] OTHER -> c

(* the registers that a word copies into others, all at once *)
ActMoves(op) ==
  CASE op = "op_m1_exch_c"   -> [c |-> "m1", m1 |-> "c"]
    [] op = "op_m2_exch_c"   -> [c |-> "m2", m2 |-> "c"]
    [] op = "op_m1_to_c"     -> [c |-> "m1"]
    [] op = "op_m2_to_c"     -> [c |-> "m2"]
    [] op = "op_c_to_stack"  -> [t |-> "z", z |-> "y", y |-> "c"]
    [] op = "op_stack_to_a"  -> [a |-> "y", y |-> "z", z |-> "t"]
    [] op = "op_y_to_a"      -> [a |-> "y"]
    [] op = "op_down_rotate" -> [c |-> "y", y |-> "z", z |-> "t", t |-> "c"]
    [] OTHER -> <<>>

ClearRegs(reg) == Over([x \in {"a", "b", "c", "y", "z", "t"} |-> NULL], reg)

act_registers(c, op) ==
  CASE op = "op_clear_reg" -> [c EXCEPT !.reg = ClearRegs(@)]
    [] op = "op_f_to_a"    -> [c EXCEPT !.reg["a"][0] = c.f]
    [] op = "op_f_exch_a"  -> [c EXCEPT !.reg["a"][0] = c.f, !.f = c.reg["a"][0]]
    [] op = "op_circulate_a_left" -> [c EXCEPT !.reg["a"] = [i \in Digits |-> @[(i - 1) % WSIZE]]]
    [] OTHER -> [c EXCEPT !.reg = Over([x \in DOMAIN ActMoves(op) |-> c.reg[ActMoves(op)[x]]], @)]

(* A register that does not exist reads as zero and is not written.        *)
ActWrite(c) == IF c.ram_addr \in ActRam THEN [c EXCEPT !.ram[c.ram_addr] = c.reg["c"]] ELSE c
ActRead(c) == [c EXCEPT !.reg["c"] = IF c.ram_addr \in ActRam THEN c.ram[c.ram_addr] ELSE NULL]
Block(a) == a - (a % ACT_BLOCK)

act_ram(c, op, n) ==
  LET selected == [c EXCEPT !.ram_addr = Block(@) + n]
  IN  CASE op = "op_c_to_addr"     -> [c EXCEPT !.ram_addr = c.reg["c"][1] * 16 + c.reg["c"][0]]
        [] op = "op_c_to_data"     -> ActWrite(c)
        [] op = "op_data_to_c"     -> ActRead(c)
        [] op = "op_c_to_register" -> ActWrite(selected)
        [] op = "op_register_to_c" -> ActRead(selected)
        [] op = "op_clear_data_regs" ->
             [c EXCEPT !.ram = [a \in DOMAIN @ |-> IF Block(a) = Block(c.ram_addr) THEN NULL ELSE @[a]]]
        [] OTHER -> c

(* display_setup: the digits that are scanned, from the first one again    *)
display_setup(c) ==
  LET left == IF Spc THEN WSIZE - 2 ELSE WSIZE - 1
  IN  [c EXCEPT !.right_scan = IF Spc THEN EXPSIZE ELSE IF c.display_14_digit THEN 0 ELSE EXPSIZE - 1,
                !.left_scan = left, !.scan_position = left, !.digit_position = 0]

act_display(c, op) ==
  CASE op = "op_display_off"       -> [c EXCEPT !.display_enable = FALSE]
    [] op = "op_display_toggle"    -> [c EXCEPT !.display_enable = ~@]
    [] op = "op_display_reset_twf" -> display_setup([c EXCEPT !.display_14_digit = TRUE])
    [] OTHER -> c

act_op_fcn(c, w, op, n) ==
  CASE op = "op_arith" -> act_arith(c, w \div 32, Arith!woodstock_field(c.p)[((w \div 4) % 8) + 1])
    [] op \in Tests    -> act_tests(c, op, n)
    [] OTHER -> act_display(act_ram(act_registers(act_status(act_pointer(c, op, n), op, n), op), op, n), op)

-----------------------------------------------------------------------------
(* The scanner of keys that are wired as flags: a code is the OR of the    *)
(* lines', and the lines that S0 selects come in addition.                 *)
LineCode == [KA |-> 4, KB |-> 3, KC |-> 2, KD |-> 1, KE |-> 0]
Or(codes) ==
  4 * (IF 4 \in codes THEN 1 ELSE 0) + 2 * (IF codes \cap {2, 3} # {} THEN 1 ELSE 0)
  + (IF codes \cap {1, 3} # {} THEN 1 ELSE 0)

key_scan_flag(c) ==
  LET lines == c.scanner \cup (IF 0 \in c.s THEN c.scanner_s0 ELSE {})
  IN  [c EXCEPT !.key_buf = Or({LineCode[x] : x \in lines}), !.key_flag = lines # {}]

(* F1, F2 and a held key set status bits; a pulse does so in one cycle.    *)
Raised(c, flag, pulse, cond) == flag \in c.ext_flag \/ pulse \in c.ext_flag \/ (0 \in c.s /\ cond \in c.ext_flag)

flags_to_status(c) ==
  [c EXCEPT !.s = @ \cup {n \in {5} : ~Spc /\ ~Raised(c, "F1", "F1_PULSE", "F1_COND_S0")}
                    \cup {n \in {3} : Raised(c, "F2", "F2_PULSE", "F2_COND_S0")}
                    \cup {n \in {15} : c.key_flag},
            !.ext_flag = @ \ ((IF Spc THEN {} ELSE {"F1_PULSE"}) \cup {"F2_PULSE"})]

-----------------------------------------------------------------------------
(* woodstock_display_scan and spice_display_scan: the digit of this cycle, *)
(* as the set of what is lit in its position                               *)
Has(b, bit) == (b \div bit) % 2 = 1

Shape(a, b) == IF ~Has(b, 2) THEN {a} ELSE IF a >= 2 /\ a % 8 # 7 THEN {Minus} ELSE {}

(* the digit with the sign of the exponent has nothing but that *)
GOnly(shape) == IF shape \cap (GSegment \cup {Minus}) # {} THEN {Minus} ELSE {}

(* The sign of the mantissa has no digit of its own when 14 are shown: it  *)
(* is a segment of the digit that has the sign of the exponent.            *)
HasSigns(c, at) == ~Clyde /\ c.display_14_digit /\ at = WSIZE - EXPSIZE + 1

Lit(c, a, b, at) ==
  IF ~c.display_enable \/ (Clyde /\ at = WSIZE) THEN {}
  ELSE (IF HasSigns(c, at) THEN GOnly(Shape(a, b)) ELSE Shape(a, b)) \cup (IF Has(b, 1) THEN {Point} ELSE {})

WithSign(segs, sign) == IF sign THEN Put(segs, 0, {Minus}) ELSE segs

woodstock_display_scan_SignStays(c, segs, a, b, at) ==  \* mutant: the room for the sign is not cleared
  LET signed == WithSign(segs, c.display_enable /\ HasSigns(c, at) /\ Shape(a, b) \cap ESegment # {})
  IN  IF at = 0 /\ Clyde THEN signed ELSE Put(signed, at, Lit(c, a, b, at))

woodstock_display_scan(c, segs, a, b, at) ==
  LET signed == WithSign(IF c.digit_position # at THEN Put(segs, 0, {}) ELSE segs,
                         c.display_enable /\ HasSigns(c, at) /\ Shape(a, b) \cap ESegment # {})
  IN  IF at = 0 /\ Clyde THEN signed ELSE Put(signed, at, Lit(c, a, b, at))

spice_display_scan(c, segs, a, b, at) ==
  LET negative == c.scan_position = c.left_scan /\ (Has(b, 4) \/ (b = 2 /\ a = 8))
      shape == CASE b = 6 /\ a = 9 -> {Minus} [] b = 6 /\ a # 9 -> {}
                 [] b # 6 -> {a} \cup (IF Has(b, 1) THEN {Point} ELSE {}) \cup (IF Has(b, 2) THEN {Point, Comma} ELSE {})
      signed == WithSign(IF c.digit_position # at THEN Put(segs, 0, {}) ELSE segs, c.display_enable /\ negative)
  IN  Put(signed, at, IF c.display_enable THEN shape ELSE {})

display_scan_fn(c, segs, a, b, at) ==
  IF Spc THEN spice_display_scan(c, segs, a, b, at) ELSE woodstock_display_scan(c, segs, a, b, at)

(* Both make room for the sign in position 0; a later position is blanked  *)
(* when the scan ends.                                                     *)
DigitAt(c) == IF c.digit_position = 0 /\ (Spc \/ c.display_14_digit) THEN 1 ELSE c.digit_position

Ends(c) == c.scan_position - 1 < c.right_scan

display_scan_advance(c, at) ==
  [c EXCEPT !.scan_position = IF Ends(c) THEN c.left_scan ELSE @ - 1,
            !.digit_position = IF Ends(c) THEN 0 ELSE at + 1]

Scanned(c, segs, at) ==
  LET done == display_scan_fn(c, segs, c.reg["a"][c.scan_position], c.reg["b"][c.scan_position], at)
  IN  [p \in DOMAIN segs |-> IF Ends(c) /\ p > at THEN {} ELSE done[p]]

-----------------------------------------------------------------------------
(* woodstock_execute_cycle, before the display; the cycle of a then-goto's *)
(* second word works on no data.                                           *)
ActFirst(c) ==
  [c EXCEPT !.carry = FALSE, !.then_goto = FALSE, !.incremented = <<FALSE, @[1], @[2]>>]

ActKeys(c) ==
  IF setup.key_scanner_as_flags THEN [key_scan_flag(c) EXCEPT !.incremented = <<@[1], @[2]>>]
  ELSE [c EXCEPT !.incremented = <<@[1], @[2]>>]

Worked(c, w) ==
  ActKeys(IF c.then_goto THEN ActFirst(c) ELSE act_op_fcn(ActFirst(c), w, ActOp(w), w \div 64))

(* and after it *)
ActShown(c) == flags_to_status(display_scan_advance(c, DigitAt(c)))
ActCycled(c, w) == ActShown(Worked(c, w))

(* woodstock_reset; the carry, F, M1, M2 and the address are kept *)
Cleared(c) ==
  display_setup([c EXCEPT !.decimal = TRUE, !.then_goto = FALSE, !.reg = ClearRegs(@), !.s = {},
                          !.ext_flag = IF setup.platform = "woodstock" THEN @ \ {"F1"} ELSE @,
                          !.p = 0, !.incremented = <<FALSE, FALSE>>, !.display_14_digit = FALSE,
                          !.display_enable = FALSE, !.key_buf = NoKeyBuf, !.key_flag = FALSE])

(* woodstock_new_processor: alloc clears *)
NewAct ==
  Cleared([reg |-> [x \in ActRegs |-> NULL], f |-> 0, p |-> 0, incremented |-> <<FALSE, FALSE>>, decimal |-> FALSE,
           carry |-> FALSE, then_goto |-> FALSE, s |-> {}, ext_flag |-> {}, scanner |-> {},
           scanner_s0 |-> IF setup.key_scanner_as_flags THEN {"KE"} ELSE {}, key_flag |-> FALSE, key_buf |-> 0,
           display_enable |-> FALSE, display_14_digit |-> FALSE, left_scan |-> 0, right_scan |-> 0,
           scan_position |-> 0, digit_position |-> 0, ram_addr |-> 0, ram |-> [a \in ActRam |-> NULL]])

ActInit ==
  /\ setup \in ActSessions
  /\ ad = NewAct
  /\ act_segments = FrameOf({})
  /\ act_steady = TRUE

ActDisplayed(c) == <<c.reg["a"], c.reg["b"], c.display_enable, c.display_14_digit>>

ActCycle ==
  \E w \in IF ad.then_goto THEN {0} ELSE setup.words :
    LET c == Worked(ad, w)
    IN  /\ ad' = ActShown(c)
        /\ act_segments' = Scanned(c, act_segments, DigitAt(c))
        /\ act_steady' = (c.digit_position = 0 \/ (act_steady /\ ActDisplayed(c) = ActDisplayed(ad)))
        /\ UNCHANGED setup

(* woodstock_event_fn: the events, between two instructions *)
ActEvent(c) ==
  /\ ~ad.then_goto
  /\ ad' = c /\ act_steady' = (act_steady /\ ActDisplayed(c) = ActDisplayed(ad))
  /\ UNCHANGED <<setup, act_segments>>

act_key ==
  \/ \E k \in setup.keys : ActEvent([ad EXCEPT !.key_buf = k, !.key_flag = TRUE])
  \/ ActEvent([ad EXCEPT !.key_flag = FALSE])

Switched(set, x, on) == IF on THEN set \cup {x} ELSE set \ {x}

set_ext_flag ==
  \E on \in BOOLEAN :
    \/ \E x \in setup.flags : ActEvent([ad EXCEPT !.ext_flag = Switched(@, x, on)])
    \/ \E x \in setup.lines : ActEvent([ad EXCEPT !.scanner = Switched(@, x, on)])
    \/ \E x \in setup.lines : ActEvent([ad EXCEPT !.scanner_s0 = Switched(@, x, on)])

pulse_ext_flag == \E pulse \in setup.pulses : ActEvent([ad EXCEPT !.ext_flag = @ \cup {pulse}])

woodstock_clear_memory == ActEvent([ad EXCEPT !.ram = [a \in DOMAIN @ |-> NULL]])

woodstock_reset == ActEvent(Cleared(ad))

(* woodstock_cpu_reg_detail and the memory: what a state file has; and     *)
(* event_restore_completed, which begins a new frame                       *)
ActFields ==
  {"reg", "p", "f", "decimal", "carry", "s", "ext_flag", "display_enable", "display_14_digit", "ram_addr", "ram"}

ToActFile(c) == [x \in ActFields |-> c[x]]
FromActFile(c, file) == display_setup(Over(file, c))

Register == [Digits -> Digit]

ASSUME ActFileAssumption ==
  \A x \in ActSessions : \A file \in x.files :
    /\ DOMAIN file = ActFields /\ file.reg \in [ActRegs -> Register] /\ file.f \in Digit
    /\ file.ram \in [ActRam -> Register] /\ file.p \in Nat

woodstock_read == \E file \in setup.files : ActEvent(FromActFile(ad, file))

ActNext ==
  ActCycle \/ act_key \/ set_ext_flag \/ pulse_ext_flag \/ woodstock_clear_memory \/ woodstock_reset \/ woodstock_read
ActSpec == ActInit /\ [][ActNext]_advars
-----------------------------------------------------------------------------
(* What the digit of A and B looks like: a digit or, where B has the bit   *)
(* 2, a minus or nothing, and a point where it has the bit 1.              *)
Looks(a, b) ==
  (IF ~Has(b, 2) THEN {a} ELSE {Minus} \ {x \in {Minus} : a \in {0, 1, 7, 15}})
  \cup {x \in {Point} : Has(b, 1)}

SpiceLooks(a, b) ==
  IF b = 6 THEN {x \in {Minus} : a = 9}
  ELSE {a} \cup {x \in {Point} : Has(b, 1) \/ Has(b, 2)} \cup {x \in {Comma} : Has(b, 2)}

(* The frame of the registers, in the positions of the platform: the Spice *)
(* shows the sign before the mantissa and no exponent's last digits, the   *)
(* others 12 digits, or 14 after the sign of the mantissa, which the digit *)
(* with the sign of the exponent has; the Clyde neither that nor the last. *)
ActFrame(c) ==
  LET A(i) == c.reg["a"][i]
      B(i) == c.reg["b"][i]
      top == IF Spc THEN WSIZE - 2 ELSE WSIZE - 1
      expSign == EXPSIZE - 1
      Segment(set) == \E x \in Looks(A(expSign), B(expSign)) : x \in set
      Sign == IF Spc THEN Has(B(top), 4) \/ (B(top) = 2 /\ A(top) = 8)
              ELSE ~Clyde /\ Segment(ESegment)
      Shown(i) ==
        CASE Spc /\ i >= EXPSIZE -> SpiceLooks(A(i), B(i))
          [] ~Spc /\ ~c.display_14_digit /\ i >= expSign -> IF Clyde /\ i = top THEN {} ELSE Looks(A(i), B(i))
          [] ~Spc /\ c.display_14_digit ->
               IF Clyde THEN IF i = 0 THEN {} ELSE Looks(A(i), B(i))
               ELSE IF i # expSign THEN Looks(A(i), B(i))
               ELSE {x \in {Minus} : Segment(GSegment \cup {Minus})} \cup {x \in {Point} : Has(B(i), 1)}
          [] OTHER -> {}
      shift == IF Spc \/ c.display_14_digit THEN 1 ELSE 0
  IN  [p \in 0..(MAX_DIGIT_POSITION - 1) |->
         IF ~c.display_enable THEN {}
         ELSE IF p < shift THEN {x \in {Minus} : Sign}
         ELSE IF top - (p - shift) \in Digits THEN Shown(top - (p - shift)) ELSE {}]

(* A frame that reaches the GUI shows A and B, if the program left them as *)
(* they were during the scan, whichever digits were shown before, and also *)
(* after a reset and after a state file was read, which set the display up *)
(* anew in the middle of a scan.  (woodstock_display_scan,                 *)
(* spice_display_scan, display_setup)                                      *)
ActFrameShowsTheRegisters ==
  [][ActCycle /\ ad'.digit_position = 0 /\ act_steady' = TRUE => act_segments' = ActFrame(ad')]_advars

(* A calculator that reads the file of this one goes on as this one would, *)
(* with no key held and the lines of the scanner as they are: its next     *)
(* instruction leaves the same in every register that the file has.        *)
(* Excepted are the last key, which is not in the file, and the increments *)
(* of P just before, which a test of P looks at.  (woodstock_cpu_reg_detail *)
(* against woodstock_execute_cycle)                                        *)
ActElsewhere ==
  [NewAct EXCEPT !.then_goto = FALSE, !.incremented = <<FALSE, TRUE>>, !.display_14_digit = TRUE, !.s = {0},
                 !.f = 1, !.scanner = ad.scanner, !.scanner_s0 = ad.scanner_s0]

ActGoesOn ==
  ~ad.then_goto /\ ~ad.key_flag /\ ~ad.incremented[1] =>
    \A w \in {v \in setup.words : ActOp(v) # "op_keys_to_a"} :
      ToActFile(ActCycled(FromActFile(ActElsewhere, ToActFile(ad)), w)) = ToActFile(ActCycled(ad, w))
=============================================================================
