------------------------------ MODULE Classic ------------------------------
(***************************************************************************)
(* The Classic processor (proc_classic.c): all of its instructions, the    *)
(* display that it scans digit by digit while it executes them, its keys   *)
(* and external flags, and what a state file keeps of it.  The firmware is *)
(* a set of instruction words of which any comes next.                     *)
(***************************************************************************)
EXTENDS DigitProcessor

CONSTANTS SSIZE,              \* 12: status bits
          ROM_SIZE,           \* 256: words of a ROM
          MAX_RAM,            \* 10, 100 in the HP-55
          TwoDigits,          \* arch_flags & 1: the HP-55's addresses
          Sessions            \* the words of the firmware, the keys and external flags that are used,
                              \* and the registers in state files that were written before

ASSUME ClassicAssumption ==
  /\ SSIZE \in 1..16 /\ ROM_SIZE \in Nat \ {0}
  /\ MAX_RAM \in Nat \ {0} /\ TwoDigits \in BOOLEAN
  /\ \A x \in Sessions : x.words \subseteq 0..1023 /\ x.flags \subseteq {3, 11}

VARIABLES session,
          cl,          \* classic_cpu_reg_t
          segments,    \* sim->display_segments: the frame that is scanned
          steady       \* history: are A, B and display_enable as they were when the frame was begun?

clvars == <<session, cl, segments, steady>>

RegNames == {"a", "b", "c", "d", "e", "f", "m"}
left_scan == WSIZE - 1
right_scan == 0

(* init_ops: what the word w is *)
ClassicOp(w) ==
  LET n == w \div 64
  IN  CASE w % 4 = 1        -> "op_jsb"
        [] w % 4 = 2        -> "op_arith"
        [] w % 4 = 3        -> "op_goto"
        [] w = \h034        -> "op_clear_s"
        [] w % 64 = \h04    -> "op_set_s"
        [] w % 64 = \h14    -> "op_test_s"
        [] w % 64 = \h24    -> "op_clr_s"
        [] w % 128 = \h74   -> "op_del_sel_rom"
        [] w \in {\h234, \h2b4} -> "op_del_sel_grp"
        [] w % 64 = \h0c    -> "op_set_p"
        [] w % 64 = \h2c    -> "op_test_p"
        [] w = \h01c        -> "op_dec_p"
        [] w = \h03c        -> "op_inc_p"
        [] w % 64 = \h18 /\ n <= 9 -> "op_load_constant"
        [] w = \h028        -> "op_display_toggle"
        [] w = \h228        -> "op_display_off"
        [] w = \h0a8        -> "op_c_exch_m"
        [] w = \h128        -> "op_c_to_stack"
        [] w = \h1a8        -> "op_stack_to_a"
        [] w = \h2a8        -> "op_m_to_c"
        [] w = \h328        -> "op_down_rotate"
        [] w = \h3a8        -> "op_clear_reg"
        [] w % 256 \in {\he8, \hf8} -> "op_data_to_c"
        [] w % 128 = \h10   -> "op_sel_rom"
        [] w = \h030        -> "op_return"
        [] w = \h0d0        -> "op_keys_to_rom_addr"
        [] w = \h270        -> "op_c_to_addr"
        [] w = \h2f0        -> "op_c_to_data"
        [] OTHER            -> "op_nop"        \* and op_rom_addr_to_buf, bad_op

-----------------------------------------------------------------------------
(* The instructions, by what they work on.  op: ClassicOp of the word; n:  *)
(* its upper four bits.                                                    *)
Left(c, done) == [c EXCEPT !.reg = done.regs, !.carry = done.carry]

ClassicArith(c, op, field) ==
  Left(c, Arith!Execute(Arith!classic_op_arith[op + 1], c.reg, field[1], field[2], DEC))

classic_flow(c, op, n, target) ==
  CASE op = "op_goto"   -> IF c.prev_carry THEN c ELSE [c EXCEPT !.pc = target % ROM_SIZE]
    [] op = "op_jsb"    -> [c EXCEPT !.ret_pc = c.pc, !.pc = target % ROM_SIZE]
    [] op = "op_return" -> [c EXCEPT !.pc = c.ret_pc]
    [] op = "op_sel_rom" -> [c EXCEPT !.rom = n \div 2]
    [] op = "op_del_sel_rom" -> [c EXCEPT !.del_rom = n \div 2, !.del_rom_flag = TRUE]
    [] op = "op_del_sel_grp" -> [c EXCEPT !.del_group = (n \div 2) % 2, !.del_group_flag = TRUE]
    [] op = "op_keys_to_rom_addr" -> [c EXCEPT !.pc = c.key_buf % ROM_SIZE]
    [] OTHER -> c

classic_status(c, op, n) ==
  CASE op = "op_clear_s" -> [c EXCEPT !.s = {}]
    [] op = "op_set_s"   -> IF n < SSIZE THEN [c EXCEPT !.s = @ \cup {n}] ELSE c
    [] op = "op_clr_s"   -> [c EXCEPT !.s = @ \ {n}]
    [] op = "op_test_s"  -> [c EXCEPT !.carry = n \in c.s]
    [] op = "op_set_p"   -> [c EXCEPT !.p = n]
    [] op = "op_test_p"  -> [c EXCEPT !.carry = (c.p = n)]
    [] op = "op_dec_p"   -> [c EXCEPT !.p = (@ - 1) % 16]
    [] op = "op_inc_p"   -> [c EXCEPT !.p = (@ + 1) % 16]
    [] op = "op_display_off"    -> [c EXCEPT !.display_enable = FALSE]
    [] op = "op_display_toggle" -> [c EXCEPT !.display_enable = ~@]
    [] OTHER -> c

(* the registers that a word copies into others, all at once *)
Moves(op) ==
  CASE op = "op_c_exch_m"    -> [c |-> "m", m |-> "c"]
    [] op = "op_m_to_c"      -> [c |-> "m"]
    [] op = "op_c_to_stack"  -> [d |-> "c", e |-> "d", f |-> "e"]
    [] op = "op_stack_to_a"  -> [a |-> "d", d |-> "e", e |-> "f"]
    [] op = "op_down_rotate" -> [c |-> "d", d |-> "e", e |-> "f", f |-> "c"]
    [] OTHER -> <<>>

RamAddress(c) ==
  IF TwoDigits /\ c.reg["c"][0] # 0 THEN c.reg["c"][WSIZE - 2] * 16 + c.reg["c"][WSIZE - 3]
  ELSE c.reg["c"][WSIZE - 2]

InRam(c) == c.ram_addr < MAX_RAM

classic_data(c, op, n) ==
  CASE op = "op_clear_reg" -> [c EXCEPT !.reg = [x \in RegNames |-> NULL]]
    [] op = "op_load_constant" ->
         [c EXCEPT !.reg["c"] = IF c.p < WSIZE THEN [@ EXCEPT ![c.p] = n] ELSE @, !.p = (@ - 1) % 16]
    [] op = "op_c_to_addr" -> [c EXCEPT !.ram_addr = RamAddress(c)]
    [] op = "op_c_to_data" -> IF InRam(c) THEN [c EXCEPT !.ram[c.ram_addr] = c.reg["c"]] ELSE c
    [] op = "op_data_to_c" -> [c EXCEPT !.reg["c"] = IF InRam(c) THEN c.ram[c.ram_addr] ELSE NULL]
    [] OTHER -> IF Moves(op) = <<>> THEN c
                ELSE [c EXCEPT !.reg = Over([x \in DOMAIN Moves(op) |-> c.reg[Moves(op)[x]]], @)]

op_fcn(c, w, op, n) ==
  IF op = "op_arith" THEN ClassicArith(c, w \div 32, Arith!classic_field(c.p)[((w \div 4) % 8) + 1])
  ELSE classic_data(classic_status(classic_flow(c, op, n, w \div 4), op, n), op, n)

(* classic_execute_instruction.  A delayed selection is made after the     *)
(* next instruction, whatever that is.                                     *)
ClassicFirst(c) ==
  [c EXCEPT !.prev_carry = c.carry, !.carry = FALSE, !.del_group_flag = FALSE, !.del_rom_flag = FALSE,
            !.pc = (@ + 1) % ROM_SIZE,
            !.s = @ \cup (IF c.key_flag THEN {0} ELSE {}) \cup (c.ext_flag \cap 0..(SSIZE - 1))]

classic_execute(c, w) ==
  [op_fcn(ClassicFirst(c), w, ClassicOp(w), w \div 64) EXCEPT
     !.group = IF c.del_group_flag THEN c.del_group ELSE @,
     !.rom = IF c.del_rom_flag THEN c.del_rom ELSE @]

-----------------------------------------------------------------------------
(* classic_display_scan: the digit of this cycle, and its decimal point,   *)
(* which has a position of its own                                         *)
SignPositions == {i \in {EXPSIZE - 1, WSIZE - 1} : TRUE}
Glyph(a, i) == IF i \notin SignPositions THEN a ELSE IF a >= 8 THEN Minus ELSE Blank

classic_display_scan_NoPoint(c, segs) ==    \* mutant: the point is in the digit's position
  LET i == c.display_scan_position
      lit == c.display_enable /\ c.reg["b"][i] <= 7
      digit == Put(segs, c.display_digit_position, IF lit THEN Glyph(c.reg["a"][i], i) ELSE Blank)
      ends == i - 1 < right_scan
      next == c.display_digit_position + 1
  IN  [c |-> [c EXCEPT !.display_scan_position = IF ends THEN left_scan ELSE i - 1,
                       !.display_digit_position = IF ends THEN 0 ELSE next],
       segments |-> [p \in DOMAIN digit |-> IF ends /\ p >= next THEN Blank ELSE digit[p]]]

classic_display_scan(c, segs) ==
  LET i == c.display_scan_position
      at == c.display_digit_position
      lit == c.display_enable /\ c.reg["b"][i] <= 7 /\ at < MAX_DIGIT_POSITION
      point == lit /\ c.reg["b"][i] = 2
      digit == Put(segs, at, IF lit THEN Glyph(c.reg["a"][i], i) ELSE Blank)
      pointed == IF point THEN Put(digit, at + 1, Point) ELSE digit
      ends == i - 1 < right_scan
      next == at + (IF point THEN 2 ELSE 1)
  IN  [c |-> [c EXCEPT !.display_scan_position = IF ends THEN left_scan ELSE i - 1,
                       !.display_digit_position = IF ends THEN 0 ELSE next],
       segments |-> [p \in DOMAIN digit |-> IF ends /\ p >= next THEN Blank ELSE pointed[p]]]

-----------------------------------------------------------------------------
(* classic_new_processor: alloc clears *)
FreshClassic ==
  [reg |-> [x \in RegNames |-> NULL], p |-> 0, carry |-> FALSE, prev_carry |-> FALSE, s |-> {}, ext_flag |-> {},
   pc |-> 0, rom |-> 0, group |-> 0, del_rom |-> 0, del_rom_flag |-> FALSE, del_group |-> 0,
   del_group_flag |-> FALSE, ret_pc |-> 0, key_flag |-> FALSE, key_buf |-> 0, display_enable |-> FALSE,
   display_scan_position |-> left_scan, display_digit_position |-> 0,
   ram_addr |-> 0, ram |-> [a \in 0..(MAX_RAM - 1) |-> NULL]]

ClassicInit ==
  /\ session \in Sessions
  /\ cl = FreshClassic
  /\ segments = FrameOf(Blank)
  /\ steady = TRUE

Displayed(c) == <<c.reg["a"], c.reg["b"], c.display_enable>>
FrameBegins(c) == c.display_scan_position = left_scan

ClassicInstruction ==
  \E w \in session.words :
    LET c == classic_execute(cl, w)
        scanned == classic_display_scan(c, segments)
    IN  /\ cl' = scanned.c
        /\ segments' = scanned.segments
        /\ steady' = (FrameBegins(c) \/ (steady /\ Displayed(c) = Displayed(cl)))
        /\ UNCHANGED session

(* classic_event_fn: the events *)
ClassicEvent(c) == cl' = c /\ steady' = (steady /\ Displayed(c) = Displayed(cl)) /\ UNCHANGED <<session, segments>>

event_key ==
  \/ \E k \in session.keys : ClassicEvent([cl EXCEPT !.key_buf = k, !.key_flag = TRUE])
  \/ ClassicEvent([cl EXCEPT !.key_flag = FALSE])

event_set_flag ==
  \E flag \in session.flags, on \in BOOLEAN :
    ClassicEvent([cl EXCEPT !.ext_flag = IF on THEN @ \cup {flag} ELSE @ \ {flag}])

classic_clear_memory == ClassicEvent([cl EXCEPT !.ram = [a \in DOMAIN @ |-> NULL]])

(* carry, the external flags, the address and the last key are kept *)
classic_reset ==
  /\ cl' = [FreshClassic EXCEPT !.carry = cl.carry, !.prev_carry = cl.prev_carry, !.ext_flag = cl.ext_flag,
              !.ret_pc = cl.ret_pc, !.key_buf = cl.key_buf, !.ram_addr = cl.ram_addr, !.ram = cl.ram]
  /\ steady' = TRUE
  /\ UNCHANGED <<session, segments>>

(* classic_cpu_reg_detail and the memory: what a state file has *)
classic_cpu_reg_detail_NoDelayed ==      \* mutant: without the delayed selection
  {"reg", "p", "carry", "s", "ext_flag", "group", "rom", "pc", "ret_pc", "display_enable", "ram"}

classic_cpu_reg_detail ==
  {"reg", "p", "carry", "s", "ext_flag", "group", "rom", "pc", "ret_pc",
   "del_group_flag", "del_group", "del_rom_flag", "del_rom", "display_enable", "ram"}

ToFile(c) == [x \in classic_cpu_reg_detail |-> c[x]]
FromFile(c, file) == Over(file, c)

ASSUME ClassicFileAssumption ==
  \A x \in Sessions : \A file \in x.files : DOMAIN file = classic_cpu_reg_detail

classic_read == \E file \in session.files : ClassicEvent(FromFile(cl, file))

ClassicNext ==
  ClassicInstruction \/ event_key \/ event_set_flag \/ classic_clear_memory \/ classic_reset \/ classic_read
ClassicSpec == ClassicInit /\ [][ClassicNext]_clvars
-----------------------------------------------------------------------------
(* A, B and the switch of the display, from left to right: the digits that *)
(* B does not blank, the signs, and the point after the digit where B is 2 *)
Frame(c) ==
  LET chars[i \in -1..left_scan] ==
        IF i = -1 THEN <<>>
        ELSE LET b == c.reg["b"][i]
             IN  (IF ~(c.display_enable /\ b <= 7) THEN <<Blank>>
                  ELSE IF b = 2 THEN <<Glyph(c.reg["a"][i], i), Point>> ELSE <<Glyph(c.reg["a"][i], i)>>)
                 \o chars[i - 1]
      all == chars[left_scan]
  IN  [p \in 0..(MAX_DIGIT_POSITION - 1) |-> IF p < Len(all) THEN all[p + 1] ELSE Blank]

(* A frame that reaches the GUI shows A and B, if the program left them as *)
(* they were during the scan, which takes a cycle for each digit and       *)
(* begins anew after a reset but not after a state file was read.          *)
(* (classic_display_scan)                                                  *)
FrameShowsTheRegisters ==
  [][ClassicInstruction /\ cl.display_scan_position = right_scan /\ steady' = TRUE
       /\ Displayed(cl') = Displayed(cl)
     => segments' = Frame(cl')]_clvars

(* A calculator that reads the file of this one, with no key held, goes on *)
(* as this one would, whatever it did before: its next instruction leaves  *)
(* the same in every register that the file has.  Only the instructions    *)
(* that use the RAM address or the last key, which are not in the file,    *)
(* are excepted.  (classic_cpu_reg_detail against                          *)
(* classic_execute_instruction)                                            *)
NotInTheFile == {"op_c_to_data", "op_data_to_c", "op_keys_to_rom_addr"}
Elsewhere ==
  [FreshClassic EXCEPT !.prev_carry = TRUE, !.del_rom_flag = TRUE, !.del_rom = 1, !.del_group_flag = TRUE,
                       !.group = 1, !.display_enable = TRUE, !.s = {0}]

RestoredGoesOn ==
  ~cl.key_flag =>
    \A w \in {v \in session.words : ClassicOp(v) \notin NotInTheFile} :
      ToFile(classic_execute(FromFile(Elsewhere, ToFile(cl)), w)) = ToFile(classic_execute(cl, w))
=============================================================================
