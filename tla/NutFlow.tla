------------------------------ MODULE NutFlow ------------------------------
(***************************************************************************)
(* The flow of control of the Nut processor (proc_nut.c), next to what the *)
(* disassembler says of it (dis_nut.c): in a listing, which walks through  *)
(* the ROM, and in a trace, which is given the processor's state.  A word  *)
(* of the ROM is chosen when it is read; what an instruction makes of the  *)
(* carry, and the address in C, is any of the values it allows.            *)
(***************************************************************************)
EXTENDS Integers, Sequences

CONSTANTS NutSize,      \* 2^16 words in the calculator
          NutPage,      \* 256: what op_keys_to_rom_addr stays in
          STACK_DEPTH,  \* 4
          NutWords,     \* of the firmware, as instructions
          NutSeconds,   \* of the firmware, as second words and for smart peripherals
          JumpBlock,    \* 1024: what the third word of a jump addresses; a page has 4 blocks
          Jumps41,      \* DIS_FLAG_NUT_41_JUMPS: whether the listing is of an HP-41
          Uninitialized \* what "uncond" of nut_disassemble_short_branch can begin with

ASSUME NutFlowAssumption ==
  /\ NutSize \in Nat \ {0} /\ NutPage \in Nat \ {0} /\ NutSize % NutPage = 0
  /\ STACK_DEPTH \in Nat \ {0, 1}
  /\ NutWords \subseteq 0..1023 /\ NutSeconds \subseteq 0..1023
  /\ JumpBlock \in Nat \ {0} /\ Jumps41 \in BOOLEAN
  /\ Uninitialized \in (SUBSET BOOLEAN) \ {{}}

VARIABLES nut,      \* the processor
          dis,      \* the disassembler's state, when its walk comes to the same word
          unshown   \* why a text did not show where the processor went from the last word

nfvars == <<nut, dis, unshown>>

NutAddresses == 0..(NutSize - 1)
Next1(a) == (a + 1) % NutSize
Kind(w) == w % 4                       \* misc, long branch, arithmetic, short branch
Column(w) == w \div 64                 \* opcode >> 6
RowOf(w) == w % 64

(* nut_init_ops: the instructions that have a say in the flow, or set the  *)
(* carry.  NutTmap: of the columns 7 and 15 only some are instructions.    *)
InTmap(w) == Column(w) \notin {7, 15}
NutOp(w) ==
  CASE Kind(w) = 1 -> "op_long_branch"
    [] Kind(w) = 2 -> "op_arith"
    [] Kind(w) = 3 -> "op_short_branch"
    [] RowOf(w) \in {\h0c, \h14, \h2c} /\ InTmap(w) -> "a test"  \* op_test_s, op_test_pt, op_test_ext_flag
    [] w \in {\h3cc, \h120} -> "a test"                        \* op_test_kb, op_test_pq
    [] RowOf(w) = \h24 -> "op_selpf"
    [] w = \h020 -> "op_pop"
    [] w = \h060 -> "op_powoff"
    [] w = \h1e0 -> "op_goto_c"
    [] w = \h360 -> "op_return_if_carry"
    [] w = \h3a0 -> "op_return_if_no_carry"
    [] w = \h3e0 -> "op_return"
    [] w = \h130 -> "op_ldi"
    [] w = \h170 -> "op_push_c"
    [] w = \h1b0 -> "op_pop_c"
    [] w = \h230 -> "op_keys_to_rom_addr"
    [] w = \h330 -> "op_rom_to_c"
    [] OTHER -> "another"

(* op_arith: the additions, subtractions and tests *)
MaySetCarry(w) == NutOp(w) = "a test" \/ (NutOp(w) = "op_arith" /\ (w \div 32) \in 9..27)

-----------------------------------------------------------------------------
(* The processor *)
Top(c) == c.stack[1]
pop(c) == [c EXCEPT !.stack = Append(Tail(@), 0)]
push(c, a) == [c EXCEPT !.stack = <<a>> \o SubSeq(@, 1, STACK_DEPTH - 1)]
Goto(c, a) == [c EXCEPT !.pc = a % NutSize]
return(c) == Goto(pop(c), Top(c))

ShortOffset(w) == ((w \div 8) % 64) - (IF w >= 512 THEN 64 ELSE 0)
op_short_branch(c, prev_carry, w) ==
  IF ((w \div 4) % 2 = 1) = prev_carry THEN Goto(c, c.pc + ShortOffset(w) - 1) ELSE c

(* stub: whether the word at the target is 0, then it returns at once *)
LongTarget(first, w) == (first \div 4) + ((w \div 4) % 256) * 256
op_long_branch_word_2(c, prev_carry, w, stub) ==
  LET target == LongTarget(c.first_word, w)
  IN  IF (w % 2 = 1) # prev_carry THEN c
      ELSE IF (w \div 2) % 2 = 1 THEN Goto(c, target)
      ELSE IF stub THEN c
      ELSE Goto(push(c, c.pc), target)

(* What the functions of op_fcn make of the processor.  any: the address   *)
(* in C, or the keycode                                                    *)
NutOperation(c, prev_carry, w, any) ==
  CASE NutOp(w) = "op_short_branch"       -> op_short_branch(c, prev_carry, w)
    [] NutOp(w) = "op_long_branch"        -> [c EXCEPT !.inst_state = "long_branch", !.first_word = w,
                                                       !.carry = prev_carry]
    [] NutOp(w) = "op_selpf"              -> [c EXCEPT !.inst_state = "selpf"]
    [] NutOp(w) = "op_ldi"                -> [c EXCEPT !.inst_state = "ldi"]
    [] NutOp(w) = "op_rom_to_c"           -> [c EXCEPT !.inst_state = "cxisa"]
    [] NutOp(w) \in {"op_pop", "op_pop_c"} -> pop(c)
    [] NutOp(w) = "op_push_c"             -> push(c, any)
    [] NutOp(w) = "op_powoff"             -> [c EXCEPT !.awake = FALSE, !.pc = 0]
    [] NutOp(w) = "op_goto_c"             -> Goto(c, any)
    [] NutOp(w) = "op_keys_to_rom_addr"   -> Goto(c, c.pc - (c.pc % NutPage) + (any % NutPage))
    [] NutOp(w) = "op_return"             -> return(c)
    [] NutOp(w) = "op_return_if_carry"    -> IF prev_carry THEN return(c) ELSE c
    [] NutOp(w) = "op_return_if_no_carry" -> IF prev_carry THEN c ELSE return(c)
    [] OTHER                              -> c

Inputs(c, w) ==
  IF c.inst_state = "normal" /\ NutOp(w) \in {"op_push_c", "op_goto_c", "op_keys_to_rom_addr"}
  THEN NutAddresses ELSE {0}

(* of "uncond", which only short branches have *)
Beginnings(w) == IF Kind(w) = 3 THEN Uninitialized ELSE {FALSE}

(* op_smart_periph: only ?pfsft leaves a carry *)
CarriesLeft(c, w) ==
  IF (c.inst_state = "normal" /\ MaySetCarry(w)) \/ (c.inst_state = "selpf" /\ RowOf(w) = 3)
  THEN BOOLEAN ELSE {FALSE}

(* nut_execute_cycle, with the carry that the instruction leaves *)
NutCycled(c, w, carry, any) ==
  LET first == [c EXCEPT !.carry = FALSE, !.pc = IF c.inst_state = "cxisa" THEN @ ELSE Next1(@)]
      normal == [first EXCEPT !.inst_state = "normal"]
  IN  CASE c.inst_state = "normal"      -> NutOperation([first EXCEPT !.carry = carry], c.carry, w, any)
        [] c.inst_state = "long_branch" -> op_long_branch_word_2(normal, c.carry, w, any = 1)
        [] c.inst_state = "selpf"       -> [(IF w % 2 = 1 THEN normal ELSE first) EXCEPT !.carry = carry]
        [] c.inst_state \in {"ldi", "cxisa"} -> normal

-----------------------------------------------------------------------------
(* The disassembler.  A long branch and an ldi are shown with their second *)
(* word, here when the walk has come to it.                                *)
FreshDis(known) == [inst_state |-> "normal", carry_known_clear |-> known, op1 |-> 0, pfsft |-> FALSE]

PastThirdWord == [FreshDis(FALSE) EXCEPT !.inst_state = "past"]

(* nut_arith_info, nut_op20 and nut_disassemble_misc: the instructions     *)
(* after which the carry is not known to be clear                          *)
can_set_carry_NoCompare(w) ==      \* mutant: "? a<b" and the others after it are left out
  \/ Kind(w) = 2 /\ (w \div 32) \in 9..24
  \/ w % 64 \in {\h0c, \h2c} \/ (w % 64 = \h14 /\ w # \h3d4) \/ w \in {\h120, \h160}

can_set_carry_of(w) ==
  \/ Kind(w) = 2 /\ (w \div 32) \in 9..27
  \/ w % 64 \in {\h0c, \h2c} \/ (w % 64 = \h14 /\ w # \h3d4) \/ w \in {\h120, \h160}

nut_two_word_instruction(w) == w = \h130 \/ Kind(w) = 1

(* The calls of routines of the HP-41's firmware that take a third word,   *)
(* and jump with it within the block they are in, or to one of the four    *)
(* blocks of their page.                                                   *)
InBlock == {\h0fd9, \h0fda, \h0fdd, \h0fde}
InPage == {\h23d0, \h23d2, \h23d9, \h23db, \h23e2, \h23e4, \h23eb, \h23ed}
nut_three_word_instruction(op1, w) ==
  Kind(op1) = 1 /\ (w \div 2) % 2 = 0 /\ LongTarget(op1, w) \in InBlock \cup InPage

(* The addresses that the text leaves open after the word w at a.  uncond: *)
(* what an uninitialized variable begins with                              *)
short_branch_shown(l, a, w, begins) ==
  LET cond_c == (w \div 4) % 2 = 1
      uncond == (~cond_c /\ l.carry_known_clear) \/ begins
  IN  {(Next1(a) + ShortOffset(w) - 1) % NutSize} \cup (IF uncond THEN {} ELSE {Next1(a)})

(* With three words, where the routine is to jump to; the text leaves out  *)
(* the condition of its call.  addr is already past them.                  *)
special_41_shown(op1, w, addr) ==
  LET t == LongTarget(op1, w)
      block == IF t \in InBlock THEN addr - (addr % JumpBlock)
               ELSE addr - (addr % (4 * JumpBlock)) + JumpBlock * ((t - \h23d0) \div 9)
  IN  {(block + op3) % NutSize : op3 \in 0..(JumpBlock - 1)}

(* a call may come back at once, to the next line *)
long_branch_shown(l, a, w, jumps41) ==
  LET uncond == w % 2 = 0 /\ l.carry_known_clear /\ (w \div 2) % 2 = 1
  IN  IF jumps41 /\ nut_three_word_instruction(l.op1, w) THEN special_41_shown(l.op1, w, Next1(Next1(a)))
      ELSE {LongTarget(l.op1, w) % NutSize} \cup (IF uncond THEN {} ELSE {Next1(a)})

(* goto c, goto keys, the returns; powoff, after which it is at 0 *)
misc_shown(a, w) ==
  IF w \in {\h1e0, \h230, \h360, \h3a0, \h3e0} THEN NutAddresses
  ELSE IF w = \h060 THEN {0} ELSE {Next1(a)}

NutShown(l, a, w, begins, jumps41) ==
  CASE l.inst_state = "second"  -> IF Kind(l.op1) = 1 THEN long_branch_shown(l, a, w, jumps41) ELSE {Next1(a)}
    [] l.inst_state = "selpf"   -> {Next1(a)}
    [] l.inst_state = "normal"  ->
         CASE Kind(w) = 3 -> short_branch_shown(l, a, w, begins)
           [] Kind(w) = 0 -> misc_shown(a, w)
           [] OTHER       -> {Next1(a)}

(* nut_disassemble, nut_disassemble_selpf: the state at the next word.  A  *)
(* processor that comes to the third word of a jump executes it, while the *)
(* listing is past it: up to the next jump they have nothing in common.    *)
DisWalk(l, w) ==
  CASE l.inst_state = "selpf" ->
         [FreshDis(TRUE) EXCEPT !.inst_state = IF w % 2 = 1 THEN "normal" ELSE "selpf", !.pfsft = RowOf(w) = 3]
    [] l.inst_state = "second" ->
         IF Jumps41 /\ nut_three_word_instruction(l.op1, w) THEN PastThirdWord ELSE FreshDis(TRUE)
    [] l.inst_state = "past" -> l
    [] l.inst_state = "normal" ->
         IF nut_two_word_instruction(w) THEN [l EXCEPT !.inst_state = "second", !.op1 = w]
         ELSE [FreshDis(~can_set_carry_of(w)) EXCEPT
                 !.inst_state = IF Kind(w) = 0 /\ RowOf(w) = \h24 THEN "selpf" ELSE "normal"]

(* nut_print_state with sim_disassemble_runtime *)
NutTraceState(c, l) ==
  [l EXCEPT !.carry_known_clear = ~c.carry,
            !.inst_state = IF c.inst_state \in {"long_branch", "ldi"} THEN "second" ELSE c.inst_state,
            !.op1 = IF c.inst_state = "long_branch" THEN c.first_word ELSE 0]

-----------------------------------------------------------------------------
NutFlowInit ==
  /\ nut = [pc |-> 0, stack |-> [i \in 1..STACK_DEPTH |-> 0], carry |-> TRUE, awake |-> TRUE,
            inst_state |-> "normal", first_word |-> 0]
  /\ dis = FreshDis(FALSE)
  /\ unshown = {}

(* Why a text does not show where the processor is after the word w at a:  *)
(* it went on, and the text names no condition for it to do so, as uncond  *)
(* was TRUE to begin with or the jump has three words; or it is in the     *)
(* firmware's routine, with the address of the third word on the stack.    *)
Why(c, l, a, w, begins, three_words) ==
  IF c.pc = Next1(a) /\ (three_words \/ (begins /\ l.inst_state = "normal" /\ Kind(w) = 3)) THEN "no condition"
  ELSE IF three_words /\ c.pc = LongTarget(l.op1, w) % NutSize /\ Top(c) = Next1(a) THEN "by a routine"
  ELSE "wrong"

NotShown(c, l, a, w, begins, jumps41) ==
  IF c.pc \in NutShown(l, a, w, begins, jumps41) THEN {}
  ELSE {Why(c, l, a, w, begins,
            jumps41 /\ l.inst_state = "second" /\ nut_three_word_instruction(l.op1, w))}

(* What the listing shows of a branch right after ?pfsft is not looked at: *)
(* the disassembler takes the carry for clear.  The trace is without flag. *)
Unshown(c, w, begins) ==
  IF nut.inst_state = "cxisa" THEN {}
  ELSE (IF dis.pfsft \/ dis.inst_state = "past" THEN {} ELSE NotShown(c, dis, nut.pc, w, begins, Jumps41))
       \cup NotShown(c, NutTraceState(nut, dis), nut.pc, w, begins, FALSE)

(* The walk that comes to a word that is jumped to is at an instruction,   *)
(* and may know the carry to be clear; no jump goes anywhere else.         *)
NutCycle ==
  \E w \in IF nut.inst_state = "normal" THEN NutWords ELSE NutSeconds :
    \E carry \in CarriesLeft(nut, w), any \in Inputs(nut, w) \cup {x \in {1} : nut.inst_state = "long_branch"},
       begins \in Beginnings(w) :
      LET c == NutCycled(nut, w, carry, any)
      IN  /\ nut.awake
          /\ nut' = c
          /\ unshown' = Unshown(c, w, begins)
          /\ dis' \in IF nut.inst_state = "cxisa" THEN {dis}
                      ELSE IF c.pc = Next1(nut.pc) /\ c.awake THEN {DisWalk(dis, w)}
                      ELSE {FreshDis(c.awake), FreshDis(FALSE)}

(* nut_reset, and what wakes the processor, with or without a carry *)
NutReset ==
  /\ nut.inst_state = "normal"
  /\ nut' = [nut EXCEPT !.pc = 0, !.carry = TRUE, !.awake = TRUE]
  /\ dis' = FreshDis(FALSE)
  /\ UNCHANGED unshown

NutWakes ==
  /\ ~nut.awake
  /\ nut' \in {[nut EXCEPT !.awake = TRUE, !.carry = carry] : carry \in BOOLEAN}
  /\ UNCHANGED <<dis, unshown>>

NutFlowNext == NutCycle \/ NutReset \/ NutWakes
NutFlowSpec == NutFlowInit /\ [][NutFlowNext]_nfvars
-----------------------------------------------------------------------------
(* Both the listing and the trace show the way that the processor takes: a *)
(* "goto" without a condition is always taken, a jump or call goes to the  *)
(* address in the text, the second words and the words for a peripheral    *)
(* are taken for what they are, and everything else goes on with the next  *)
(* line; but for the condition that an uninitialized variable or a jump of *)
(* three words leaves out, and the routine that such a jump goes by.       *)
(* (nut_disassemble against nut_execute_cycle)                             *)
NutTextShowsTheFlow == "wrong" \notin unshown
=============================================================================
