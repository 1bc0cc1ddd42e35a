----------------------------- MODULE Woodstock -----------------------------
(***************************************************************************)
(* The flow of control of the Woodstock processor ACT (proc_woodstock.c),  *)
(* next to what the disassembler says of it (dis_woodstock.c): in a        *)
(* listing, which walks through the ROM word by word, and in a trace,      *)
(* which is given the processor's state.  Registers and status bits are    *)
(* left out: what a test or a sum makes of the carry is any of the values  *)
(* that the operation allows.  The ROM is any that the listing finds       *)
(* nothing wrong with: a word is chosen when it is fetched.                *)
(***************************************************************************)
EXTENDS Naturals, Sequences, FiniteSets

CONSTANTS PAGE_WORDS,   \* 256 in the calculators; a word of a jump holds an offset
          ROM_PAGES,    \* 4: pages of the 1K ROM that a then-goto stays in
          PAGES,        \* 16
          STACK_SIZE,   \* 2
          Words,        \* of the firmware, as instructions
          Targets,      \* of the firmware, as second words
          Spice,        \* sim->platform == PLATFORM_SPICE
          None

ROM_WORDS == ROM_PAGES * PAGE_WORDS
SIZE == PAGES * PAGE_WORDS
Addresses == 0..(SIZE - 1)

ASSUME WoodstockAssumption ==
  /\ PAGE_WORDS \in Nat \ {0} /\ ROM_PAGES \in Nat \ {0}
  /\ PAGES \in Nat \ {0} /\ PAGES % (2 * ROM_PAGES) = 0
  /\ STACK_SIZE \in Nat \ {0}
  /\ Words \subseteq 0..1023 /\ Targets \subseteq 0..1023
  /\ Spice \in BOOLEAN /\ None \notin 0..SIZE

VARIABLES act,          \* the processor
          listing,      \* the disassembler, when its walk comes to the same word
          missed        \* history: which of "listing" and "trace" did not show where the processor went

wvars == <<act, listing, missed>>

NextLine(a) == (a + 1) % SIZE                                   \* & 07777
InPage(a, offset) == a - (a % PAGE_WORDS) + (offset % PAGE_WORDS) \* (a & ~0377) | offset
InRom(a, offset) == a - (a % ROM_WORDS) + (offset % ROM_WORDS)    \* (a & ~01777) | offset
SelectPage(p, a) == (p % PAGES) * PAGE_WORDS + (a % PAGE_WORDS)

-----------------------------------------------------------------------------
(* What the words are *)
Type(w) == w % 4                     \* misc, jsb, arith, goto
Op(w) == w \div 32                   \* of an arithmetic instruction
Arg(w) == w \div 64                  \* of the others

(* init_ops *)
OpFcn(w) ==
  CASE Type(w) = 1 -> "op_jsb"
    [] Type(w) = 2 -> "op_arith"
    [] Type(w) = 3 -> "op_goto"
    [] w % 64 \in {\o24, \o34, \o44, \o54} -> "op_test"
    [] w % 64 = \o40         -> "op_sel_rom"
    [] w % 64 = \o64         -> "op_del_sel_rom"
    [] w \in {\o20, \o220}   -> "op_to_rom_addr"    \* of the keys, or of A
    [] w = \o1020           -> "op_return"
    [] w = \o1060           -> "op_bank_switch"
    [] w = \o1460           -> "op_rom_selftest"
    [] OTHER                -> "no say in the flow"

(* The tests and op_arith: which wait for a then-goto, and whether there   *)
(* can be a carry.                                                         *)
ThenGoto(w) == OpFcn(w) = "op_test" \/ (OpFcn(w) = "op_arith" /\ Op(w) \in 22..27)

Carries(w) ==
  IF ThenGoto(w) \/ (OpFcn(w) = "op_arith" /\ (Op(w) \in 9..21 \ {14} \/ Op(w) = 28))
  THEN BOOLEAN ELSE {FALSE}

(* the offset in the page that the key or two digits of A give *)
Offsets(w) == IF OpFcn(w) = "op_to_rom_addr" THEN 0..(PAGE_WORDS - 1) ELSE {0}

-----------------------------------------------------------------------------
(* The processor *)
FreshAct ==
  [pc |-> 0, carry |-> FALSE, del_rom |-> None, bank |-> 0, inst_state |-> "normal",
   sp |-> 0, stack |-> [i \in 0..(STACK_SIZE - 1) |-> 0]]

op_jsb(c, w) ==
  [c EXCEPT !.stack[c.sp] = c.pc, !.sp = (c.sp + 1) % STACK_SIZE, !.pc = InPage(c.pc, w \div 4)]

op_return(c) ==
  LET sp == IF c.sp = 0 THEN STACK_SIZE - 1 ELSE c.sp - 1
  IN  [c EXCEPT !.sp = sp, !.pc = c.stack[sp]]

op_goto(c, prev_carry, w) ==
  IF prev_carry THEN c ELSE [c EXCEPT !.pc = InPage(c.pc, w \div 4)]

op_bank_switch(c) == [c EXCEPT !.bank = 1 - @]

(* The functions of op_fcn: the processor after the instruction w.         *)
Operation(c, prev_carry, w, offset) ==
  CASE OpFcn(w) = "op_jsb"          -> op_jsb(c, w)
    [] OpFcn(w) = "op_goto"         -> op_goto(c, prev_carry, w)
    [] ThenGoto(w)                  -> [c EXCEPT !.inst_state = "then_goto"]
    [] OpFcn(w) = "op_sel_rom"      -> [c EXCEPT !.pc = SelectPage(Arg(w), c.pc)]
    [] OpFcn(w) = "op_del_sel_rom"  -> [c EXCEPT !.del_rom = Arg(w) % PAGES]
    [] OpFcn(w) = "op_to_rom_addr"  -> [c EXCEPT !.pc = InPage(c.pc, offset)]
    [] OpFcn(w) = "op_return"       -> op_return(c)
    [] OpFcn(w) = "op_bank_switch"  -> op_bank_switch(c)
    [] OpFcn(w) = "op_rom_selftest" -> [c EXCEPT !.inst_state = "selftest", !.pc = c.pc - (c.pc % ROM_WORDS)]
    [] OTHER                        -> c

(* a word read by the self-test, the last of the ROM among them *)
Selftest(c, w) ==
  LET banked == IF OpFcn(w) = "op_bank_switch" THEN op_bank_switch(c) ELSE c
  IN  IF c.pc % ROM_WORDS = 0 THEN op_return([banked EXCEPT !.inst_state = "normal"]) ELSE banked

(* woodstock_execute_cycle.  first: what comes before the instruction, the *)
(* switch to bank 0 below 02000, and the carry and the delayed selection,  *)
(* which live for one cycle                                                *)
Cycled(c, w, carry, offset) ==
  LET first == [c EXCEPT !.bank = IF ~Spice /\ c.pc < ROM_WORDS THEN 0 ELSE @,
                         !.inst_state = IF @ = "then_goto" THEN "normal" ELSE @,
                         !.carry = FALSE, !.del_rom = None, !.pc = NextLine(@)]
      done == CASE c.inst_state = "normal"    -> [Operation(first, c.carry, w, offset) EXCEPT !.carry = carry]
                [] c.inst_state = "then_goto" -> IF c.carry THEN first ELSE [first EXCEPT !.pc = InRom(@, w)]
                [] c.inst_state = "selftest"  -> Selftest(first, w)
  IN  IF c.del_rom = None THEN done ELSE [done EXCEPT !.pc = SelectPage(c.del_rom, @)]

-----------------------------------------------------------------------------
(* The disassembler: woodstock_disassemble of the word w at a, in a state  *)
(* l.  target: None if the flow has none, or it is not filled in.          *)
FreshListing(carry_known_clear) ==
  [inst_state |-> "normal", carry_known_clear |-> carry_known_clear, delayed |-> None]

(* arith_info and misc_info, its tables *)
cond_branch == 22..27
can_set_carry == {9, 10, 11, 12, 13, 15, 16, 17, 18, 19, 20, 21, 28}
Row(w) == (w \div 4) % 16           \* of misc_info

two_word_inst_Rows(w) ==        \* mutant: "if p #" is left out
  \/ Type(w) = 2 /\ Op(w) \in cond_branch
  \/ Type(w) = 0 /\ Row(w) % 2 = 1 /\ Row(w) \in 5..9

two_word_inst(w) ==
  \/ Type(w) = 2 /\ Op(w) \in cond_branch
  \/ Type(w) = 0 /\ Row(w) % 2 = 1 /\ Row(w) \in 5..11

(* n: the line after the word *)
Flow(l, n, w) ==
  CASE l.inst_state = "then_goto"  -> [flow |-> "cond", target |-> InRom(n, w)]
    [] l.inst_state = "normal" /\ Type(w) = 1 -> [flow |-> "call", target |-> InPage(n, w \div 4)]
    [] l.inst_state = "normal" /\ Type(w) = 2 -> [flow |-> "none", target |-> None]
    [] l.inst_state = "normal" /\ Type(w) = 3 ->
         [flow |-> IF l.carry_known_clear THEN "uncond" ELSE "cond", target |-> InPage(n, w \div 4)]
    [] l.inst_state = "normal" /\ Type(w) = 0 ->
         CASE Row(w) = 8               -> [flow |-> "uncond", target |-> SelectPage(Arg(w), n)]
           [] Row(w) \in {5, 7, 9, 11} -> [flow |-> "cond", target |-> None]
           [] w \in {\o20, \o220}      -> [flow |-> "computed", target |-> None]
           [] w \in {\o1020, \o1460}   -> [flow |-> "return", target |-> None]
           [] w = \o1060              -> [flow |-> "bank_switch", target |-> None]
           [] OTHER                   -> [flow |-> "none", target |-> None]
    [] l.inst_state = "selftest"   -> [flow |-> "none", target |-> None]    \* never shown

(* A delayed selection changes the page of the target: the listing's mask  *)
(* is 017 << 8, the trace's 03400.                                         *)
Decode(l, mask, a, w) ==
  LET f == Flow(l, NextLine(a), w)
      old == f.target \div PAGE_WORDS
  IN  IF l.delayed = None \/ l.inst_state = "then_goto" \/ f.target = None THEN f
      ELSE [f EXCEPT !.target = SelectPage((old - (old % mask)) + (l.delayed % mask), @)]

(* the disassembler's state at the next line *)
Walk(l, w) ==
  IF l.inst_state = "then_goto" THEN FreshListing(TRUE)
  ELSE [inst_state |-> IF two_word_inst(w) THEN "then_goto" ELSE "normal",
        carry_known_clear |-> ~(Type(w) = 2 /\ Op(w) \in can_set_carry),
        delayed |-> IF Type(w) = 0 /\ Row(w) = 13 THEN Arg(w) % PAGES ELSE None]

(* sim_disassemble_runtime, as woodstock_print_state calls it              *)
TraceState(c) ==
  [inst_state |-> c.inst_state, carry_known_clear |-> ~c.carry, delayed |-> c.del_rom]

(* the addresses after the word at a that the text leaves open             *)
Shown(f, a) ==
  CASE f.flow = "cond"                      -> {f.target, NextLine(a)}
    [] f.flow \in {"uncond", "call"}        -> {f.target}
    [] f.flow \in {"none", "bank_switch"}   -> {NextLine(a)}
    [] f.flow \in {"computed", "return"}    -> Addresses

-----------------------------------------------------------------------------
WInit ==
  /\ act = FreshAct /\ missed = {}
  /\ \E known \in BOOLEAN : listing = FreshListing(known)

(* The firmware: what follows a delayed selection is a branch.  (The       *)
(* disassembler warns of the others.)                                      *)
WellFormed(w) ==
  act.del_rom # None /\ act.inst_state = "normal" =>
     OpFcn(w) \in {"op_jsb", "op_goto", "op_sel_rom", "op_to_rom_addr", "op_return"}

(* It is also not jumped to a second word or to the word after a delayed   *)
(* selection: on a jump the walk comes from a word of its own that at most *)
(* leaves a carry.                                                         *)
ListingAt(c, w) ==
  IF act.inst_state # "selftest" /\ c.pc = NextLine(act.pc) /\ c.inst_state # "selftest"
  THEN {Walk(listing, w)} ELSE {FreshListing(known) : known \in BOOLEAN}

SameHalf(a) == a % (SIZE \div 2)

Missed(c, w) ==
  LET l == Shown(Decode(listing, PAGES, act.pc, w), act.pc)
      t == Shown(Decode(TraceState(act), PAGES \div 2, act.pc, w), act.pc)
  IN  IF act.inst_state = "selftest" THEN {}
      ELSE {x \in {"listing"} : c.pc \notin l}
           \cup {x \in {"trace"} : SameHalf(c.pc) \notin {SameHalf(a) : a \in t \ {None}}}

Cycle ==
  \E w \in IF act.inst_state = "normal" THEN Words ELSE Words \cup Targets :
    /\ WellFormed(w)
    /\ \E carry \in Carries(w), offset \in Offsets(w) :
         LET c == Cycled(act, w, carry, offset)
         IN  /\ act' = c
             /\ listing' \in ListingAt(c, w)
             /\ missed' = missed \cup Missed(c, w)

(* woodstock_reset keeps the carry and the bank.  So the first "go to" of   *)
(* the firmware is not taken after an instruction that left a carry, and   *)
(* the listing of the first word is taken for one that knows of no carry.  *)
Reset ==
  /\ act.inst_state = "normal"
  /\ act' = [FreshAct EXCEPT !.carry = act.carry, !.bank = act.bank, !.stack = act.stack]
  /\ listing' = FreshListing(FALSE)
  /\ UNCHANGED missed

(* A state file, written when the processor was as it is now, is read into *)
(* one that has gone on, between two instructions.                         *)
RegDetail_NoDelRom == {"carry", "bank", "pc", "stack"}       \* mutant: woodstock_cpu_reg_detail without del_rom_flag
RegDetail == {"carry", "bank", "pc", "stack", "del_rom"}

Others ==
  {[FreshAct EXCEPT !.sp = sp, !.del_rom = del_rom, !.carry = TRUE] :
     sp \in 0..(STACK_SIZE - 1), del_rom \in {0, None}}

Restore(other) ==
  /\ act.inst_state = "normal"
  /\ act' = [f \in DOMAIN act |-> IF f \in RegDetail THEN act[f] ELSE other[f]]
  /\ UNCHANGED <<listing, missed>>

WNext == Cycle \/ Reset \/ \E other \in Others : Restore(other)
WSpec == WInit /\ [][WNext]_wvars
-----------------------------------------------------------------------------
WTypeOK ==
  /\ act.pc \in Addresses /\ act.stack \in [0..(STACK_SIZE - 1) -> Addresses]
  /\ act.sp \in 0..(STACK_SIZE - 1) /\ act.del_rom \in (0..(PAGES - 1)) \cup {None}
  /\ act.carry \in BOOLEAN /\ act.bank \in {0, 1}
  /\ act.inst_state \in {"normal", "then_goto", "selftest"}
  /\ listing.inst_state \in {"normal", "then_goto"}
  /\ listing.carry_known_clear \in BOOLEAN /\ listing.delayed \in (0..(PAGES - 1)) \cup {None}

(* A listing shows the way that the processor takes: a "go to" without a   *)
(* condition is always taken, a jump, call or selection goes to the        *)
(* address in the text, also after a delayed selection, the second words   *)
(* are taken for what they are, and everything else goes on with the next  *)
(* line (woodstock_disassemble against woodstock_execute_cycle).           *)
ListingShowsTheFlow == "listing" \notin missed

(* So does a trace, but for the half of the ROM after a delayed selection: *)
(* its mask, 03400 in woodstock_print_state, has three of the four bits.   *)
TraceShowsTheFlow == "trace" \notin missed

(* Both of them, the two readings of a word that the user gets.            *)
TextShowsTheFlow == WTypeOK /\ ListingShowsTheFlow /\ TraceShowsTheFlow

(* What the processor does next depends on these.                          *)
Returns(c) == [i \in 1..STACK_SIZE |-> c.stack[(c.sp + STACK_SIZE - i) % STACK_SIZE]]
Future(c) == <<c.pc, c.carry, c.del_rom, c.bank, c.inst_state>>

(* A state file that is read goes on where it was written, whatever the    *)
(* processor has done since, its subroutine returns too if the stack       *)
(* pointer, which the file does not hold, is what it was.                  *)
RestoreResumes ==
  [][\A other \in Others : Restore(other) =>
       /\ Future(act') = Future(act)
       /\ other.sp = act.sp => Returns(act') = Returns(act)]_wvars
=============================================================================
