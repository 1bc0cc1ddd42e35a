--------------------------- MODULE ProcessorProofs ---------------------------
(***************************************************************************)
(* The Woodstock's ACT and the Classic, for any firmware.                  *)
(*                                                                         *)
(* First the way that the Woodstock takes (Woodstock): the listing and the *)
(* trace show it for any size of the memory, with what its pages need of   *)
(* division and remainder, and a state file brings it back to where it     *)
(* was.                                                                    *)
(*                                                                         *)
(* Then the data of both (Classic, ActData), for registers of any length:  *)
(* a processor that reads the state file of another goes on as that one    *)
(* does, and the frame that a scan of the display completes shows the      *)
(* registers.                                                              *)
(***************************************************************************)
EXTENDS MCProcessors, IntegerLemmas, SequenceTheorems, TLAPS

AWord == 0..1023
-----------------------------------------------------------------------------
(* Addresses in blocks: pages, and the words of a page.                    *)
LEMMA BlockOf ==
  ASSUME NEW N \in Nat \ {0}, NEW B \in Nat \ {0}, NEW x \in 0..(N * B - 1)
  PROVE  x \div B \in 0..(N - 1)
<1> DEFINE q == x \div B
           m == x % B
<1>1. N * B \in Int
  OBVIOUS
<1>2. x \in Int /\ x >= 0 /\ x < N * B
  BY <1>1
<1>3. x = q * B + m /\ q \in Int /\ m \in 0..(B - 1)
  BY <1>2, DivMod
<1>4. q * B \in Int
  BY <1>3
<1> HIDE DEF q, m
<1>5. ~(q < 0)
  <2> SUFFICES ASSUME q < 0 PROVE FALSE
    OBVIOUS
  <2>1. q * B + B <= 0 * B
    BY <1>3, LessByBlocks
  <2> QED BY <1>2, <1>3, <1>4, <2>1
<1>6. ~(N - 1 < q)
  <2> SUFFICES ASSUME N - 1 < q PROVE FALSE
    OBVIOUS
  <2>1. (N - 1) * B + B <= q * B
    BY <1>3, LessByBlocks
  <2>2. (N - 1) * B + B = N * B
    OBVIOUS
  <2> QED BY <1>2, <1>3, <1>4, <2>1, <2>2
<1>7. q \in 0..(N - 1)
  BY <1>3, <1>5, <1>6
<1> QED BY <1>7 DEF q

(* a block of H blocks *)
LEMMA ModBlocks ==
  ASSUME NEW k \in Int, NEW H \in Nat \ {0}, NEW B \in Nat \ {0}, NEW r \in 0..(B - 1)
  PROVE  (k * B + r) % (H * B) = (k % H) * B + r
<1> DEFINE u == k \div H
           v == k % H
           C == H * B
<1>1. k = u * H + v /\ u \in Int /\ v \in 0..(H - 1)
  BY DivMod
<1>2. C \in Nat \ {0}
  OBVIOUS
<1>3. v * B + r \in 0..(C - 1)
  BY <1>1, InBlocks
<1> HIDE DEF u, v
<1>4. k * B = u * C + v * B
  BY <1>1
<1>5. k * B + r = u * C + (v * B + r)
  BY <1>1, <1>2, <1>4
<1> HIDE DEF C
<1>6. (u * C + (v * B + r)) % C = v * B + r
  BY <1>1, <1>2, <1>3, DivModUnique
<1> QED BY <1>5, <1>6 DEF C, v
-----------------------------------------------------------------------------
(* Pages of the ROM *)
Half == PAGES \div 2

LEMMA Sizes ==
  /\ SIZE \in Nat \ {0} /\ ROM_WORDS \in Nat \ {0}
  /\ PAGES = 2 * Half /\ Half \in Nat \ {0} /\ SIZE \div 2 = Half * PAGE_WORDS /\ Half * PAGE_WORDS \in Nat \ {0}
<1>1. SIZE \in Nat \ {0} /\ ROM_WORDS \in Nat \ {0}
  BY WoodstockAssumption DEF SIZE, ROM_WORDS
<1> DEFINE u == PAGES \div (2 * ROM_PAGES)
<1>2. PAGES = u * (2 * ROM_PAGES) + 0 /\ u \in Int
  <2>1. 2 * ROM_PAGES \in Nat \ {0} /\ PAGES \in Int /\ PAGES % (2 * ROM_PAGES) = 0
    BY WoodstockAssumption
  <2> QED BY <2>1, DivMod
<1> HIDE DEF u
<1>3. PAGES = (u * ROM_PAGES) * 2 + 0 /\ u * ROM_PAGES \in Int
  BY <1>2, WoodstockAssumption
<1>4. PAGES \div 2 = u * ROM_PAGES
  BY <1>3, DivModUnique
<1>5. PAGES = 2 * Half /\ Half \in Int
  BY <1>3, <1>4 DEF Half
<1>6. Half \in Nat \ {0}
  BY <1>5, WoodstockAssumption
<1>7. SIZE = (Half * PAGE_WORDS) * 2 + 0 /\ Half * PAGE_WORDS \in Nat \ {0}
  BY <1>5, <1>6, WoodstockAssumption DEF SIZE
<1>8. SIZE \div 2 = Half * PAGE_WORDS
  BY <1>7, DivModUnique
<1> QED BY <1>1, <1>5, <1>6, <1>7, <1>8

LEMMA NextLineIn == ASSUME NEW a \in Addresses PROVE NextLine(a) \in Addresses
BY Sizes DEF Addresses, NextLine

LEMMA InPageIn == ASSUME NEW a \in Addresses, NEW x \in Int PROVE InPage(a, x) \in Addresses
<1> DEFINE p == a \div PAGE_WORDS
           m == a % PAGE_WORDS
           r == x % PAGE_WORDS
<1>1. PAGE_WORDS \in Nat \ {0} /\ PAGES \in Nat \ {0} /\ a \in Int /\ a \in 0..(PAGES * PAGE_WORDS - 1)
  BY WoodstockAssumption DEF Addresses, SIZE
<1>2. a = p * PAGE_WORDS + m /\ m \in Int /\ p * PAGE_WORDS \in Int
  BY <1>1, DivMod
<1>3. p \in 0..(PAGES - 1)
  BY <1>1, BlockOf
<1>4. r \in 0..(PAGE_WORDS - 1)
  BY <1>1, DivMod
<1> HIDE DEF p, m, r
<1>5. p * PAGE_WORDS + r \in Addresses
  BY <1>1, <1>3, <1>4, InBlocks DEF Addresses, SIZE
<1>6. InPage(a, x) = p * PAGE_WORDS + r
  <2>1. InPage(a, x) = a - m + r
    BY DEF InPage, m, r
  <2> QED BY <1>1, <1>2, <1>4, <2>1
<1> QED BY <1>5, <1>6

LEMMA InRomIn ==
  ASSUME NEW a \in Addresses, NEW x \in Int
  PROVE  InRom(a, x) \in Addresses /\ a - (a % ROM_WORDS) \in Addresses
<1> DEFINE u == PAGES \div (2 * ROM_PAGES)
           N == 2 * u
<1>1. PAGES = u * (2 * ROM_PAGES) + 0 /\ u \in Int
  <2>1. 2 * ROM_PAGES \in Nat \ {0} /\ PAGES \in Int /\ PAGES % (2 * ROM_PAGES) = 0
    BY WoodstockAssumption
  <2> QED BY <2>1, DivMod
<1>2. u > 0
  BY <1>1, WoodstockAssumption
<1> HIDE DEF u
<1>3. SIZE = N * ROM_WORDS /\ N \in Nat \ {0}
  BY <1>1, <1>2, WoodstockAssumption DEF SIZE, ROM_WORDS
<1> HIDE DEF N
<1> DEFINE p == a \div ROM_WORDS
           m == a % ROM_WORDS
           r == x % ROM_WORDS
<1>a. ROM_WORDS \in Nat \ {0} /\ a \in Int
  BY Sizes DEF Addresses
<1>4. a \in 0..(N * ROM_WORDS - 1)
  BY <1>3 DEF Addresses
<1>5. a = p * ROM_WORDS + m /\ m \in Int /\ p * ROM_WORDS \in Int
  <2>1. a = p * ROM_WORDS + m /\ m \in 0..(ROM_WORDS - 1) /\ p \in Int
    BY <1>a, DivMod
  <2> HIDE DEF p, m
  <2> QED BY <1>a, <2>1
<1>6. p \in 0..(N - 1)
  BY <1>3, <1>4, <1>a, BlockOf
<1>7. r \in 0..(ROM_WORDS - 1) /\ 0 \in 0..(ROM_WORDS - 1)
  BY <1>a, DivMod
<1> HIDE DEF p, m, r
<1>8. p * ROM_WORDS + r \in Addresses /\ p * ROM_WORDS + 0 \in Addresses
  BY <1>3, <1>a, <1>6, <1>7, InBlocks DEF Addresses
<1>9. InRom(a, x) = p * ROM_WORDS + r /\ a - (a % ROM_WORDS) = p * ROM_WORDS + 0
  <2>1. InRom(a, x) = a - m + r /\ a - (a % ROM_WORDS) = a - m
    BY DEF InRom, m, r
  <2> QED BY <1>a, <1>5, <1>7, <2>1
<1> QED BY <1>8, <1>9

LEMMA SelectPageIn == ASSUME NEW p \in Int, NEW a \in Int PROVE SelectPage(p, a) \in Addresses
<1>1. PAGE_WORDS \in Nat \ {0} /\ PAGES \in Nat \ {0}
  BY WoodstockAssumption
<1>2. p % PAGES \in 0..(PAGES - 1) /\ a % PAGE_WORDS \in 0..(PAGE_WORDS - 1)
  BY <1>1, DivMod
<1> QED BY <1>1, <1>2, InBlocks DEF SelectPage, Addresses, SIZE

(* The target after a delayed selection, with the masks of the listing and *)
(* of the trace.                                                           *)
WithDelayed(mask, d, t) ==
  LET old == t \div PAGE_WORDS
  IN  SelectPage((old - (old % mask)) + (d % mask), t)

LEMMA DelayedTarget ==
  ASSUME NEW d \in 0..(PAGES - 1), NEW t \in Addresses
  PROVE  /\ WithDelayed(PAGES, d, t) = SelectPage(d, t)
         /\ SameHalf(WithDelayed(Half, d, t)) = SameHalf(SelectPage(d, t))
<1> DEFINE old == t \div PAGE_WORDS
           r == t % PAGE_WORDS
<1>1. /\ PAGE_WORDS \in Nat \ {0} /\ PAGES \in Nat \ {0} /\ Half \in Nat \ {0} /\ PAGES = 2 * Half
      /\ t \in Int /\ t \in 0..(PAGES * PAGE_WORDS - 1)
  BY WoodstockAssumption, Sizes DEF Addresses, SIZE
<1>2. old \in 0..(PAGES - 1) /\ r \in 0..(PAGE_WORDS - 1)
  BY <1>1, BlockOf, DivMod
<1> HIDE DEF old, r
<1>3. old % PAGES = old /\ d % PAGES = d
  BY <1>1, <1>2
<1>4. WithDelayed(PAGES, d, t) = SelectPage((old - (old % PAGES)) + (d % PAGES), t)
  BY DEF WithDelayed, old
<1>5. WithDelayed(PAGES, d, t) = SelectPage(d, t)
  BY <1>2, <1>3, <1>4
<1> DEFINE h == old \div Half
           o == old % Half
           e == d % Half
           q == h * Half + e
<1>6. /\ h \in Int /\ o \in 0..(Half - 1) /\ old = h * Half + o
      /\ e \in 0..(Half - 1)
  BY <1>1, <1>2, DivMod
<1>7. h \in 0..1
  <2>1. old \in 0..(2 * Half - 1) /\ 2 \in Nat \ {0}
    BY <1>1, <1>2
  <2>2. h \in 0..(2 - 1)
    BY <1>1, <2>1, BlockOf
  <2> QED BY <2>2
<1> HIDE DEF h, e
<1>8. q \in 0..(PAGES - 1) /\ q % Half = e
  <2>1. q % Half = e
    BY <1>1, <1>6, DivModUnique
  <2>2. q \in 0..(2 * Half - 1)
    BY <1>1, <1>6, <1>7, InBlocks
  <2> QED BY <1>1, <2>1, <2>2
<1>9. (old - (old % Half)) + (d % Half) = q
  <2>1. h * Half \in Int
    BY <1>1, <1>6
  <2> HIDE DEF o
  <2>2. old - o = h * Half
    BY <1>6, <2>1
  <2> QED BY <2>2 DEF o, e
<1>10. WithDelayed(Half, d, t) = SelectPage(q, t)
  BY <1>9 DEF WithDelayed, old
<1> HIDE DEF q, o
<1>11. ASSUME NEW k \in 0..(PAGES - 1)
       PROVE  SameHalf(SelectPage(k, t)) = (k % Half) * PAGE_WORDS + r
  <2>1. k % PAGES = k
    BY <1>1, <1>11
  <2>2. SelectPage(k, t) = k * PAGE_WORDS + r
    BY <2>1 DEF SelectPage, r
  <2>3. (k * PAGE_WORDS + r) % (Half * PAGE_WORDS) = (k % Half) * PAGE_WORDS + r
    <3>1. k \in Int
      BY <1>1, <1>11
    <3> QED BY <1>1, <1>2, <3>1, ModBlocks, ZenonT(30)
  <2> QED BY <2>2, <2>3, Sizes DEF SameHalf
<1>12. d % Half = e
  BY DEF e
<1> QED BY <1>5, <1>8, <1>10, <1>11, <1>12
-----------------------------------------------------------------------------
(* The processor's registers, and the disassembler's state *)
DelRoms == (0..(PAGES - 1)) \cup {None}
StackIndex == 0..(STACK_SIZE - 1)
Acts ==
  [pc : Addresses, carry : BOOLEAN, del_rom : DelRoms, bank : {0, 1},
   inst_state : {"normal", "then_goto", "selftest"}, sp : StackIndex, stack : [StackIndex -> Addresses]]
Listings == [inst_state : {"normal", "then_goto"}, carry_known_clear : BOOLEAN, delayed : DelRoms]

(* The listing takes a word for what the processor takes it for, knows the *)
(* same delayed selection, and where it knows the carry to be clear it is. *)
SameLine(c, l) ==
  /\ c.inst_state # "selftest" => l.inst_state = c.inst_state /\ l.delayed = c.del_rom
  /\ c.inst_state = "normal" /\ l.carry_known_clear = TRUE => c.carry = FALSE

(* A delayed selection waits for an instruction, and without a carry; the  *)
(* self-test has none.                                                     *)
Waiting(c) ==
  /\ c.del_rom # None => c.inst_state = "normal" /\ c.carry = FALSE
  /\ c.inst_state = "selftest" => c.carry = FALSE

AgreeW(c, l) == c \in Acts /\ l \in Listings /\ SameLine(c, l) /\ Waiting(c)
WInv == AgreeW(act, listing) /\ missed = {}

Act(pc, carry, del_rom, bank, inst_state, sp, stack) ==
  [pc |-> pc, carry |-> carry, del_rom |-> del_rom, bank |-> bank,
   inst_state |-> inst_state, sp |-> sp, stack |-> stack]

LEMMA ActHas ==
  ASSUME NEW pc \in Addresses, NEW carry \in BOOLEAN, NEW del_rom \in DelRoms, NEW bank \in {0, 1},
         NEW inst_state \in {"normal", "then_goto", "selftest"}, NEW sp \in StackIndex,
         NEW stack \in [StackIndex -> Addresses]
  PROVE  LET c == Act(pc, carry, del_rom, bank, inst_state, sp, stack)
         IN  /\ c \in Acts /\ c.pc = pc /\ c.carry = carry /\ c.del_rom = del_rom
             /\ c.inst_state = inst_state /\ c.bank = bank /\ c.sp = sp /\ c.stack = stack
BY DEF Act, Acts

LEMMA WordFacts ==
  ASSUME NEW w \in AWord
  PROVE  /\ Type(w) \in Int /\ Arg(w) \in Int /\ w \div 4 \in Int
         /\ OpFcn(w) = "op_jsb" <=> Type(w) = 1
         /\ OpFcn(w) = "op_goto" <=> Type(w) = 3
         /\ ThenGoto(w) <=> two_word_inst(w)
         /\ OpFcn(w) = "op_del_sel_rom" <=> (Type(w) = 0 /\ Row(w) = 13)
         /\ ThenGoto(w) => OpFcn(w) \in {"op_test", "op_arith"} /\ ~(Type(w) = 2 /\ Op(w) \in can_set_carry)
         /\ OpFcn(w) # "op_arith" => ~(Type(w) = 2 /\ Op(w) \in can_set_carry)
<1>1. Type(w) \in Int /\ Arg(w) \in Int /\ w \div 4 \in Int
  BY DEF AWord, Type, Arg
<1>2. OpFcn(w) = "op_jsb" <=> Type(w) = 1
  BY DEF OpFcn, AWord, Type
<1>3. OpFcn(w) = "op_goto" <=> Type(w) = 3
  BY DEF OpFcn, AWord, Type
<1>4. OpFcn(w) = "op_test" <=> (Type(w) = 0 /\ Row(w) \in {5, 7, 9, 11})
  BY SMTT(30) DEF AWord, Type, OpFcn, Row
<1>5. OpFcn(w) = "op_arith" <=> Type(w) = 2
  BY DEF OpFcn, AWord, Type
<1>6. OpFcn(w) = "op_del_sel_rom" <=> (Type(w) = 0 /\ Row(w) = 13)
  BY DEF AWord, Type, OpFcn, Row
<1>7. Row(w) \in 0..15 /\ Op(w) \in 0..31
  BY DEF AWord, Row, Op
<1>8. ThenGoto(w) <=> two_word_inst(w)
  BY <1>4, <1>5, <1>7 DEF ThenGoto, two_word_inst, cond_branch
<1>9. ThenGoto(w) => OpFcn(w) \in {"op_test", "op_arith"} /\ ~(Type(w) = 2 /\ Op(w) \in can_set_carry)
  BY <1>4, <1>5, <1>7 DEF ThenGoto, can_set_carry
<1> QED BY <1>1, <1>2, <1>3, <1>5, <1>6, <1>8, <1>9

LEMMA CarryFacts ==
  ASSUME NEW w \in AWord, NEW carry \in Carries(w)
  PROVE  /\ carry \in BOOLEAN
         /\ carry = TRUE => ThenGoto(w) \/ (OpFcn(w) = "op_arith" /\ Type(w) = 2 /\ Op(w) \in can_set_carry)
<1>1. OpFcn(w) = "op_arith" => Type(w) = 2
  BY DEF AWord, Type, OpFcn
<1>2. Op(w) \in 0..31
  BY DEF AWord, Op
<1>3. Op(w) \in (9..21 \ {14}) \/ Op(w) = 28 => Op(w) \in can_set_carry
  BY <1>2 DEF can_set_carry
<1> QED BY <1>1, <1>3 DEF Carries
-----------------------------------------------------------------------------
(* An instruction, without the delayed selection that comes after it: n is *)
(* the next line, k the carry before it, e the processor after it.         *)
NoSay(w) == OpFcn(w) \in {"op_bank_switch", "no say in the flow"} \/ (OpFcn(w) = "op_arith" /\ ~ThenGoto(w))

Instruction(n, k, w, e) ==
  /\ e.del_rom = IF OpFcn(w) = "op_del_sel_rom" THEN Arg(w) % PAGES ELSE None
  /\ e.inst_state = IF ThenGoto(w) THEN "then_goto" ELSE IF OpFcn(w) = "op_rom_selftest" THEN "selftest" ELSE "normal"
  /\ OpFcn(w) = "op_jsb" => e.pc = InPage(n, w \div 4)
  /\ OpFcn(w) = "op_goto" => e.pc = IF k THEN n ELSE InPage(n, w \div 4)
  /\ OpFcn(w) = "op_sel_rom" => e.pc = SelectPage(Arg(w), n)
  /\ NoSay(w) \/ ThenGoto(w) \/ OpFcn(w) = "op_del_sel_rom" => e.pc = n

(* Operations, on a processor with any registers *)
SetCarry(c, carry) == [c EXCEPT !.carry = carry]

LEMMA SetCarryIs ==
  ASSUME NEW p, NEW a, NEW d, NEW b, NEW i, NEW s, NEW t, NEW carry
  PROVE  SetCarry(Act(p, a, d, b, i, s, t), carry) = Act(p, carry, d, b, i, s, t)
BY DEF Act, SetCarry

SetStack(t, s, p) == [t EXCEPT ![s] = p]

LEMMA JsbIs ==
  ASSUME NEW p, NEW a, NEW d, NEW b, NEW i, NEW s, NEW t, NEW k, NEW w, NEW offset,
         OpFcn(w) = "op_jsb"
  PROVE  Operation(Act(p, a, d, b, i, s, t), k, w, offset) = Act(InPage(p, w \div 4), a, d, b, i, (s + 1) % STACK_SIZE, SetStack(t, s, p))
<1> DEFINE f == Act(p, a, d, b, i, s, t)
           o == Operation(f, k, w, offset)
           x == [t EXCEPT ![s] = p]
           y == (s + 1) % STACK_SIZE
           z == InPage(p, w \div 4)
           g == [f EXCEPT !.stack = x]
           h == [g EXCEPT !.sp = y]
<1>1. f.stack = t /\ f.sp = s /\ f.pc = p
  BY DEF Act
<1>2. o = op_jsb(f, w)
  BY DEF Operation, ThenGoto
<1>3. op_jsb(f, w) = [[[f EXCEPT !.stack = [f.stack EXCEPT ![f.sp] = f.pc]]
                          EXCEPT !.sp = (f.sp + 1) % STACK_SIZE] EXCEPT !.pc = InPage(f.pc, w \div 4)]
  <2> HIDE DEF f
  <2> QED BY DEF op_jsb
<1>4. op_jsb(f, w) = [h EXCEPT !.pc = z]
  BY <1>1, <1>3
<1> HIDE DEF x, y, z
<1>5. g = Act(p, a, d, b, i, s, x)
  BY DEF Act
<1> HIDE DEF g
<1>6. h = Act(p, a, d, b, i, y, x)
  BY <1>5 DEF Act
<1> HIDE DEF h
<1>7. [h EXCEPT !.pc = z] = Act(z, a, d, b, i, y, x)
  BY <1>6 DEF Act
<1> QED BY <1>2, <1>4, <1>7 DEF x, y, z, SetStack

LEMMA GotoIs ==
  ASSUME NEW p, NEW a, NEW d, NEW b, NEW i, NEW s, NEW t, NEW k, NEW w, NEW offset,
         OpFcn(w) = "op_goto"
  PROVE  Operation(Act(p, a, d, b, i, s, t), k, w, offset) = IF k THEN Act(p, a, d, b, i, s, t) ELSE Act(InPage(p, w \div 4), a, d, b, i, s, t)
<1> DEFINE f == Act(p, a, d, b, i, s, t)
           o == Operation(f, k, w, offset)
           z == InPage(p, w \div 4)
<1>1. o = op_goto(f, k, w) /\ f.pc = p
  BY DEF Operation, ThenGoto, Act
<1>2. op_goto(f, k, w) = IF k THEN f ELSE [f EXCEPT !.pc = z]
  BY <1>1 DEF op_goto
<1> HIDE DEF z
<1>3. [f EXCEPT !.pc = z] = Act(z, a, d, b, i, s, t)
  BY DEF Act
<1> QED BY <1>1, <1>2, <1>3 DEF z

LEMMA ThenGotoIs ==
  ASSUME NEW p, NEW a, NEW d, NEW b, NEW i, NEW s, NEW t, NEW k, NEW w, NEW offset,
         ThenGoto(w)
  PROVE  Operation(Act(p, a, d, b, i, s, t), k, w, offset) = Act(p, a, d, b, "then_goto", s, t)
BY DEF Operation, ThenGoto, Act

LEMMA SelRomIs ==
  ASSUME NEW p, NEW a, NEW d, NEW b, NEW i, NEW s, NEW t, NEW k, NEW w, NEW offset,
         OpFcn(w) = "op_sel_rom"
  PROVE  Operation(Act(p, a, d, b, i, s, t), k, w, offset) = Act(SelectPage(Arg(w), p), a, d, b, i, s, t)
BY DEF Operation, ThenGoto, Act

LEMMA DelSelRomIs ==
  ASSUME NEW p, NEW a, NEW d, NEW b, NEW i, NEW s, NEW t, NEW k, NEW w, NEW offset,
         OpFcn(w) = "op_del_sel_rom"
  PROVE  Operation(Act(p, a, d, b, i, s, t), k, w, offset) = Act(p, a, Arg(w) % PAGES, b, i, s, t)
BY DEF Operation, ThenGoto, Act

LEMMA ToRomAddrIs ==
  ASSUME NEW p, NEW a, NEW d, NEW b, NEW i, NEW s, NEW t, NEW k, NEW w, NEW offset,
         OpFcn(w) = "op_to_rom_addr"
  PROVE  Operation(Act(p, a, d, b, i, s, t), k, w, offset) = Act(InPage(p, offset), a, d, b, i, s, t)
BY DEF Operation, ThenGoto, Act

LEMMA ReturnIs ==
  ASSUME NEW p, NEW a, NEW d, NEW b, NEW i, NEW s, NEW t, NEW k, NEW w, NEW offset,
         OpFcn(w) = "op_return"
  PROVE  Operation(Act(p, a, d, b, i, s, t), k, w, offset) = LET y == IF s = 0 THEN STACK_SIZE - 1 ELSE s - 1 IN Act(t[y], a, d, b, i, y, t)
BY DEF Operation, op_return, ThenGoto, Act

LEMMA BankSwitchIs ==
  ASSUME NEW p, NEW a, NEW d, NEW b, NEW i, NEW s, NEW t, NEW k, NEW w, NEW offset,
         OpFcn(w) = "op_bank_switch"
  PROVE  Operation(Act(p, a, d, b, i, s, t), k, w, offset) = Act(p, a, d, 1 - b, i, s, t)
BY DEF Operation, op_bank_switch, ThenGoto, Act

LEMMA SelftestIs ==
  ASSUME NEW p, NEW a, NEW d, NEW b, NEW i, NEW s, NEW t, NEW k, NEW w, NEW offset,
         OpFcn(w) = "op_rom_selftest"
  PROVE  Operation(Act(p, a, d, b, i, s, t), k, w, offset) = Act(p - (p % ROM_WORDS), a, d, b, "selftest", s, t)
BY DEF Operation, ThenGoto, Act

LEMMA NothingIs ==
  ASSUME NEW p, NEW a, NEW d, NEW b, NEW i, NEW s, NEW t, NEW k, NEW w, NEW offset,
         NoSay(w), OpFcn(w) # "op_bank_switch"
  PROVE  Operation(Act(p, a, d, b, i, s, t), k, w, offset) = Act(p, a, d, b, i, s, t)
BY DEF Operation, NoSay, ThenGoto, Act

LEMMA OperationOut ==
  ASSUME NEW n \in Addresses, NEW k, NEW w \in AWord, NEW carry \in BOOLEAN, NEW offset \in Int,
         NEW a, NEW b \in {0, 1}, NEW s \in StackIndex, NEW t \in [StackIndex -> Addresses]
  PROVE  LET e == SetCarry(Operation(Act(n, a, None, b, "normal", s, t), k, w, offset), carry)
         IN  e \in Acts /\ e.carry = carry /\ Instruction(n, k, w, e)
<1> DEFINE f == Act(n, a, None, b, "normal", s, t)
           e == SetCarry(Operation(f, k, w, offset), carry)
<1>1. n \in Int /\ w \div 4 \in Int /\ Arg(w) \in Int
  BY WordFacts DEF Addresses
<1>2. None \in DelRoms /\ "normal" \in {"normal", "then_goto", "selftest"}
  BY DEF DelRoms
<1>3. CASE OpFcn(w) = "op_jsb"
  <2> DEFINE x == SetStack(t, s, n)
             y == (s + 1) % STACK_SIZE
             z == InPage(n, w \div 4)
  <2>1. x \in [StackIndex -> Addresses] /\ y \in StackIndex
    BY WoodstockAssumption DEF StackIndex, SetStack
  <2>2. z \in Addresses
    BY <1>1, InPageIn
  <2>3. e = Act(z, carry, None, b, "normal", y, x)
    <3>1. Operation(f, k, w, offset) = Act(z, a, None, b, "normal", y, x)
      BY <1>3, JsbIs
    <3> QED BY <3>1, SetCarryIs
  <2> HIDE DEF e, x, y, z
  <2>4. e \in Acts /\ e.carry = carry /\ e.pc = z /\ e.del_rom = None /\ e.inst_state = "normal"
    BY <1>2, <2>1, <2>2, <2>3, ActHas
  <2> QED BY <1>3, <2>4 DEF Instruction, ThenGoto, NoSay, e, z
<1>4. CASE OpFcn(w) = "op_goto"
  <2> DEFINE z == IF k THEN n ELSE InPage(n, w \div 4)
  <2>1. z \in Addresses
    BY <1>1, InPageIn
  <2>2. e = Act(z, carry, None, b, "normal", s, t)
    <3>1. Operation(f, k, w, offset) = Act(z, a, None, b, "normal", s, t)
      BY <1>4, GotoIs
    <3> QED BY <3>1, SetCarryIs
  <2> HIDE DEF e, z
  <2>3. e \in Acts /\ e.carry = carry /\ e.pc = z /\ e.del_rom = None /\ e.inst_state = "normal"
    BY <1>2, <2>1, <2>2, ActHas
  <2> QED BY <1>4, <2>3 DEF Instruction, ThenGoto, NoSay, e, z
<1>5. CASE ThenGoto(w)
  <2>1. OpFcn(w) \in {"op_test", "op_arith"}
    BY <1>5 DEF ThenGoto
  <2>2. e = Act(n, carry, None, b, "then_goto", s, t)
    <3>1. Operation(f, k, w, offset) = Act(n, a, None, b, "then_goto", s, t)
      BY <1>5, ThenGotoIs
    <3> QED BY <3>1, SetCarryIs
  <2> HIDE DEF e
  <2>3. e \in Acts /\ e.carry = carry /\ e.pc = n /\ e.del_rom = None /\ e.inst_state = "then_goto"
    BY <1>2, <2>2, ActHas
  <2> QED BY <1>5, <2>1, <2>3 DEF Instruction, NoSay, e
<1>6. CASE OpFcn(w) = "op_sel_rom"
  <2> DEFINE z == SelectPage(Arg(w), n)
  <2>1. z \in Addresses
    BY <1>1, SelectPageIn
  <2>2. e = Act(z, carry, None, b, "normal", s, t)
    <3>1. Operation(f, k, w, offset) = Act(z, a, None, b, "normal", s, t)
      BY <1>6, SelRomIs
    <3> QED BY <3>1, SetCarryIs
  <2> HIDE DEF e, z
  <2>3. e \in Acts /\ e.carry = carry /\ e.pc = z /\ e.del_rom = None /\ e.inst_state = "normal"
    BY <1>2, <2>1, <2>2, ActHas
  <2> QED BY <1>6, <2>3 DEF Instruction, ThenGoto, NoSay, e, z
<1>7. CASE OpFcn(w) = "op_del_sel_rom"
  <2> DEFINE z == Arg(w) % PAGES
  <2>1. z \in DelRoms
    BY <1>1, WoodstockAssumption DEF DelRoms
  <2>2. e = Act(n, carry, z, b, "normal", s, t)
    <3>1. Operation(f, k, w, offset) = Act(n, a, z, b, "normal", s, t)
      BY <1>7, DelSelRomIs
    <3> QED BY <3>1, SetCarryIs
  <2> HIDE DEF e, z
  <2>3. e \in Acts /\ e.carry = carry /\ e.pc = n /\ e.del_rom = z /\ e.inst_state = "normal"
    BY <1>2, <2>1, <2>2, ActHas
  <2> QED BY <1>7, <2>3 DEF Instruction, ThenGoto, NoSay, e, z
<1>8. CASE OpFcn(w) = "op_to_rom_addr"
  <2> DEFINE z == InPage(n, offset)
  <2>1. z \in Addresses
    BY InPageIn
  <2>2. e = Act(z, carry, None, b, "normal", s, t)
    <3>1. Operation(f, k, w, offset) = Act(z, a, None, b, "normal", s, t)
      BY <1>8, ToRomAddrIs
    <3> QED BY <3>1, SetCarryIs
  <2> HIDE DEF e, z
  <2>3. e \in Acts /\ e.carry = carry /\ e.del_rom = None /\ e.inst_state = "normal"
    BY <1>2, <2>1, <2>2, ActHas
  <2> QED BY <1>8, <2>3 DEF Instruction, ThenGoto, NoSay, e
<1>9. CASE OpFcn(w) = "op_return"
  <2> DEFINE y == IF s = 0 THEN STACK_SIZE - 1 ELSE s - 1
  <2>1. y \in StackIndex
    BY WoodstockAssumption DEF StackIndex
  <2>2. e = Act(t[y], carry, None, b, "normal", y, t)
    <3>1. Operation(f, k, w, offset) = Act(t[y], a, None, b, "normal", y, t)
      BY <1>9, ReturnIs
    <3> QED BY <3>1, SetCarryIs
  <2> HIDE DEF e, y
  <2>3. t[y] \in Addresses
    BY <2>1
  <2>4. e \in Acts /\ e.carry = carry /\ e.del_rom = None /\ e.inst_state = "normal"
    BY <1>2, <2>1, <2>2, <2>3, ActHas
  <2> QED BY <1>9, <2>4 DEF Instruction, ThenGoto, NoSay, e
<1>10. CASE OpFcn(w) = "op_rom_selftest"
  <2> DEFINE z == n - (n % ROM_WORDS)
  <2>1. z \in Addresses
    BY InRomIn, <1>1
  <2>2. e = Act(z, carry, None, b, "selftest", s, t)
    <3>1. Operation(f, k, w, offset) = Act(z, a, None, b, "selftest", s, t)
      BY <1>10, SelftestIs
    <3> QED BY <3>1, SetCarryIs
  <2> HIDE DEF e, z
  <2>3. e \in Acts /\ e.carry = carry /\ e.del_rom = None /\ e.inst_state = "selftest"
    BY <1>2, <2>1, <2>2, ActHas
  <2> QED BY <1>10, <2>3 DEF Instruction, ThenGoto, NoSay, e
<1>11. CASE NoSay(w)
  <2> DEFINE y == IF OpFcn(w) = "op_bank_switch" THEN 1 - b ELSE b
  <2>1. y \in {0, 1}
    OBVIOUS
  <2>2. /\ OpFcn(w) \in {"op_bank_switch", "no say in the flow", "op_arith"} /\ ~ThenGoto(w)
        /\ OpFcn(w) # "op_del_sel_rom" /\ OpFcn(w) # "op_rom_selftest"
    BY <1>11 DEF NoSay, ThenGoto
  <2>3. e = Act(n, carry, None, y, "normal", s, t)
    <3>1. Operation(f, k, w, offset) = Act(n, a, None, y, "normal", s, t)
      <4>1. CASE OpFcn(w) = "op_bank_switch"
        BY <4>1, BankSwitchIs
      <4>2. CASE OpFcn(w) # "op_bank_switch"
        <5>1. Operation(f, k, w, offset) = Act(n, a, None, b, "normal", s, t)
          BY <1>11, <4>2, NothingIs
        <5> QED BY <4>2, <5>1
      <4> QED BY <4>1, <4>2
    <3> QED BY <3>1, SetCarryIs
  <2> HIDE DEF e, y
  <2>4. e \in Acts /\ e.carry = carry /\ e.pc = n /\ e.del_rom = None /\ e.inst_state = "normal"
    BY <1>2, <2>1, <2>3, ActHas
  <2> QED BY <2>2, <2>4 DEF Instruction, e
<1>12. OpFcn(w) \in {"op_jsb", "op_arith", "op_goto", "op_test", "op_sel_rom", "op_del_sel_rom", "op_to_rom_addr",
                     "op_return", "op_bank_switch", "op_rom_selftest", "no say in the flow"}
  BY DEF OpFcn
<1>13. OpFcn(w) = "op_test" => ThenGoto(w)
  BY DEF ThenGoto
<1> QED BY <1>3, <1>4, <1>5, <1>6, <1>7, <1>8, <1>9, <1>10, <1>11, <1>12, <1>13 DEF NoSay
-----------------------------------------------------------------------------
(* A cycle: what comes before the instruction, and the delayed selection   *)
SetFirst(c, b, i, a, d, p) == [c EXCEPT !.bank = b, !.inst_state = i, !.carry = a, !.del_rom = d, !.pc = p]

LEMMA SetFirstIs ==
  ASSUME NEW p, NEW a, NEW d, NEW b, NEW i, NEW s, NEW t, NEW b2, NEW i2, NEW a2, NEW d2, NEW p2
  PROVE  SetFirst(Act(p, a, d, b, i, s, t), b2, i2, a2, d2, p2) = Act(p2, a2, d2, b2, i2, s, t)
<1> DEFINE c1 == [Act(p, a, d, b, i, s, t) EXCEPT !.bank = b2]
           c2 == [c1 EXCEPT !.inst_state = i2]
           c3 == [c2 EXCEPT !.carry = a2]
           c4 == [c3 EXCEPT !.del_rom = d2]
           c5 == [c4 EXCEPT !.pc = p2]
<1>1. SetFirst(Act(p, a, d, b, i, s, t), b2, i2, a2, d2, p2) = c5
  BY DEF SetFirst
<1>2. c1 = Act(p, a, d, b2, i, s, t)
  BY DEF Act
<1> HIDE DEF c1
<1>3. c2 = Act(p, a, d, b2, i2, s, t)
  BY <1>2 DEF Act
<1> HIDE DEF c2
<1>4. c3 = Act(p, a2, d, b2, i2, s, t)
  BY <1>3 DEF Act
<1> HIDE DEF c3
<1>5. c4 = Act(p, a2, d2, b2, i2, s, t)
  BY <1>4 DEF Act
<1> HIDE DEF c4
<1>6. c5 = Act(p2, a2, d2, b2, i2, s, t)
  BY <1>5 DEF Act
<1> QED BY <1>1, <1>6

LEMMA IsAct ==
  ASSUME NEW c \in Acts
  PROVE  /\ c = Act(c.pc, c.carry, c.del_rom, c.bank, c.inst_state, c.sp, c.stack)
         /\ c.pc \in Addresses /\ c.carry \in BOOLEAN /\ c.del_rom \in DelRoms /\ c.bank \in {0, 1}
         /\ c.inst_state \in {"normal", "then_goto", "selftest"} /\ c.sp \in StackIndex
         /\ c.stack \in [StackIndex -> Addresses]
BY DEF Acts, Act

Bank(c) == IF ~Spice /\ c.pc < ROM_WORDS THEN 0 ELSE c.bank
First(c) == SetFirst(c, Bank(c), IF c.inst_state = "then_goto" THEN "normal" ELSE c.inst_state, FALSE, None, NextLine(c.pc))
SetPage(c, d) == [c EXCEPT !.pc = SelectPage(d, @)]

LEMMA FirstIs ==
  ASSUME NEW c \in Acts
  PROVE  /\ Bank(c) \in {0, 1}
         /\ First(c) = Act(NextLine(c.pc), FALSE, None, Bank(c),
                           IF c.inst_state = "then_goto" THEN "normal" ELSE c.inst_state, c.sp, c.stack)
<1> DEFINE i == IF c.inst_state = "then_goto" THEN "normal" ELSE c.inst_state
           a == FALSE
<1>1. Bank(c) \in {0, 1}
  BY IsAct DEF Bank
<1>2. First(c) = SetFirst(Act(c.pc, c.carry, c.del_rom, c.bank, c.inst_state, c.sp, c.stack), Bank(c), i, a, None, NextLine(c.pc))
  BY IsAct, Zenon DEF First
<1> HIDE DEF i, a
<1>3. First(c) = Act(NextLine(c.pc), a, None, Bank(c), i, c.sp, c.stack)
  BY <1>2, SetFirstIs
<1> QED BY <1>1, <1>3 DEF i, a

Done(c, w, carry, offset) ==
  CASE c.inst_state = "normal"    -> SetCarry(Operation(First(c), c.carry, w, offset), carry)
    [] c.inst_state = "then_goto" -> IF c.carry THEN First(c) ELSE [First(c) EXCEPT !.pc = InRom(@, w)]
    [] c.inst_state = "selftest"  -> Selftest(First(c), w)

LEMMA CycledIs ==
  ASSUME NEW c, NEW w, NEW carry, NEW offset
  PROVE  Cycled(c, w, carry, offset) = IF c.del_rom = None THEN Done(c, w, carry, offset)
                                       ELSE SetPage(Done(c, w, carry, offset), c.del_rom)
BY Zenon DEF Cycled, Done, SetCarry, SetPage, First, SetFirst, Bank

LEMMA NormalOut ==
  ASSUME NEW c \in Acts, c.inst_state = "normal", NEW w \in AWord, NEW carry \in BOOLEAN, NEW offset \in Int
  PROVE  LET e == Done(c, w, carry, offset)
         IN  e \in Acts /\ e.carry = carry /\ Instruction(NextLine(c.pc), c.carry, w, e)
<1> DEFINE e == Done(c, w, carry, offset)
           b == Bank(c)
           a == FALSE
<1>1. /\ NextLine(c.pc) \in Addresses /\ c.sp \in StackIndex /\ c.stack \in [StackIndex -> Addresses] /\ b \in {0, 1}
  BY IsAct, FirstIs, NextLineIn
<1>2. First(c) = Act(NextLine(c.pc), a, None, b, "normal", c.sp, c.stack)
  BY FirstIs
<1>3. e = SetCarry(Operation(First(c), c.carry, w, offset), carry)
  BY DEF Done
<1> HIDE DEF a, b, e
<1> DEFINE n == NextLine(c.pc)
           k == c.carry
           s == c.sp
           t == c.stack
<1>4. e = SetCarry(Operation(Act(n, a, None, b, "normal", s, t), k, w, offset), carry)
  BY <1>2, <1>3
<1> HIDE DEF n, k, s, t
<1>5. n \in Addresses /\ s \in StackIndex /\ t \in [StackIndex -> Addresses]
  BY <1>1 DEF n, s, t
<1>6. e \in Acts /\ e.carry = carry /\ Instruction(n, k, w, e)
  <2> DEFINE g == SetCarry(Operation(Act(n, a, None, b, "normal", s, t), k, w, offset), carry)
  <2>1. g \in Acts /\ g.carry = carry /\ Instruction(n, k, w, g)
    <3>1. n \in Addresses /\ w \in AWord /\ carry \in BOOLEAN /\ offset \in Int /\ b \in {0, 1}
      BY <1>1, <1>5
    <3> QED BY <1>5, <3>1, OperationOut, SMT
  <2> HIDE DEF g
  <2>2. e = g
    BY <1>4 DEF g
  <2> QED BY <2>1, <2>2
<1> QED BY <1>6 DEF e, n, k

LEMMA ThenGotoOut ==
  ASSUME NEW c \in Acts, c.inst_state = "then_goto", NEW w \in AWord, NEW carry, NEW offset
  PROVE  LET e == Done(c, w, carry, offset)
         IN  /\ e \in Acts /\ e.carry = FALSE /\ e.del_rom = None /\ e.inst_state = "normal"
             /\ e.pc = IF c.carry THEN NextLine(c.pc) ELSE InRom(NextLine(c.pc), w)
<1> DEFINE e == Done(c, w, carry, offset)
           n == NextLine(c.pc)
           z == IF c.carry THEN n ELSE InRom(n, w)
           f == First(c)
           a == FALSE
<1>1. n \in Addresses
  BY IsAct, NextLineIn
<1>2. w \in Int
  BY DEF AWord
<1>3. z \in Addresses
  BY <1>1, <1>2, InRomIn
<1>4. f = Act(n, a, None, Bank(c), "normal", c.sp, c.stack)
  BY FirstIs
<1>5. e = IF c.carry THEN f ELSE [f EXCEPT !.pc = InRom(@, w)]
  BY DEF Done
<1> HIDE DEF e, f, a
<1>6. f.pc = n
  BY <1>4 DEF Act
<1>7. e = IF c.carry THEN f ELSE [f EXCEPT !.pc = z]
  BY <1>5, <1>6
<1>8. ASSUME NEW p PROVE [f EXCEPT !.pc = p] = Act(p, a, None, Bank(c), "normal", c.sp, c.stack)
  BY <1>4 DEF Act
<1>9. e = Act(z, a, None, Bank(c), "normal", c.sp, c.stack)
  BY <1>4, <1>7, <1>8
<1> HIDE DEF z
<1>10. None \in DelRoms /\ a \in BOOLEAN /\ a = FALSE
  BY DEF DelRoms, a
<1>11. Bank(c) \in {0, 1} /\ c.sp \in StackIndex /\ c.stack \in [StackIndex -> Addresses]
  BY IsAct, FirstIs
<1>12. e \in Acts /\ e.pc = z /\ e.carry = a /\ e.del_rom = None /\ e.inst_state = "normal"
  BY <1>3, <1>9, <1>10, <1>11, ActHas
<1> QED BY <1>10, <1>12 DEF e, z
LEMMA OpReturnIs ==
  ASSUME NEW p, NEW a, NEW d, NEW b, NEW i, NEW s, NEW t
  PROVE  op_return(Act(p, a, d, b, i, s, t)) =
           LET y == IF s = 0 THEN STACK_SIZE - 1 ELSE s - 1 IN Act(t[y], a, d, b, i, y, t)
<1> DEFINE c == Act(p, a, d, b, i, s, t)
           y == IF s = 0 THEN STACK_SIZE - 1 ELSE s - 1
           z == t[y]
           f == [c EXCEPT !.sp = y]
<1>1. c.sp = s /\ c.stack = t
  BY DEF Act
<1>2. op_return(c) = [f EXCEPT !.pc = z]
  BY <1>1 DEF op_return
<1> HIDE DEF y, z
<1>3. f = Act(p, a, d, b, i, y, t)
  BY DEF Act
<1> HIDE DEF f
<1>4. [f EXCEPT !.pc = z] = Act(z, a, d, b, i, y, t)
  BY <1>3 DEF Act
<1> QED BY <1>2, <1>4 DEF y, z

LEMMA SelftestOut ==
  ASSUME NEW c \in Acts, c.inst_state = "selftest", NEW w, NEW carry, NEW offset
  PROVE  LET e == Done(c, w, carry, offset)
         IN  e \in Acts /\ e.carry = FALSE /\ e.del_rom = None /\ e.inst_state \in {"normal", "selftest"}
<1> DEFINE e == Done(c, w, carry, offset)
           n == NextLine(c.pc)
           b == IF OpFcn(w) = "op_bank_switch" THEN 1 - Bank(c) ELSE Bank(c)
           s == c.sp
           t == c.stack
           y == IF s = 0 THEN STACK_SIZE - 1 ELSE s - 1
           f == First(c)
           a == FALSE
           g == IF OpFcn(w) = "op_bank_switch" THEN op_bank_switch(f) ELSE f
           h == [g EXCEPT !.inst_state = "normal"]
<1>1. n \in Addresses /\ s \in StackIndex /\ t \in [StackIndex -> Addresses] /\ b \in {0, 1}
  <2>1. n \in Addresses /\ s \in StackIndex /\ t \in [StackIndex -> Addresses]
    BY IsAct, NextLineIn
  <2>2. Bank(c) \in {0, 1}
    BY FirstIs
  <2>3. b \in {0, 1}
    BY <2>2
  <2> QED BY <2>1, <2>3
<1>2. f = Act(n, a, None, Bank(c), "selftest", s, t)
  BY FirstIs
<1>3. e = IF f.pc % ROM_WORDS = 0 THEN op_return(h) ELSE g
  BY DEF Done, Selftest
<1> HIDE DEF e, n, s, t, f, a
<1>4. g = Act(n, a, None, b, "selftest", s, t)
  <2>1. CASE OpFcn(w) = "op_bank_switch"
    BY <1>2, <2>1 DEF op_bank_switch, Act
  <2>2. CASE OpFcn(w) # "op_bank_switch"
    BY <1>2, <2>2
  <2> QED BY <2>1, <2>2
<1> HIDE DEF g, b
<1>5. h = Act(n, a, None, b, "normal", s, t)
  BY <1>4 DEF Act
<1> HIDE DEF h
<1>6. op_return(h) = Act(t[y], a, None, b, "normal", y, t)
  BY <1>5, OpReturnIs
<1>7. y \in StackIndex
  BY <1>1, WoodstockAssumption DEF StackIndex
<1> HIDE DEF y
<1>8. t[y] \in Addresses /\ None \in DelRoms /\ a \in BOOLEAN /\ a = FALSE
  BY <1>1, <1>7 DEF DelRoms, a
<1>9. LET r == op_return(h) IN r \in Acts /\ r.carry = a /\ r.del_rom = None /\ r.inst_state = "normal"
  BY <1>1, <1>6, <1>7, <1>8, ActHas
<1>10. g \in Acts /\ g.carry = a /\ g.del_rom = None /\ g.inst_state = "selftest"
  BY <1>1, <1>4, <1>8, ActHas
<1> QED BY <1>3, <1>8, <1>9, <1>10 DEF e

-----------------------------------------------------------------------------
(* What the disassembler makes of a word *)
Says(flow, target) == [flow |-> flow, target |-> target]

FlowFacts(f, known, n, w) ==
  /\ OpFcn(w) = "op_jsb" => f = Says("call", InPage(n, w \div 4))
  /\ OpFcn(w) = "op_goto" => f = Says(IF known = TRUE THEN "uncond" ELSE "cond", InPage(n, w \div 4))
  /\ ThenGoto(w) => f \in {Says("none", None), Says("cond", None)}
  /\ OpFcn(w) = "op_sel_rom" => f = Says("uncond", SelectPage(Arg(w), n))
  /\ OpFcn(w) = "op_del_sel_rom" \/ NoSay(w) => f \in {Says("none", None), Says("bank_switch", None)}
  /\ OpFcn(w) \in {"op_to_rom_addr", "op_return", "op_rom_selftest"} =>
       f \in {Says("computed", None), Says("return", None)}

LEMMA MiscWords ==
  ASSUME NEW w \in AWord, Type(w) = 0
  PROVE  /\ OpFcn(w) = "op_sel_rom" <=> Row(w) = 8
         /\ OpFcn(w) = "op_test" <=> Row(w) \in {5, 7, 9, 11}
         /\ OpFcn(w) = "op_del_sel_rom" <=> Row(w) = 13
         /\ OpFcn(w) = "op_to_rom_addr" <=> w \in {\o20, \o220}
         /\ OpFcn(w) = "op_return" <=> w = \o1020
         /\ OpFcn(w) = "op_rom_selftest" <=> w = \o1460
         /\ OpFcn(w) = "op_bank_switch" <=> w = \o1060
         /\ w \in {\o20, \o220, \o1020, \o1460, \o1060} => Row(w) \in {4, 12}
         /\ Row(w) \in 0..15
BY DEF AWord, Type, Row, OpFcn

LEMMA FlowIs ==
  ASSUME NEW l, l.inst_state = "normal", l.carry_known_clear \in BOOLEAN, NEW n, NEW w \in AWord
  PROVE  FlowFacts(Flow(l, n, w), l.carry_known_clear, n, w)
<1> DEFINE f == Flow(l, n, w)
<1>1. CASE Type(w) = 1
  <2>1. f = Says("call", InPage(n, w \div 4))
    BY <1>1 DEF Flow, Says
  <2>2. OpFcn(w) = "op_jsb"
    BY <1>1, WordFacts
  <2> QED BY <2>1, <2>2 DEF FlowFacts, ThenGoto, NoSay
<1>2. CASE Type(w) = 2
  <2>1. f = Says("none", None)
    BY <1>2 DEF Flow, Says
  <2>2. OpFcn(w) = "op_arith"
    BY <1>2, SMTT(30) DEF OpFcn, AWord, Type
  <2> QED BY <2>1, <2>2 DEF FlowFacts
<1>3. CASE Type(w) = 3
  <2>1. f = Says(IF l.carry_known_clear = TRUE THEN "uncond" ELSE "cond", InPage(n, w \div 4))
    BY <1>3 DEF Flow, Says
  <2>2. OpFcn(w) = "op_goto"
    BY <1>3, WordFacts
  <2> QED BY <2>1, <2>2 DEF FlowFacts, ThenGoto, NoSay
<1>4. CASE Type(w) = 0
  <2> DEFINE g == CASE Row(w) = 8               -> [flow |-> "uncond", target |-> SelectPage(Arg(w), n)]
           [] Row(w) \in {5, 7, 9, 11} -> [flow |-> "cond", target |-> None]
           [] w \in {\o20, \o220}      -> [flow |-> "computed", target |-> None]
           [] w \in {\o1020, \o1460}   -> [flow |-> "return", target |-> None]
           [] w = \o1060              -> [flow |-> "bank_switch", target |-> None]
           [] OTHER                   -> [flow |-> "none", target |-> None]
  <2>1. f = g
    BY <1>4 DEF Flow
  <2> HIDE DEF f
  <2>2. OpFcn(w) \notin {"op_jsb", "op_goto", "op_arith"}
    BY <1>4 DEF OpFcn, AWord, Type
  <2>3. Row(w) \in Int /\ w \in Int
    BY DEF AWord, Row
  <2>4. OpFcn(w) = "op_sel_rom" => g = Says("uncond", SelectPage(Arg(w), n))
    BY <1>4, MiscWords DEF Says
  <2>5. OpFcn(w) = "op_test" => g = Says("cond", None)
    BY <1>4, MiscWords, <2>3 DEF Says
  <2>6. OpFcn(w) \in {"op_del_sel_rom", "op_bank_switch", "no say in the flow"} =>
          g \in {Says("none", None), Says("bank_switch", None)}
    <3> DEFINE o == OpFcn(w)
               bank == w = \o1060
               keys == w \in {\o20, \o220}
               leave == w \in {\o1020, \o1460}
    <3>1. o = "op_sel_rom" <=> Row(w) = 8
      BY <1>4, MiscWords
    <3>2. o = "op_test" <=> Row(w) \in {5, 7, 9, 11}
      BY <1>4, MiscWords
    <3>3. o = "op_to_rom_addr" <=> keys
      BY <1>4, MiscWords
    <3>4. o \in {"op_return", "op_rom_selftest"} <=> leave
      BY <1>4, MiscWords
    <3>5. g = IF Row(w) = 8 THEN Says("uncond", SelectPage(Arg(w), n))
              ELSE IF Row(w) \in {5, 7, 9, 11} THEN Says("cond", None)
              ELSE IF keys THEN Says("computed", None)
              ELSE IF leave THEN Says("return", None)
              ELSE IF bank THEN Says("bank_switch", None) ELSE Says("none", None)
      <4>1. w \in {\o20, \o220, \o1020, \o1460, \o1060} => Row(w) \in {4, 12}
        BY DEF AWord, Row
      <4> QED BY <2>3, <4>1 DEF Says
    <3> HIDE DEF g, o, bank, keys, leave
    <3>6. ASSUME o \in {"op_del_sel_rom", "op_bank_switch", "no say in the flow"}
          PROVE  g \in {Says("none", None), Says("bank_switch", None)}
      BY <3>1, <3>2, <3>3, <3>4, <3>5, <3>6
    <3> QED BY <3>6 DEF o
  <2>7. OpFcn(w) = "op_to_rom_addr" => g = Says("computed", None)
    BY <1>4, MiscWords, <2>3 DEF Says
  <2>8. OpFcn(w) \in {"op_return", "op_rom_selftest"} => g = Says("return", None)
    BY <1>4, MiscWords, <2>3 DEF Says
  <2> HIDE DEF g
  <2> QED BY <2>1, <2>2, <2>4, <2>5, <2>6, <2>7, <2>8 DEF f, FlowFacts, ThenGoto, NoSay
<1>5. Type(w) \in 0..3
  BY DEF Type, AWord
<1> QED BY <1>1, <1>2, <1>3, <1>4, <1>5, WordFacts
LEMMA AnAddressIsNotNone == ASSUME NEW a \in Addresses PROVE a # None
<1>1. a \in 0..SIZE
  BY Sizes DEF Addresses
<1> QED BY <1>1, WoodstockAssumption

LEMMA SaysFields ==
  ASSUME NEW x, NEW t
  PROVE  Says(x, t).flow = x /\ Says(x, t).target = t
BY DEF Says

LEMMA DecodeIs ==
  ASSUME NEW l, l.inst_state = "normal", NEW mask, NEW a, NEW w, NEW x, NEW t, Flow(l, NextLine(a), w) = Says(x, t)
  PROVE  Decode(l, mask, a, w) = IF l.delayed = None \/ t = None THEN Says(x, t)
                                 ELSE Says(x, WithDelayed(mask, l.delayed, t))
<1> DEFINE f == Says(x, t)
           u == WithDelayed(mask, l.delayed, t)
<1>1. f.target = t
  BY SaysFields
<1>2. Decode(l, mask, a, w) = IF l.delayed = None \/ t = None THEN f ELSE [f EXCEPT !.target = u]
  BY <1>1 DEF Decode, WithDelayed
<1> HIDE DEF u
<1>3. [f EXCEPT !.target = u] = Says(x, u)
  BY DEF Says
<1> QED BY <1>2, <1>3 DEF u

LEMMA ShownIs ==
  ASSUME NEW t, NEW a
  PROVE  /\ Shown(Says("cond", t), a) = {t, NextLine(a)}
         /\ Shown(Says("uncond", t), a) = {t} /\ Shown(Says("call", t), a) = {t}
         /\ Shown(Says("none", t), a) = {NextLine(a)} /\ Shown(Says("bank_switch", t), a) = {NextLine(a)}
         /\ Shown(Says("computed", t), a) = Addresses /\ Shown(Says("return", t), a) = Addresses
BY SaysFields DEF Shown

(* The words that may come after a delayed selection                       *)
Follows(w) == OpFcn(w) \in {"op_jsb", "op_goto", "op_sel_rom", "op_to_rom_addr", "op_return"}

(* The text leaves open where the processor goes: x is where the           *)
(* instruction leads, before a delayed selection.                          *)
Leaves(l, mask, a, w, x) ==
  LET open == Shown(Decode(l, mask, a, w), a)
  IN  IF l.delayed = None THEN x \in open
      ELSE WithDelayed(mask, l.delayed, x) \in open \/ open = Addresses

LEMMA ShownOfInstruction ==
  ASSUME NEW l, l.inst_state = "normal", l.carry_known_clear \in BOOLEAN, NEW mask, NEW a \in Addresses,
         NEW w \in AWord, NEW k \in BOOLEAN, l.carry_known_clear = TRUE => k = FALSE,
         l.delayed # None => k = FALSE /\ Follows(w),
         NEW e \in Acts, Instruction(NextLine(a), k, w, e)
  PROVE  Leaves(l, mask, a, w, e.pc)
<1> DEFINE n == NextLine(a)
           d == Decode(l, mask, a, w)
           x == e.pc
           known == l.carry_known_clear
<1>1. n \in Addresses /\ x \in Addresses /\ w \div 4 \in Int /\ Arg(w) \in Int /\ n \in Int
  <2>1. n \in Addresses
    BY NextLineIn
  <2>2. x \in Addresses
    BY IsAct
  <2> QED BY <2>1, <2>2, WordFacts DEF Addresses
<1>2. FlowFacts(Flow(l, n, w), known, n, w)
  BY FlowIs
<1>3. \A y, t : Flow(l, n, w) = Says(y, t) =>
        d = IF l.delayed = None \/ t = None THEN Says(y, t) ELSE Says(y, WithDelayed(mask, l.delayed, t))
  BY DecodeIs
<1> SUFFICES Leaves(l, mask, a, w, x)
  OBVIOUS
<1> HIDE DEF d, n, x, known
<1>4. /\ l.delayed = None /\ x \in Shown(d, a) => Leaves(l, mask, a, w, x)
      /\ l.delayed # None /\ WithDelayed(mask, l.delayed, x) \in Shown(d, a) => Leaves(l, mask, a, w, x)
      /\ Shown(d, a) = Addresses => Leaves(l, mask, a, w, x)
  BY <1>1 DEF Leaves, d
<1>5. CASE OpFcn(w) = "op_jsb"
  <2>1. Flow(l, n, w) = Says("call", x)
    BY <1>2, <1>5 DEF FlowFacts, Instruction, n, x
  <2>2. x # None
    BY <1>1, AnAddressIsNotNone
  <2>3. d = IF l.delayed = None THEN Says("call", x) ELSE Says("call", WithDelayed(mask, l.delayed, x))
    BY <1>3, <2>1, <2>2
  <2>4. CASE l.delayed = None
    BY <1>4, <2>3, <2>4, ShownIs
  <2>5. CASE l.delayed # None
    BY <1>4, <2>3, <2>5, ShownIs
  <2> QED BY <2>4, <2>5
<1>6. CASE OpFcn(w) = "op_sel_rom"
  <2>1. Flow(l, n, w) = Says("uncond", x)
    BY <1>2, <1>6 DEF FlowFacts, Instruction, n, x
  <2>2. x # None
    BY <1>1, AnAddressIsNotNone
  <2>3. d = IF l.delayed = None THEN Says("uncond", x) ELSE Says("uncond", WithDelayed(mask, l.delayed, x))
    BY <1>3, <2>1, <2>2
  <2>4. CASE l.delayed = None
    BY <1>4, <2>3, <2>4, ShownIs
  <2>5. CASE l.delayed # None
    BY <1>4, <2>3, <2>5, ShownIs
  <2> QED BY <2>4, <2>5
<1>7. CASE OpFcn(w) = "op_goto"
  <2> DEFINE t == InPage(n, w \div 4)
             y == IF known = TRUE THEN "uncond" ELSE "cond"
  <2>1. Flow(l, n, w) = Says(y, t)
    BY <1>2, <1>7 DEF FlowFacts
  <2>2. x = IF k THEN n ELSE t
    BY <1>7 DEF Instruction, n, x
  <2>3. t \in Addresses
    BY <1>1, InPageIn
  <2>4. t # None
    BY <2>3, AnAddressIsNotNone
  <2>5. NextLine(a) = n
    BY DEF n
  <2>6. (known = TRUE => k = FALSE) /\ (l.delayed # None => k = FALSE)
    BY DEF known
  <2> HIDE DEF t
  <2>7. CASE known = TRUE
    <3>1. Flow(l, n, w) = Says("uncond", t) /\ x = t
      BY <2>1, <2>2, <2>6, <2>7
    <3> QED BY <1>3, <1>4, <2>4, <3>1, ShownIs
  <2>8. CASE known # TRUE
    <3>1. Flow(l, n, w) = Says("cond", t)
      BY <2>1, <2>8
    <3>2. CASE l.delayed = None
      <4>1. d = Says("cond", t)
        BY <1>3, <3>1, <3>2
      <4>2. Shown(d, a) = {t, n}
        BY <2>5, <4>1, ShownIs
      <4>3. x \in {t, n}
        BY <2>2
      <4> QED BY <1>4, <3>2, <4>2, <4>3
    <3>3. CASE l.delayed # None
      <4>1. d = Says("cond", WithDelayed(mask, l.delayed, t)) /\ x = t
        BY <1>3, <2>2, <2>4, <2>6, <3>1, <3>3
      <4> QED BY <1>4, <3>3, <4>1, ShownIs
    <3> QED BY <3>2, <3>3
  <2> QED BY <2>7, <2>8
<1>8. CASE ThenGoto(w) \/ NoSay(w) \/ OpFcn(w) = "op_del_sel_rom"
  <2>1. x = n /\ NextLine(a) = n
    BY <1>8 DEF Instruction, n, x
  <2>2. Flow(l, n, w) \in {Says("none", None), Says("cond", None), Says("bank_switch", None)}
    BY <1>2, <1>8 DEF FlowFacts
  <2>3. l.delayed = None
    BY <1>8 DEF Follows, NoSay, ThenGoto
  <2>4. d \in {Says("none", None), Says("cond", None), Says("bank_switch", None)}
    BY <1>3, <2>2
  <2>5. n \in Shown(d, a)
    BY <2>1, <2>4, ShownIs
  <2> QED BY <1>4, <2>1, <2>3, <2>5
<1>9. CASE OpFcn(w) \in {"op_to_rom_addr", "op_return", "op_rom_selftest"}
  <2>1. Flow(l, n, w) \in {Says("computed", None), Says("return", None)}
    BY <1>2, <1>9 DEF FlowFacts
  <2>2. d \in {Says("computed", None), Says("return", None)}
    BY <1>3, <2>1
  <2>3. Shown(d, a) = Addresses
    BY <2>2, ShownIs
  <2> QED BY <1>1, <1>4, <2>3
<1>10. OpFcn(w) \in {"op_jsb", "op_arith", "op_goto", "op_test", "op_sel_rom", "op_del_sel_rom", "op_to_rom_addr",
                     "op_return", "op_bank_switch", "op_rom_selftest", "no say in the flow"}
  BY DEF OpFcn
<1>11. (OpFcn(w) = "op_test" => ThenGoto(w)) /\ (OpFcn(w) = "op_arith" => ThenGoto(w) \/ NoSay(w))
       /\ (OpFcn(w) \in {"op_bank_switch", "no say in the flow"} => NoSay(w))
  BY DEF ThenGoto, NoSay
<1> QED BY <1>5, <1>6, <1>7, <1>8, <1>9, <1>10, <1>11
-----------------------------------------------------------------------------
(* The listing's state at the next line *)
LEMMA FreshListingIs ==
  ASSUME NEW known \in BOOLEAN
  PROVE  LET m == FreshListing(known)
         IN  m \in Listings /\ m.inst_state = "normal" /\ m.carry_known_clear = known /\ m.delayed = None
BY DEF FreshListing, Listings, DelRoms

LEMMA WalkIs ==
  ASSUME NEW l \in Listings, l.inst_state = "normal", NEW w \in AWord
  PROVE  LET m == Walk(l, w)
         IN  /\ m \in Listings
             /\ m.inst_state = IF ThenGoto(w) THEN "then_goto" ELSE "normal"
             /\ Type(w) = 2 /\ Op(w) \in can_set_carry => m.carry_known_clear = FALSE
             /\ m.delayed = IF OpFcn(w) = "op_del_sel_rom" THEN Arg(w) % PAGES ELSE None
<1> DEFINE i == IF two_word_inst(w) THEN "then_goto" ELSE "normal"
           k == ~(Type(w) = 2 /\ Op(w) \in can_set_carry)
           d == IF Type(w) = 0 /\ Row(w) = 13 THEN Arg(w) % PAGES ELSE None
           m == Walk(l, w)
<1>1. m = [inst_state |-> i, carry_known_clear |-> k, delayed |-> d]
  BY DEF Walk
<1>2. i \in {"normal", "then_goto"} /\ k \in BOOLEAN
  OBVIOUS
<1>3. d \in DelRoms
  BY WordFacts, WoodstockAssumption DEF DelRoms
<1>4. d = IF OpFcn(w) = "op_del_sel_rom" THEN Arg(w) % PAGES ELSE None
  BY WordFacts
<1>5. i = IF ThenGoto(w) THEN "then_goto" ELSE "normal"
  BY WordFacts
<1>6. Type(w) = 2 /\ Op(w) \in can_set_carry => k = FALSE
  OBVIOUS
<1> HIDE DEF i, k, d, m
<1>7. m \in Listings /\ m.inst_state = i /\ m.carry_known_clear = k /\ m.delayed = d
  BY <1>1, <1>2, <1>3 DEF Listings
<1> QED BY <1>4, <1>5, <1>6, <1>7 DEF m

ListingNext(b, l, w, c) ==
  IF b.inst_state # "selftest" /\ c.pc = NextLine(b.pc) /\ c.inst_state # "selftest"
  THEN {Walk(l, w)} ELSE {FreshListing(known) : known \in BOOLEAN}

LEMMA NextFresh ==
  ASSUME NEW m \in {FreshListing(known) : known \in BOOLEAN}
  PROVE  m \in Listings /\ m.inst_state = "normal" /\ m.delayed = None
BY FreshListingIs

(* The delayed selection *)
LEMMA SetPageIs ==
  ASSUME NEW e \in Acts, NEW d \in 0..(PAGES - 1)
  PROVE  LET c == SetPage(e, d)
         IN  /\ c \in Acts /\ c.pc = SelectPage(d, e.pc) /\ c.carry = e.carry
             /\ c.del_rom = e.del_rom /\ c.inst_state = e.inst_state
<1> DEFINE p == SelectPage(d, e.pc)
<1>1. p \in Addresses
  <2>1. e.pc \in Int /\ d \in Int
    BY IsAct, WoodstockAssumption DEF Addresses
  <2> QED BY <2>1, SelectPageIn
<1>2. SetPage(e, d) = [e EXCEPT !.pc = p]
  BY DEF SetPage
<1> HIDE DEF p
<1> QED BY <1>1, <1>2 DEF Acts, p

(* What a cycle comes to, with the delayed selection.                      *)
Outcome(b, w, carry, c, e) ==
  /\ c \in Acts /\ e \in Acts
  /\ c.carry = e.carry /\ c.del_rom = e.del_rom /\ c.inst_state = e.inst_state
  /\ c.pc = IF b.del_rom = None THEN e.pc ELSE SelectPage(b.del_rom, e.pc)
  /\ b.inst_state = "normal" => e.carry = carry /\ Instruction(NextLine(b.pc), b.carry, w, e)
  /\ b.inst_state = "then_goto" =>
       /\ e.carry = FALSE /\ e.del_rom = None /\ e.inst_state = "normal"
       /\ e.pc = IF b.carry THEN NextLine(b.pc) ELSE InRom(NextLine(b.pc), w)
  /\ b.inst_state = "selftest" => e.carry = FALSE /\ e.del_rom = None /\ e.inst_state \in {"normal", "selftest"}

LEMMA CycleOutcome ==
  ASSUME NEW b \in Acts, NEW w \in AWord, NEW carry \in BOOLEAN, NEW offset \in Int
  PROVE  Outcome(b, w, carry, Cycled(b, w, carry, offset), Done(b, w, carry, offset))
<1> DEFINE c == Cycled(b, w, carry, offset)
           e == Done(b, w, carry, offset)
<1>1. b.inst_state \in {"normal", "then_goto", "selftest"} /\ b.del_rom \in DelRoms
  BY IsAct
<1>2. b.inst_state = "normal" => e \in Acts /\ e.carry = carry /\ Instruction(NextLine(b.pc), b.carry, w, e)
  BY NormalOut
<1>3. b.inst_state = "then_goto" =>
        /\ e \in Acts /\ e.carry = FALSE /\ e.del_rom = None /\ e.inst_state = "normal"
        /\ e.pc = IF b.carry THEN NextLine(b.pc) ELSE InRom(NextLine(b.pc), w)
  BY ThenGotoOut
<1>4. b.inst_state = "selftest" =>
        e \in Acts /\ e.carry = FALSE /\ e.del_rom = None /\ e.inst_state \in {"normal", "selftest"}
  BY SelftestOut
<1>5. c = IF b.del_rom = None THEN e ELSE SetPage(e, b.del_rom)
  BY CycledIs
<1> HIDE DEF c, e
<1>6. e \in Acts
  BY <1>1, <1>2, <1>3, <1>4
<1>7. /\ c \in Acts /\ c.carry = e.carry /\ c.del_rom = e.del_rom /\ c.inst_state = e.inst_state
      /\ c.pc = IF b.del_rom = None THEN e.pc ELSE SelectPage(b.del_rom, e.pc)
  <2>1. CASE b.del_rom = None
    BY <1>5, <1>6, <2>1
  <2>2. CASE b.del_rom # None
    <3>1. b.del_rom \in 0..(PAGES - 1)
      BY <1>1, <2>2 DEF DelRoms
    <3>2. c = SetPage(e, b.del_rom)
      BY <1>5, <2>2
    <3> QED BY <1>6, <2>2, <3>1, <3>2, SetPageIs
  <2> QED BY <2>1, <2>2
<1>8. Outcome(b, w, carry, c, e)
  BY <1>2, <1>3, <1>4, <1>6, <1>7 DEF Outcome
<1> QED BY <1>8 DEF c, e

(* The listing and the processor still agree after a cycle.                *)
LEMMA AfterNormal ==
  ASSUME NEW b \in Acts, NEW l \in Listings, AgreeW(b, l), b.inst_state = "normal",
         NEW w \in AWord, NEW carry \in Carries(w), b.del_rom # None => Follows(w),
         NEW c, NEW e, Outcome(b, w, carry, c, e), NEW m \in ListingNext(b, l, w, c)
  PROVE  AgreeW(c, m)
<1> DEFINE n == NextLine(b.pc)
           tt == ThenGoto(w)
           del == OpFcn(w) = "op_del_sel_rom"
           set == Type(w) = 2 /\ Op(w) \in can_set_carry
           arith == OpFcn(w) = "op_arith"
           test == OpFcn(w) = "op_rom_selftest"
           x == Arg(w) % PAGES
<1>1. /\ c \in Acts /\ c.carry = carry
      /\ c.del_rom = (IF del THEN x ELSE None)
      /\ c.inst_state = (IF tt THEN "then_goto" ELSE IF test THEN "selftest" ELSE "normal")
      /\ b.del_rom = None => c.pc = e.pc
      /\ NoSay(w) \/ tt \/ del => e.pc = n
  BY DEF Outcome, Instruction
<1>2. carry \in BOOLEAN /\ (carry = TRUE => tt \/ (arith /\ set))
  BY CarryFacts
<1>3. (tt => ~del /\ ~test) /\ (del => ~test /\ ~arith) /\ (test => ~arith)
  BY DEF ThenGoto
<1>4. arith => tt \/ NoSay(w)
  BY DEF NoSay
<1>5. Waiting(c)
  <2> HIDE DEF tt, del, set, arith, test, x
  <2>1. c.del_rom # None => del
    BY <1>1
  <2>2. del => c.inst_state = "normal" /\ carry = FALSE
    BY <1>1, <1>2, <1>3
  <2>3. c.inst_state = "selftest" => test /\ ~tt
    BY <1>1
  <2>4. test /\ ~tt => carry = FALSE
    BY <1>2, <1>3
  <2> QED BY <1>1, <2>1, <2>2, <2>3, <2>4 DEF Waiting
<1>6. CASE c.pc = n /\ c.inst_state # "selftest"
  <2>1. m = Walk(l, w)
    BY <1>6 DEF ListingNext
  <2>2. l.inst_state = "normal"
    BY DEF AgreeW, SameLine
  <2>3. /\ m \in Listings /\ m.inst_state = (IF tt THEN "then_goto" ELSE "normal")
        /\ set => m.carry_known_clear = FALSE
        /\ m.delayed = (IF del THEN x ELSE None)
    BY <2>1, <2>2, WalkIs
  <2> HIDE DEF tt, del, set, arith, test, x, n
  <2>4. m.inst_state = c.inst_state /\ m.delayed = c.del_rom
    BY <1>1, <1>6, <2>3
  <2>5. c.inst_state = "normal" /\ m.carry_known_clear = TRUE => c.carry = FALSE
    BY <1>1, <1>2, <2>3
  <2> QED BY <1>1, <1>5, <2>3, <2>4, <2>5 DEF AgreeW, SameLine
<1>7. CASE ~(c.pc = n /\ c.inst_state # "selftest")
  <2>1. m \in Listings /\ m.inst_state = "normal" /\ m.delayed = None
    BY <1>7, NextFresh DEF ListingNext
  <2>2. Follows(w) => ~tt /\ ~del /\ ~arith
    BY DEF Follows, ThenGoto
  <2> HIDE DEF tt, del, set, arith, test, x, n
  <2>3. CASE c.inst_state = "selftest"
    BY <1>1, <1>5, <2>1, <2>3 DEF AgreeW, SameLine
  <2>4. CASE c.inst_state # "selftest"
    <3>1. c.pc # n
      BY <1>7, <2>4
    <3>2. ~tt /\ ~del /\ ~arith
      <4>1. CASE b.del_rom = None
        BY <1>1, <1>4, <3>1, <4>1
      <4>2. CASE b.del_rom # None
        BY <2>2, <4>2
      <4> QED BY <4>1, <4>2
    <3>3. c.inst_state = "normal" /\ c.del_rom = None /\ c.carry = FALSE
      BY <1>1, <1>2, <2>4, <3>2
    <3> QED BY <1>1, <1>5, <2>1, <3>3 DEF AgreeW, SameLine
  <2> QED BY <2>3, <2>4
<1> QED BY <1>6, <1>7

LEMMA AfterSecondWord ==
  ASSUME NEW b \in Acts, NEW l \in Listings, AgreeW(b, l), b.inst_state # "normal",
         NEW w, NEW carry, NEW c, NEW e, Outcome(b, w, carry, c, e), NEW m \in ListingNext(b, l, w, c)
  PROVE  AgreeW(c, m)
<1>1. b.inst_state \in {"normal", "then_goto", "selftest"}
  BY IsAct
<1>2. c \in Acts /\ c.carry = FALSE /\ c.del_rom = None /\ c.inst_state \in {"normal", "selftest"}
  BY <1>1 DEF Outcome
<1>3. b.inst_state = "then_goto" => c.inst_state = "normal"
  BY DEF Outcome
<1>4. m \in Listings /\ m.inst_state = "normal" /\ m.delayed = None
  <2>1. CASE m \in {FreshListing(known) : known \in BOOLEAN}
    BY <2>1, NextFresh
  <2>2. CASE m \notin {FreshListing(known) : known \in BOOLEAN}
    <3>1. m = Walk(l, w) /\ b.inst_state = "then_goto"
      BY <1>1, <2>2 DEF ListingNext
    <3>2. l.inst_state = "then_goto"
      BY <3>1 DEF AgreeW, SameLine
    <3>3. m = FreshListing(TRUE)
      BY <3>1, <3>2 DEF Walk
    <3>4. m \in {FreshListing(known) : known \in BOOLEAN}
      BY <3>3
    <3> QED BY <2>2, <3>4
  <2> QED BY <2>1, <2>2
<1> QED BY <1>2, <1>4 DEF AgreeW, SameLine, Waiting
-----------------------------------------------------------------------------
(* The text shows where a cycle leads: reader is the state that a listing  *)
(* or a trace reads the word in, mask the pages it can put in.             *)
Reads(reader, b) ==
  /\ reader.inst_state = "normal" /\ reader.delayed = b.del_rom
  /\ reader.carry_known_clear \in BOOLEAN /\ (reader.carry_known_clear = TRUE => b.carry = FALSE)

Reaches(mask, b, e, c, open) ==
  /\ e.pc \in Addresses /\ c.pc \in Addresses
  /\ b.del_rom = None => c.pc = e.pc /\ c.pc \in open
  /\ b.del_rom # None => /\ b.del_rom \in 0..(PAGES - 1) /\ c.pc = SelectPage(b.del_rom, e.pc)
                         /\ WithDelayed(mask, b.del_rom, e.pc) \in open \/ open = Addresses

LEMMA ShownAfterNormal ==
  ASSUME NEW b \in Acts, b.inst_state = "normal", NEW w \in AWord, NEW carry, NEW c, NEW e,
         Outcome(b, w, carry, c, e), b.del_rom # None => b.carry = FALSE /\ Follows(w),
         NEW reader, Reads(reader, b), NEW mask
  PROVE  Reaches(mask, b, e, c, Shown(Decode(reader, mask, b.pc, w), b.pc))
<1>1. e \in Acts /\ c \in Acts /\ Instruction(NextLine(b.pc), b.carry, w, e)
  BY DEF Outcome
<1>2. b.pc \in Addresses /\ b.carry \in BOOLEAN /\ e.pc \in Addresses /\ c.pc \in Addresses /\ b.del_rom \in DelRoms
  BY <1>1, IsAct
<1>3. Leaves(reader, mask, b.pc, w, e.pc)
  <2>1. reader.inst_state = "normal" /\ reader.carry_known_clear \in BOOLEAN
    BY DEF Reads
  <2>2. reader.delayed # None => b.carry = FALSE /\ Follows(w)
    BY DEF Reads
  <2>3. reader.carry_known_clear = TRUE => b.carry = FALSE
    BY DEF Reads
  <2> QED BY <1>1, <1>2, <2>1, <2>2, <2>3, ShownOfInstruction
<1>4. c.pc = IF b.del_rom = None THEN e.pc ELSE SelectPage(b.del_rom, e.pc)
  BY DEF Outcome
<1> QED BY <1>2, <1>3, <1>4 DEF Leaves, DelRoms, Reads, Reaches

ShownByListing(l, b, w, c) == c.pc \in Shown(Decode(l, PAGES, b.pc, w), b.pc)
ShownByTrace(b, w, c) ==
  SameHalf(c.pc) \in {SameHalf(a) : a \in Shown(Decode(TraceState(b), Half, b.pc, w), b.pc) \ {None}}

LEMMA TraceStateIs ==
  ASSUME NEW b \in Acts
  PROVE  LET t == TraceState(b)
         IN  /\ t.inst_state = b.inst_state /\ t.delayed = b.del_rom /\ t.carry_known_clear \in BOOLEAN
             /\ t.carry_known_clear = TRUE => b.carry = FALSE
<1>1. b.carry \in BOOLEAN
  BY IsAct
<1> QED BY <1>1 DEF TraceState

LEMMA ListingShowsNormal ==
  ASSUME NEW b \in Acts, NEW l \in Listings, AgreeW(b, l), b.inst_state = "normal", NEW w \in AWord,
         NEW carry, NEW c, NEW e, Outcome(b, w, carry, c, e), b.del_rom # None => Follows(w)
  PROVE  ShownByListing(l, b, w, c)
<1>1. Reads(l, b) /\ (b.del_rom # None => b.carry = FALSE)
  BY DEF AgreeW, SameLine, Waiting, Listings, Reads
<1> DEFINE open == Shown(Decode(l, PAGES, b.pc, w), b.pc)
<1>2. Reaches(PAGES, b, e, c, open)
  BY <1>1, ShownAfterNormal
<1> HIDE DEF open
<1>3. CASE b.del_rom = None
  BY <1>2, <1>3 DEF Reaches, open, ShownByListing
<1>4. CASE b.del_rom # None
  <2>1. WithDelayed(PAGES, b.del_rom, e.pc) = SelectPage(b.del_rom, e.pc)
    BY <1>2, <1>4, DelayedTarget DEF Reaches
  <2>2. c.pc \in open
    BY <1>2, <1>4, <2>1 DEF Reaches
  <2> QED BY <2>2 DEF open, ShownByListing
<1> QED BY <1>3, <1>4

LEMMA TraceShowsNormal ==
  ASSUME NEW b \in Acts, Waiting(b), b.inst_state = "normal", NEW w \in AWord,
         NEW carry, NEW c, NEW e, Outcome(b, w, carry, c, e), b.del_rom # None => Follows(w)
  PROVE  ShownByTrace(b, w, c)
<1> DEFINE t == TraceState(b)
           open == Shown(Decode(t, Half, b.pc, w), b.pc)
<1>1. Reads(t, b)
  BY TraceStateIs DEF Reads
<1>a. b.del_rom # None => b.carry = FALSE
  BY DEF Waiting
<1> HIDE DEF t
<1>2. Reaches(Half, b, e, c, open)
  BY <1>1, <1>a, ShownAfterNormal
<1> HIDE DEF open
<1>3. c.pc # None
  BY <1>2, AnAddressIsNotNone DEF Reaches
<1>4. \E x \in open \ {None} : SameHalf(x) = SameHalf(c.pc)
  <2>1. CASE b.del_rom = None \/ open = Addresses
    <3>1. c.pc \in open
      BY <1>2, <2>1 DEF Reaches
    <3> QED BY <1>3, <3>1
  <2>2. CASE b.del_rom # None /\ open # Addresses
    <3> DEFINE x == WithDelayed(Half, b.del_rom, e.pc)
    <3>1. b.del_rom \in 0..(PAGES - 1) /\ c.pc = SelectPage(b.del_rom, e.pc) /\ x \in open
      BY <1>2, <2>2 DEF Reaches
    <3>2. SameHalf(x) = SameHalf(c.pc)
      BY <1>2, <3>1, DelayedTarget DEF Reaches
    <3>3. x \in Addresses
      <4> DEFINE old == e.pc \div PAGE_WORDS
                 p == (old - (old % Half)) + (b.del_rom % Half)
      <4>1. e.pc \in Int /\ PAGE_WORDS \in Nat \ {0} /\ Half \in Nat \ {0} /\ b.del_rom \in Int
        BY <1>2, <3>1, WoodstockAssumption, Sizes DEF Reaches, Addresses
      <4>2. old \in Int
        BY <4>1, DivMod
      <4> HIDE DEF old
      <4>3. old % Half \in Int /\ b.del_rom % Half \in Int
        BY <4>1, <4>2, DivMod
      <4>4. p \in Int
        BY <4>2, <4>3
      <4> HIDE DEF p
      <4>5. SelectPage(p, e.pc) \in Addresses
        BY <4>1, <4>4, SelectPageIn
      <4> QED BY <4>5 DEF WithDelayed, p, old
    <3> HIDE DEF x
    <3>4. x # None
      BY <3>3, AnAddressIsNotNone
    <3> QED BY <3>1, <3>2, <3>4
  <2> QED BY <2>1, <2>2
<1> QED BY <1>4 DEF ShownByTrace, open, t

(* A second word *)
LEMMA ShownAfterTest ==
  ASSUME NEW b \in Acts, b.inst_state = "then_goto", b.del_rom = None, NEW w, NEW carry, NEW c, NEW e,
         Outcome(b, w, carry, c, e), NEW reader, reader.inst_state = "then_goto", NEW mask
  PROVE  c.pc \in Addresses /\ c.pc \in Shown(Decode(reader, mask, b.pc, w), b.pc)
<1> DEFINE t == InRom(NextLine(b.pc), w)
<1>1. c.pc \in {t, NextLine(b.pc)}
  BY DEF Outcome
<1>2. c.pc \in Addresses
  BY IsAct DEF Outcome
<1>3. Decode(reader, mask, b.pc, w) = Says("cond", t)
  BY DEF Decode, Flow, Says
<1> HIDE DEF t
<1> QED BY <1>1, <1>2, <1>3, ShownIs

LEMMA NothingMissed ==
  ASSUME NEW b \in Acts, NEW l \in Listings, AgreeW(b, l), b.inst_state # "selftest", NEW w \in AWord,
         NEW carry, NEW c, NEW e, Outcome(b, w, carry, c, e),
         b.inst_state = "normal" /\ b.del_rom # None => Follows(w)
  PROVE  ShownByListing(l, b, w, c) /\ ShownByTrace(b, w, c)
<1>1. b.inst_state \in {"normal", "then_goto", "selftest"} /\ Waiting(b)
  BY IsAct DEF AgreeW
<1>2. CASE b.inst_state = "normal"
  <2>1. b.del_rom # None => Follows(w)
    BY <1>2
  <2> QED BY <1>1, <1>2, <2>1, ListingShowsNormal, TraceShowsNormal
<1>3. CASE b.inst_state = "then_goto"
  <2>1. b.del_rom = None
    BY <1>1, <1>3 DEF Waiting
  <2>2. l.inst_state = "then_goto"
    BY <1>3 DEF AgreeW, SameLine
  <2>3. TraceState(b).inst_state = "then_goto"
    BY <1>3, TraceStateIs
  <2>4. c.pc \in Addresses /\ c.pc \in Shown(Decode(l, PAGES, b.pc, w), b.pc)
    BY <1>3, <2>1, <2>2, ShownAfterTest
  <2>5. c.pc \in Shown(Decode(TraceState(b), Half, b.pc, w), b.pc)
    BY <1>3, <2>1, <2>3, ShownAfterTest
  <2>6. c.pc # None
    BY <2>4, AnAddressIsNotNone
  <2> QED BY <2>4, <2>5, <2>6 DEF ShownByListing, ShownByTrace
<1> QED BY <1>1, <1>2, <1>3
-----------------------------------------------------------------------------
(* WInv: the listing and the processor agree wherever the walk comes to    *)
(* the word that the processor is at, and nothing has been missed.         *)
LEMMA InitAgrees == WInit => WInv
<1> SUFFICES ASSUME WInit PROVE WInv
  OBVIOUS
<1>1. PICK known \in BOOLEAN : listing = FreshListing(known)
  BY DEF WInit
<1>2. listing \in Listings /\ listing.inst_state = "normal" /\ listing.delayed = None
  BY <1>1, FreshListingIs
<1>3. act \in Acts /\ act.carry = FALSE /\ act.del_rom = None /\ act.inst_state = "normal"
  <2> DEFINE zeros == [i \in 0..(STACK_SIZE - 1) |-> 0]
             no == FALSE
             ready == "normal"
  <2>1. act = Act(0, no, None, 0, ready, 0, zeros)
    BY DEF WInit, FreshAct, Act
  <2>2. 0 \in Addresses /\ 0 \in StackIndex
    BY Sizes, WoodstockAssumption DEF Addresses, StackIndex
  <2>3. zeros \in [StackIndex -> Addresses]
    BY <2>2 DEF StackIndex
  <2>4. no \in BOOLEAN /\ no = FALSE /\ None \in DelRoms /\ 0 \in {0, 1}
        /\ ready \in {"normal", "then_goto", "selftest"} /\ ready = "normal"
    BY DEF DelRoms
  <2> HIDE DEF zeros, no, ready
  <2>5. act \in Acts /\ act.carry = no /\ act.del_rom = None /\ act.inst_state = ready
    BY <2>1, <2>2, <2>3, <2>4, ActHas
  <2> QED BY <2>4, <2>5
<1>4. missed = {}
  BY DEF WInit
<1> QED BY <1>2, <1>3, <1>4 DEF WInv, AgreeW, SameLine, Waiting

LEMMA CycleAgrees == WInv /\ Cycle => WInv'
<1> SUFFICES ASSUME WInv, Cycle PROVE WInv'
  OBVIOUS
<1>1. PICK w \in (IF act.inst_state = "normal" THEN Words ELSE Words \cup Targets) :
        /\ WellFormed(w)
        /\ \E carry \in Carries(w), offset \in Offsets(w) :
             LET c == Cycled(act, w, carry, offset)
             IN  /\ act' = c
                 /\ listing' \in ListingAt(c, w)
                 /\ missed' = missed \cup Missed(c, w)
  BY DEF Cycle
<1>2. PICK carry \in Carries(w), offset \in Offsets(w) :
        LET c == Cycled(act, w, carry, offset)
        IN  /\ act' = c
            /\ listing' \in ListingAt(c, w)
            /\ missed' = missed \cup Missed(c, w)
  BY <1>1
<1> DEFINE c == Cycled(act, w, carry, offset)
           e == Done(act, w, carry, offset)
<1>3. AgreeW(act, listing) /\ act \in Acts /\ listing \in Listings /\ missed = {}
  BY DEF WInv, AgreeW
<1>4. w \in AWord
  BY WoodstockAssumption DEF AWord
<1>5. carry \in BOOLEAN
  BY <1>4, CarryFacts
<1>6. offset \in Int
  BY WoodstockAssumption DEF Offsets
<1>7. Outcome(act, w, carry, c, e)
  BY <1>3, <1>4, <1>5, <1>6, CycleOutcome
<1>8. act.inst_state = "normal" /\ act.del_rom # None => Follows(w)
  BY <1>1 DEF WellFormed, Follows
<1>9. act' = c /\ listing' \in ListingNext(act, listing, w, c) /\ missed' = missed \cup Missed(c, w)
  BY <1>2 DEF ListingAt, ListingNext
<1> HIDE DEF c, e
<1>10. AgreeW(c, listing')
  <2>1. CASE act.inst_state = "normal"
    <3>1. act.del_rom # None => Follows(w)
      BY <1>8, <2>1
    <3> QED BY <1>3, <1>4, <1>7, <1>9, <2>1, <3>1, AfterNormal
  <2>2. CASE act.inst_state # "normal"
    BY <1>3, <1>7, <1>9, <2>2, AfterSecondWord
  <2> QED BY <2>1, <2>2
<1>11. Missed(c, w) = {}
  <2>1. CASE act.inst_state = "selftest"
    BY <2>1 DEF Missed
  <2>2. CASE act.inst_state # "selftest"
    <3>1. ShownByListing(listing, act, w, c) /\ ShownByTrace(act, w, c)
      BY <1>3, <1>4, <1>7, <1>8, <2>2, NothingMissed
    <3> QED BY <2>2, <3>1 DEF Missed, ShownByListing, ShownByTrace, Half
  <2> QED BY <2>1, <2>2
<1>12. missed' = {}
  BY <1>3, <1>9, <1>11
<1> QED BY <1>9, <1>10, <1>12 DEF WInv

LEMMA ResetAgrees == WInv /\ Reset => WInv'
<1> SUFFICES ASSUME WInv, Reset PROVE WInv'
  OBVIOUS
<1>1. act \in Acts /\ missed = {}
  BY DEF WInv, AgreeW
<1>2. act.carry \in BOOLEAN /\ act.bank \in {0, 1} /\ act.stack \in [StackIndex -> Addresses]
  BY <1>1, IsAct DEF Acts
<1>3. listing' \in Listings /\ listing'.inst_state = "normal" /\ listing'.delayed = None
      /\ listing'.carry_known_clear = FALSE
  <2> DEFINE no == FALSE
  <2>1. listing' = FreshListing(no) /\ no \in BOOLEAN /\ no = FALSE
    BY DEF Reset
  <2> HIDE DEF no
  <2> QED BY <2>1, FreshListingIs
<1>4. act' \in Acts /\ act'.del_rom = None /\ act'.inst_state = "normal"
  <2> DEFINE ready == "normal"
             carry == act.carry
             bank == act.bank
             stack == act.stack
  <2>1. act' = Act(0, carry, None, bank, ready, 0, stack)
    BY DEF Reset, FreshAct, Act
  <2>2. 0 \in Addresses /\ 0 \in StackIndex
    BY Sizes, WoodstockAssumption DEF Addresses, StackIndex
  <2>3. None \in DelRoms /\ ready \in {"normal", "then_goto", "selftest"} /\ ready = "normal"
    BY DEF DelRoms
  <2>4. carry \in BOOLEAN /\ bank \in {0, 1} /\ stack \in [StackIndex -> Addresses]
    BY <1>2
  <2> HIDE DEF ready, carry, bank, stack
  <2>5. act' \in Acts /\ act'.del_rom = None /\ act'.inst_state = ready
    BY <2>1, <2>2, <2>3, <2>4, ActHas
  <2> QED BY <2>3, <2>5
<1>5. missed' = {}
  BY <1>1 DEF Reset
<1> QED BY <1>3, <1>4, <1>5 DEF WInv, AgreeW, SameLine, Waiting

(* A state file brings back all but the stack pointer, between two         *)
(* instructions.                                                           *)
Reread(c, sp) == Act(c.pc, c.carry, c.del_rom, c.bank, c.inst_state, sp, c.stack)

Gone(sp, del_rom) == [FreshAct EXCEPT !.sp = sp, !.del_rom = del_rom, !.carry = TRUE]

LEMMA OthersAre == Others = {Gone(sp, del_rom) : sp \in 0..(STACK_SIZE - 1), del_rom \in {0, None}}
BY SMT DEF Others, Gone

LEMMA RereadIs ==
  ASSUME NEW c \in Acts, NEW s \in StackIndex
  PROVE  LET r == Reread(c, s)
         IN  /\ r \in Acts /\ r.pc = c.pc /\ r.carry = c.carry /\ r.del_rom = c.del_rom /\ r.bank = c.bank
             /\ r.inst_state = c.inst_state /\ r.sp = s /\ r.stack = c.stack
BY DEF Reread, Act, Acts

LEMMA RestoreIs ==
  ASSUME act \in Acts, NEW other \in Others, Restore(other)
  PROVE  /\ act.inst_state = "normal" /\ other.sp \in StackIndex
         /\ act' = Reread(act, other.sp)
<1>1. other.sp \in StackIndex /\ other.inst_state = "normal"
  <2>1. PICK x \in 0..(STACK_SIZE - 1), y \in {0, None} : other = Gone(x, y)
    BY OthersAre
  <2>2. other.sp = x /\ other.inst_state = "normal"
    BY <2>1 DEF Gone, FreshAct
  <2> QED BY <2>2 DEF StackIndex
<1>3. act.inst_state = "normal"
  BY DEF Restore
<1>4. DOMAIN act = {"pc", "carry", "del_rom", "bank", "inst_state", "sp", "stack"}
  BY DEF Acts
<1>5. act' = [f \in {"pc", "carry", "del_rom", "bank", "inst_state", "sp", "stack"} |->
                IF f \in RegDetail THEN act[f] ELSE other[f]]
  BY <1>4 DEF Restore
<1> DEFINE q == Reread(act, other.sp)
<1>6. act' = q
  BY <1>1, <1>3, <1>5 DEF RegDetail, Reread, Act
<1> QED BY <1>1, <1>3, <1>6

LEMMA RestoreAgrees == ASSUME WInv, NEW other \in Others, Restore(other) PROVE WInv'
<1>1. act \in Acts /\ listing \in Listings /\ SameLine(act, listing) /\ Waiting(act) /\ missed = {}
  BY DEF WInv, AgreeW
<1>2. other.sp \in StackIndex /\ act' = Reread(act, other.sp)
  BY <1>1, RestoreIs
<1>3. act' \in Acts /\ act'.carry = act.carry /\ act'.del_rom = act.del_rom /\ act'.inst_state = act.inst_state
  BY <1>1, <1>2, RereadIs
<1>4. listing' = listing /\ missed' = {}
  BY <1>1 DEF Restore
<1> QED BY <1>1, <1>3, <1>4 DEF WInv, AgreeW, SameLine, Waiting

LEMMA StepAgrees == WInv /\ [WNext]_wvars => WInv'
<1> SUFFICES ASSUME WInv, [WNext]_wvars PROVE WInv'
  OBVIOUS
<1>1. CASE Cycle
  BY <1>1, CycleAgrees
<1>2. CASE Reset
  BY <1>2, ResetAgrees
<1>3. ASSUME NEW other \in Others, Restore(other) PROVE WInv'
  BY <1>3, RestoreAgrees
<1>4. CASE UNCHANGED wvars
  BY <1>4 DEF wvars, WInv
<1> QED BY <1>1, <1>2, <1>3, <1>4 DEF WNext

LEMMA AlwaysAgrees == WSpec => []WInv
BY InitAgrees, StepAgrees, PTL DEF WSpec

(* The text shows the flow *)
LEMMA AgreedTextIsRight == WInv => TextShowsTheFlow
<1> SUFFICES ASSUME WInv PROVE TextShowsTheFlow
  OBVIOUS
<1>1. act \in Acts /\ listing \in Listings /\ missed = {}
  BY DEF WInv, AgreeW
<1>2. WTypeOK
  BY <1>1 DEF WTypeOK, Acts, Listings, StackIndex, DelRoms
<1> QED BY <1>1, <1>2 DEF TextShowsTheFlow, ListingShowsTheFlow, TraceShowsTheFlow

(* A listing shows every way that the Woodstock processor takes, and so    *)
(* does a trace, for every ROM whose delayed selections are followed by a  *)
(* branch, any number of pages and any depth of the stack                  *)
(* (woodstock_disassemble against woodstock_execute_cycle).                *)
THEOREM TextShowsTheFlowCorrect == WSpec => []TextShowsTheFlow
BY AlwaysAgrees, AgreedTextIsRight, PTL

(* A state file that is read goes on where it was written, whatever the    *)
(* processor that reads it has done since (woodstock_cpu_reg_detail).      *)
LEMMA RestoreKeepsTheFuture ==
  ASSUME WInv, NEW other \in Others, Restore(other)
  PROVE  Future(act') = Future(act) /\ (other.sp = act.sp => Returns(act') = Returns(act))
<1>1. act \in Acts
  BY DEF WInv, AgreeW
<1>2. other.sp \in StackIndex /\ act' = Reread(act, other.sp)
  BY <1>1, RestoreIs
<1>3. /\ act'.pc = act.pc /\ act'.carry = act.carry /\ act'.del_rom = act.del_rom /\ act'.bank = act.bank
      /\ act'.inst_state = act.inst_state /\ act'.sp = other.sp /\ act'.stack = act.stack
  BY <1>1, <1>2, RereadIs
<1> QED BY <1>3 DEF Future, Returns

THEOREM RestoreResumesCorrect == WSpec => RestoreResumes
<1>1. WInv /\ [WNext]_wvars =>
        [\A other \in Others : Restore(other) =>
           /\ Future(act') = Future(act)
           /\ other.sp = act.sp => Returns(act') = Returns(act)]_wvars
  BY RestoreKeepsTheFuture
<1> QED BY <1>1, AlwaysAgrees, PTL DEF WSpec, RestoreResumes

-----------------------------------------------------------------------------
(***************************************************************************)
(* The Classic: two processors that have the same in every register that   *)
(* a file has leave the same after an instruction.                         *)
(***************************************************************************)
CFields ==
  {"reg", "p", "carry", "prev_carry", "s", "ext_flag", "pc", "rom", "group", "del_rom", "del_rom_flag", "del_group",
   "del_group_flag", "ret_pc", "key_flag", "key_buf", "display_enable", "display_scan_position",
   "display_digit_position", "ram_addr", "ram"}

(* Two processors that differ in what is not in a file, and has no effect  *)
(* on the others.                                                          *)
Kept == classic_cpu_reg_detail \cup {"prev_carry"}
SameKept(c, e) == DOMAIN c = CFields /\ DOMAIN e = CFields /\ \A x \in Kept : c[x] = e[x]

LEMMA KeptIs ==
  /\ Kept \subseteq CFields
  /\ {"reg", "p", "carry", "prev_carry", "s", "ext_flag", "pc", "rom", "group", "del_rom", "del_rom_flag",
      "del_group", "del_group_flag", "ret_pc", "display_enable", "ram"} = Kept
BY DEF Kept, CFields, classic_cpu_reg_detail

LEMMA FlowSame ==
  ASSUME NEW c, NEW e, SameKept(c, e), NEW op, NEW n, NEW target, op # "op_keys_to_rom_addr"
  PROVE  SameKept(classic_flow(c, op, n, target), classic_flow(e, op, n, target))
<1>1. \A x \in {"prev_carry", "pc", "ret_pc"} : c[x] = e[x]
  BY KeptIs DEF SameKept
<1>2. CASE op = "op_goto"
  BY <1>1, <1>2, KeptIs DEF SameKept, classic_flow
<1>3. CASE op = "op_jsb"
  BY <1>1, <1>3, KeptIs DEF SameKept, classic_flow
<1>4. CASE op = "op_return"
  BY <1>1, <1>4, KeptIs DEF SameKept, classic_flow
<1>5. CASE op = "op_sel_rom"
  BY <1>1, <1>5, KeptIs DEF SameKept, classic_flow
<1>6. CASE op = "op_del_sel_rom"
  BY <1>1, <1>6, KeptIs DEF SameKept, classic_flow
<1>7. CASE op = "op_del_sel_grp"
  BY <1>1, <1>7, KeptIs DEF SameKept, classic_flow
<1>8. CASE op \notin {"op_goto", "op_jsb", "op_return", "op_sel_rom", "op_del_sel_rom", "op_del_sel_grp"}
  BY <1>8 DEF classic_flow
<1> QED BY <1>2, <1>3, <1>4, <1>5, <1>6, <1>7, <1>8

LEMMA StatusSame ==
  ASSUME NEW c, NEW e, SameKept(c, e), NEW op, NEW n
  PROVE  SameKept(classic_status(c, op, n), classic_status(e, op, n))
<1>1. \A x \in {"s", "p", "display_enable"} : c[x] = e[x]
  BY KeptIs DEF SameKept
<1> DEFINE Ops == {"op_clear_s", "op_set_s", "op_clr_s", "op_test_s", "op_set_p", "op_test_p", "op_dec_p", "op_inc_p",
                   "op_display_off", "op_display_toggle"}
<1>2. CASE op \in {"op_clear_s", "op_set_s", "op_clr_s", "op_test_s"}
  BY <1>1, <1>2, KeptIs DEF SameKept, classic_status
<1>3. CASE op \in {"op_set_p", "op_test_p", "op_dec_p", "op_inc_p"}
  BY <1>1, <1>3, KeptIs DEF SameKept, classic_status
<1>4. CASE op \in {"op_display_off", "op_display_toggle"}
  BY <1>1, <1>4, KeptIs DEF SameKept, classic_status
<1>5. CASE op \notin Ops
  BY <1>5 DEF classic_status
<1> QED BY <1>2, <1>3, <1>4, <1>5

LEMMA DataSame ==
  ASSUME NEW c, NEW e, SameKept(c, e), NEW op, NEW n, op \notin {"op_c_to_data", "op_data_to_c"}
  PROVE  SameKept(classic_data(c, op, n), classic_data(e, op, n))
<1>1. \A x \in {"reg", "p"} : c[x] = e[x]
  BY KeptIs DEF SameKept
<1>2. CASE op = "op_clear_reg"
  BY <1>1, <1>2, KeptIs DEF SameKept, classic_data
<1>3. CASE op = "op_load_constant"
  BY <1>1, <1>3, KeptIs DEF SameKept, classic_data
<1>4. CASE op = "op_c_to_addr"
  BY <1>1, <1>4, KeptIs DEF SameKept, classic_data
<1>5. CASE op \notin {"op_clear_reg", "op_load_constant", "op_c_to_addr"}
  BY <1>1, <1>5, KeptIs DEF SameKept, classic_data
<1> QED BY <1>2, <1>3, <1>4, <1>5

LEMMA LeftSame ==
  ASSUME NEW c, NEW e, SameKept(c, e), NEW done
  PROVE  SameKept(Left(c, done), Left(e, done))
BY KeptIs DEF Left, SameKept

LEMMA ArithSame ==
  ASSUME NEW c, NEW e, SameKept(c, e), NEW op, NEW field
  PROVE  SameKept(ClassicArith(c, op, field), ClassicArith(e, op, field))
<1>1. c.reg = e.reg
  BY KeptIs DEF SameKept
<1> DEFINE done(x) == Arith!Execute(Arith!classic_op_arith[op + 1], x.reg, field[1], field[2], DEC)
<1>2. done(c) = done(e)
  BY <1>1
<1>3. ClassicArith(c, op, field) = Left(c, done(c)) /\ ClassicArith(e, op, field) = Left(e, done(e))
  BY DEF ClassicArith
<1> HIDE DEF done
<1>4. SameKept(Left(c, done(c)), Left(e, done(c)))
  BY LeftSame
<1> QED BY <1>2, <1>3, <1>4

LEMMA SelectedSame ==
  ASSUME NEW c, NEW e, SameKept(c, e), NEW group, NEW rom
  PROVE  SameKept([c EXCEPT !.group = group, !.rom = rom], [e EXCEPT !.group = group, !.rom = rom])
BY KeptIs DEF SameKept

LEMMA ExecuteSame ==
  ASSUME NEW c, NEW e, DOMAIN c = CFields, DOMAIN e = CFields,
         \A x \in classic_cpu_reg_detail : c[x] = e[x],
         ~c.key_flag, ~e.key_flag,
         NEW w, ClassicOp(w) \notin NotInTheFile
  PROVE  SameKept(classic_execute(c, w), classic_execute(e, w))
<1> DEFINE op == ClassicOp(w)
           n == w \div 64
           c1 == ClassicFirst(c)
           e1 == ClassicFirst(e)
           c2 == op_fcn(c1, w, op, n)
           e2 == op_fcn(e1, w, op, n)
<1>1. \A x \in {"carry", "pc", "s", "ext_flag", "group", "del_rom", "del_rom_flag", "del_group", "del_group_flag"} :
         c[x] = e[x]
  BY DEF classic_cpu_reg_detail
<1>2. SameKept(c1, e1)
  BY <1>1 DEF SameKept, ClassicFirst, Kept, CFields, classic_cpu_reg_detail
<1>3. SameKept(c2, e2)
  <2> HIDE DEF c1, e1
  <2>1. CASE op = "op_arith"
    <3>1. c1.p = e1.p
      BY <1>2, KeptIs DEF SameKept
    <3>2. c2 = ClassicArith(c1, w \div 32, Arith!classic_field(c1.p)[((w \div 4) % 8) + 1])
          /\ e2 = ClassicArith(e1, w \div 32, Arith!classic_field(e1.p)[((w \div 4) % 8) + 1])
      BY <2>1 DEF op_fcn
    <3> HIDE DEF c2, e2
    <3> QED BY <1>2, <3>1, <3>2, ArithSame
  <2>2. CASE op # "op_arith"
    <3> DEFINE c3 == classic_flow(c1, op, n, w \div 4)
               e3 == classic_flow(e1, op, n, w \div 4)
               c4 == classic_status(c3, op, n)
               e4 == classic_status(e3, op, n)
    <3>1. c2 = classic_data(c4, op, n) /\ e2 = classic_data(e4, op, n)
      BY <2>2 DEF op_fcn
    <3>2. op \notin {"op_keys_to_rom_addr", "op_c_to_data", "op_data_to_c"}
      BY DEF NotInTheFile
    <3> HIDE DEF op, n, c2, e2
    <3>3. SameKept(c3, e3)
      BY <1>2, <3>2, FlowSame
    <3> HIDE DEF c3, e3
    <3>4. SameKept(c4, e4)
      BY <3>3, StatusSame
    <3> HIDE DEF c4, e4
    <3> QED BY <3>1, <3>2, <3>4, DataSame
  <2> QED BY <2>1, <2>2
<1>4. /\ classic_execute(c, w) = [c2 EXCEPT !.group = IF c.del_group_flag THEN c.del_group ELSE @,
                                            !.rom = IF c.del_rom_flag THEN c.del_rom ELSE @]
      /\ classic_execute(e, w) = [e2 EXCEPT !.group = IF e.del_group_flag THEN e.del_group ELSE @,
                                            !.rom = IF e.del_rom_flag THEN e.del_rom ELSE @]
  BY DEF classic_execute
<1> HIDE DEF c2, e2, c1, e1
<1>5. c2.group = e2.group /\ c2.rom = e2.rom
  BY <1>3, KeptIs DEF SameKept
<1> DEFINE group == IF c.del_group_flag THEN c.del_group ELSE c2.group
           rom == IF c.del_rom_flag THEN c.del_rom ELSE c2.rom
<1>6. /\ classic_execute(c, w) = [c2 EXCEPT !.group = group, !.rom = rom]
      /\ classic_execute(e, w) = [e2 EXCEPT !.group = group, !.rom = rom]
  BY <1>1, <1>4, <1>5
<1> HIDE DEF group, rom
<1>7. SameKept([c2 EXCEPT !.group = group, !.rom = rom], [e2 EXCEPT !.group = group, !.rom = rom])
  BY <1>3, SelectedSame
<1> QED BY <1>6, <1>7

(* The invariant: the shape of the record *)
ClassicFields == DOMAIN cl = CFields /\ session \in Sessions
(* A processor restored from the file of another *)
LEMMA ClassicRestored ==
  ASSUME ClassicFields PROVE RestoredGoesOn
<1> SUFFICES ASSUME ~cl.key_flag, NEW w \in session.words, ClassicOp(w) \notin NotInTheFile
             PROVE  ToFile(classic_execute(FromFile(Elsewhere, ToFile(cl)), w)) = ToFile(classic_execute(cl, w))
  BY DEF RestoredGoesOn
<1> DEFINE e == FromFile(Elsewhere, ToFile(cl))
<1>1. DOMAIN Elsewhere = CFields /\ ~Elsewhere.key_flag
  BY DEF Elsewhere, FreshClassic, CFields
<1>2. DOMAIN e = CFields /\ ~e.key_flag /\ \A x \in classic_cpu_reg_detail : cl[x] = e[x]
  BY <1>1 DEF FromFile, ToFile, Over, classic_cpu_reg_detail, CFields
<1> HIDE DEF e
<1>3. SameKept(classic_execute(cl, w), classic_execute(e, w))
  BY <1>2, ExecuteSame DEF ClassicFields
<1>4. \A x \in classic_cpu_reg_detail : classic_execute(cl, w)[x] = classic_execute(e, w)[x]
  BY <1>3 DEF SameKept, Kept
<1> QED BY <1>4 DEF ToFile, e

(* Every instruction and every event leaves the shape of the record as it is. *)
LEMMA FieldsStay ==
  ASSUME NEW c, DOMAIN c = CFields, NEW w
  PROVE  DOMAIN classic_execute(c, w) = CFields
<1> DEFINE op == ClassicOp(w)
           n == w \div 64
           c1 == ClassicFirst(c)
           c2 == classic_flow(c1, op, n, w \div 4)
           c3 == classic_status(c2, op, n)
           c4 == classic_data(c3, op, n)
<1>1. DOMAIN c1 = CFields
  BY DEF ClassicFirst
<1> HIDE DEF c1, op, n
<1>2. DOMAIN c2 = CFields
  BY <1>1 DEF classic_flow
<1> HIDE DEF c2
<1>3. DOMAIN c3 = CFields
  BY <1>2 DEF classic_status
<1> HIDE DEF c3
<1>4. DOMAIN c4 = CFields
  BY <1>3 DEF classic_data
<1>5. ASSUME NEW field PROVE DOMAIN ClassicArith(c1, w \div 32, field) = CFields
  BY <1>1 DEF ClassicArith, Left
<1>6. DOMAIN op_fcn(c1, w, op, n) = CFields
  <2>1. CASE op = "op_arith"
    BY <2>1, <1>5 DEF op_fcn
  <2>2. CASE op # "op_arith"
    BY <2>2, <1>4 DEF op_fcn, c4, c3, c2
  <2> QED BY <2>1, <2>2
<1> QED BY <1>6 DEF classic_execute, op, n, c1

LEMMA ScanKeepsFields ==
  ASSUME NEW c, NEW segs PROVE DOMAIN classic_display_scan(c, segs).c = DOMAIN c
BY DEF classic_display_scan

(* The record keeps its fields. *)
LEMMA ClassicFieldsStay == ClassicFields /\ [ClassicNext]_clvars => ClassicFields'
<1> SUFFICES ASSUME ClassicFields, [ClassicNext]_clvars PROVE ClassicFields'
  OBVIOUS
<1> USE DEF ClassicFields
<1>1. CASE ClassicInstruction
  <2> PICK w \in session.words : cl' = classic_display_scan(classic_execute(cl, w), segments).c /\ UNCHANGED session
    BY <1>1 DEF ClassicInstruction
  <2> QED BY FieldsStay, ScanKeepsFields
<1>2. CASE event_key
  BY <1>2 DEF event_key, ClassicEvent
<1>3. CASE event_set_flag
  BY <1>3 DEF event_set_flag, ClassicEvent
<1>4. CASE classic_clear_memory
  BY <1>4 DEF classic_clear_memory, ClassicEvent
<1>5. CASE classic_reset
  BY <1>5 DEF classic_reset, FreshClassic, CFields
<1>6. CASE classic_read
  BY <1>6 DEF classic_read, ClassicEvent, FromFile, Over
<1>7. CASE UNCHANGED clvars
  BY <1>7 DEF clvars
<1> QED BY <1>1, <1>2, <1>3, <1>4, <1>5, <1>6, <1>7 DEF ClassicNext

-----------------------------------------------------------------------------
(***************************************************************************)
(* The Classic's display. Chars(A, B, on)[i] is what the digits from i     *)
(* down look like; a scan that is at the digit i has filled the positions  *)
(* before its own with the characters of those above i.                    *)
(***************************************************************************)
(* The characters of the digits from i down, and those of one digit *)
Piece(A, B, on, i) ==
  IF ~(on /\ B[i] <= 7) THEN <<Blank>>
  ELSE IF B[i] = 2 THEN <<Glyph(A[i], i), Point>> ELSE <<Glyph(A[i], i)>>

Chars(A, B, on) ==
  LET chars[i \in -1..left_scan] == IF i = -1 THEN <<>> ELSE Piece(A, B, on, i) \o chars[i - 1]
  IN  chars

Marks(A) == {Blank, Minus, Point} \cup {A[i] : i \in Digits}

LEMMA LeftScan == left_scan \in Nat /\ left_scan > 0 /\ Digits = 0..left_scan
BY DigitAssumption DEF left_scan, Digits

LEMMA PieceIs ==
  ASSUME NEW A, NEW B, NEW on, NEW i \in Digits
  PROVE  Piece(A, B, on, i) \in Seq(Marks(A))
<1>1. Blank \in Marks(A) /\ Point \in Marks(A) /\ Glyph(A[i], i) \in Marks(A)
  BY DEF Marks, Glyph
<1>2. \A x, y \in Marks(A) : <<x>> \in Seq(Marks(A)) /\ <<x, y>> \in Seq(Marks(A))
  OBVIOUS
<1> QED BY <1>1, <1>2 DEF Piece

(* The characters of the digits from i down are those of i and then those  *)
(* of the ones below.                                                      *)
LEMMA CharsAre ==
  ASSUME NEW A, NEW B, NEW on
  PROVE  LET chars == Chars(A, B, on)
         IN  /\ chars \in [-1..left_scan -> Seq(Marks(A))]
             /\ chars[-1] = <<>>
             /\ \A i \in Digits : chars[i] = Piece(A, B, on, i) \o chars[i - 1]
<1> DEFINE V == Seq(Marks(A))
           P(i) == Piece(A, B, on, i)
           Step == [i \in -1..left_scan |-> [v \in V |-> IF i = -1 THEN <<>> ELSE P(i) \o v]]
           chars == Chars(A, B, on)
<1>1. \A i \in Digits : P(i) \in V
  BY PieceIs
<1>2. \A i \in -1..left_scan : i # -1 => i \in Digits
  BY LeftScan
<1>3. -1 \in Int /\ left_scan \in Int /\ -1 <= left_scan /\ <<>> \in V
  BY LeftScan
<1> HIDE DEF P
<1>4. Step \in [-1..left_scan -> [V -> V]]
  <2>1. \A i \in Digits, v \in V : P(i) \o v \in V
    BY <1>1, ConcatProperties
  <2> QED BY <1>2, <1>3, <2>1
<1>5. \A i \in -1..left_scan, v \in V : i # -1 => Step[i][v] = P(i) \o v
  OBVIOUS
<1> HIDE DEF Step, V
<1>6. PICK g : ByRecursion(g, -1, left_scan, V, <<>>, Step)
  BY <1>3, <1>4, FunctionByRecursion
<1>7. g \in [-1..left_scan -> V] /\ g[-1] = <<>> /\ \A i \in -1..left_scan : i # -1 => g[i] = Step[i][g[i - 1]]
  BY <1>6 DEF ByRecursion
<1>8. \A i \in -1..left_scan : i # -1 => i - 1 \in -1..left_scan
  BY LeftScan
<1>9. \A i \in -1..left_scan : i # -1 => g[i] = P(i) \o g[i - 1]
  BY <1>5, <1>7, <1>8
<1>10. g = [i \in -1..left_scan |-> IF i = -1 THEN <<>> ELSE P(i) \o g[i - 1]]
  BY <1>7, <1>9
<1>11. chars = [i \in -1..left_scan |-> IF i = -1 THEN <<>> ELSE P(i) \o chars[i - 1]]
  BY <1>10 DEF Chars, P
<1> HIDE DEF chars
<1>12. chars[-1] = <<>> /\ \A i \in -1..left_scan : i # -1 => chars[i] = P(i) \o chars[i - 1]
  <2>1. -1 \in -1..left_scan
    BY <1>3
  <2>2. \A i \in -1..left_scan : chars[i] = IF i = -1 THEN <<>> ELSE P(i) \o chars[i - 1]
    BY <1>11
  <2> QED BY <2>1, <2>2
<1>13. \A i \in -1..left_scan : chars[i] \in V
  <2> DEFINE S == {i \in -1..left_scan : chars[i] \in V}
  <2>1. -1 \in S
    BY <1>3, <1>12
  <2>2. \A i \in -1..(left_scan - 1) : i \in S => i + 1 \in S
    <3> SUFFICES ASSUME NEW i \in -1..(left_scan - 1), chars[i] \in V PROVE i + 1 \in -1..left_scan /\ chars[i + 1] \in V
      OBVIOUS
    <3>1. i + 1 \in -1..left_scan /\ i + 1 # -1 /\ (i + 1) - 1 = i /\ i + 1 \in Digits
      BY LeftScan
    <3>2. chars[i + 1] = P(i + 1) \o chars[i]
      BY <1>12, <3>1
    <3> QED BY <1>1, <3>1, <3>2, ConcatProperties DEF V
  <2> HIDE DEF S
  <2>3. \A i \in -1..left_scan : i \in S
    BY <1>3, <2>1, <2>2, Upwards
  <2> QED BY <2>3 DEF S
<1>14. chars \in [-1..left_scan -> V]
  BY <1>11, <1>13
<1>15. \A i \in Digits : i \in -1..left_scan /\ i # -1
  BY LeftScan
<1> QED BY <1>12, <1>14, <1>15 DEF chars, P, V

RowOf(c) == Chars(c.reg["a"], c.reg["b"], c.display_enable)

(* The frame is the row of all characters, and blanks after it. *)
LEMMA FrameIs ==
  ASSUME NEW c
  PROVE  Frame(c) = [p \in 0..(MAX_DIGIT_POSITION - 1) |->
                       IF p < Len(RowOf(c)[left_scan]) THEN RowOf(c)[left_scan][p + 1] ELSE Blank]
BY DEF Frame, RowOf, Chars, Piece

(* What has been scanned is what is shown: pre, the characters of the      *)
(* digits above the next one.                                              *)
ShowsRow(A, B, on, i, at, segs) ==
  \E pre \in Seq(Marks(A)) :
    /\ Chars(A, B, on)[left_scan] = pre \o Chars(A, B, on)[i]
    /\ IF at < MAX_DIGIT_POSITION THEN Len(pre) = at ELSE Len(pre) >= MAX_DIGIT_POSITION
    /\ \A p \in 0..(MAX_DIGIT_POSITION - 1) : p < at => segs[p] = pre[p + 1]

Shows(c, segs) ==
  ShowsRow(c.reg["a"], c.reg["b"], c.display_enable, c.display_scan_position, c.display_digit_position, segs)

LEMMA MaxPosition == MAX_DIGIT_POSITION \in Nat \ {0}
BY DigitProcessorAssumption

(* One digit is scanned. *)
LEMMA PieceShown ==
  ASSUME NEW A, NEW B, NEW on, NEW i \in Digits, NEW at \in Nat, NEW segs,
         DOMAIN segs = 0..(MAX_DIGIT_POSITION - 1), ShowsRow(A, B, on, i, at, segs)
  PROVE  LET lit == on /\ B[i] <= 7 /\ at < MAX_DIGIT_POSITION
             point == lit /\ B[i] = 2
             digit == Put(segs, at, IF lit THEN Glyph(A[i], i) ELSE Blank)
             pointed == IF point THEN Put(digit, at + 1, Point) ELSE digit
             next == at + (IF point THEN 2 ELSE 1)
         IN  /\ ShowsRow(A, B, on, i - 1, next, pointed)
             /\ DOMAIN pointed = 0..(MAX_DIGIT_POSITION - 1)
             /\ next \in Nat
<1> DEFINE lit == on /\ B[i] <= 7 /\ at < MAX_DIGIT_POSITION
           point == lit /\ B[i] = 2
           digit == Put(segs, at, IF lit THEN Glyph(A[i], i) ELSE Blank)
           pointed == IF point THEN Put(digit, at + 1, Point) ELSE digit
           next == at + (IF point THEN 2 ELSE 1)
           chars == Chars(A, B, on)
           piece == Piece(A, B, on, i)
<1>1. PICK pre \in Seq(Marks(A)) :
        /\ chars[left_scan] = pre \o chars[i]
        /\ IF at < MAX_DIGIT_POSITION THEN Len(pre) = at ELSE Len(pre) >= MAX_DIGIT_POSITION
        /\ \A p \in 0..(MAX_DIGIT_POSITION - 1) : p < at => segs[p] = pre[p + 1]
  BY DEF ShowsRow
<1>2. piece \in Seq(Marks(A)) /\ chars[i] = piece \o chars[i - 1] /\ chars[i - 1] \in Seq(Marks(A))
  <2>1. i - 1 \in -1..left_scan
    BY LeftScan
  <2>2. chars \in [-1..left_scan -> Seq(Marks(A))] /\ chars[i] = piece \o chars[i - 1]
    BY CharsAre
  <2>3. piece \in Seq(Marks(A))
    BY PieceIs
  <2> HIDE DEF chars, piece
  <2> QED BY <2>1, <2>2, <2>3
<1> DEFINE pre2 == pre \o piece
<1>3. /\ pre2 \in Seq(Marks(A)) /\ Len(pre2) = Len(pre) + Len(piece)
      /\ \A k \in 1..(Len(pre) + Len(piece)) : pre2[k] = IF k <= Len(pre) THEN pre[k] ELSE piece[k - Len(pre)]
  BY <1>2, ConcatProperties
<1>4. chars[left_scan] = pre2 \o chars[i - 1]
  <2> HIDE DEF chars, piece
  <2>1. \A s, t, u \in Seq(Marks(A)) : (s \o t) \o u = s \o (t \o u)
    BY ConcatAssociative
  <2>3. pre2 = pre \o piece
    OBVIOUS
  <2> HIDE DEF pre2
  <2>4. (pre \o piece) \o chars[i - 1] = pre \o (piece \o chars[i - 1])
    BY <1>2, <2>1
  <2>2. chars[left_scan] = pre \o (piece \o chars[i - 1])
    <3>1. chars[left_scan] = pre \o chars[i] /\ chars[i] = piece \o chars[i - 1]
      BY <1>1, <1>2
    <3> QED BY <3>1
  <2> QED BY <2>2, <2>3, <2>4
<1>5. Len(pre) \in Nat /\ Len(piece) \in {1, 2}
  BY DEF Piece
<1>6. DOMAIN digit = 0..(MAX_DIGIT_POSITION - 1) /\ DOMAIN pointed = 0..(MAX_DIGIT_POSITION - 1) /\ next \in Nat
  BY DEF Put
<1>7. CASE at < MAX_DIGIT_POSITION
  <2>1. Len(pre) = at
    BY <1>1, <1>7
  <2>2. next = at + Len(piece)
    BY <1>7 DEF Piece
  <2>3. ASSUME NEW p \in 0..(MAX_DIGIT_POSITION - 1), p < next PROVE pointed[p] = pre2[p + 1]
    <3>1. CASE p < at
      <4>1. pointed[p] = segs[p]
        BY <3>1, MaxPosition DEF Put
      <4>2. pre2[p + 1] = pre[p + 1]
        BY <1>3, <1>5, <2>1, <3>1
      <4> QED BY <1>1, <3>1, <4>1, <4>2
    <3>2. CASE p = at
      <4>1. pre2[p + 1] = piece[1]
        BY <1>3, <1>5, <2>1, <3>2
      <4>2. pointed[p] = IF lit THEN Glyph(A[i], i) ELSE Blank
        BY <1>7, <3>2 DEF Put
      <4> QED BY <1>7, <4>1, <4>2 DEF Piece
    <3>3. CASE p > at
      <4>1. point /\ p = at + 1
        BY <3>3, <2>3
      <4>2. pre2[p + 1] = piece[2]
        <5>1. Len(piece) = 2
          BY <4>1 DEF Piece
        <5>2. p + 1 = Len(pre) + 2 /\ Len(pre) + 2 \in 1..(Len(pre) + 2)
          BY <1>5, <2>1, <4>1
        <5> HIDE DEF pre2, piece
        <5>3. pre2[Len(pre) + 2] = piece[(Len(pre) + 2) - Len(pre)]
          BY <1>3, <1>5, <5>1, <5>2
        <5> QED BY <1>5, <5>2, <5>3
      <4>3. pointed[p] = Point
        BY <1>6, <4>1, MaxPosition DEF Put
      <4> QED BY <4>1, <4>2, <4>3 DEF Piece
    <3>4. p < at \/ p = at \/ p > at
      OBVIOUS
    <3> HIDE DEF pointed, pre2
    <3> QED BY <3>1, <3>2, <3>3, <3>4
  <2>4. IF next < MAX_DIGIT_POSITION THEN Len(pre2) = next ELSE Len(pre2) >= MAX_DIGIT_POSITION
    BY <1>3, <1>6, <2>1, <2>2, MaxPosition
  <2> HIDE DEF pointed, next, pre2, chars
  <2>5. ShowsRow(A, B, on, i - 1, next, pointed)
    BY <1>3, <1>4, <2>3, <2>4 DEF ShowsRow, chars
  <2> QED BY <1>6, <2>5 DEF pointed, next
<1>8. CASE ~(at < MAX_DIGIT_POSITION)
  <2>1. Len(pre) >= MAX_DIGIT_POSITION
    BY <1>1, <1>8
  <2>2. pointed = segs /\ next = at + 1
    BY <1>8 DEF Put
  <2>3. ASSUME NEW p \in 0..(MAX_DIGIT_POSITION - 1) PROVE pointed[p] = pre2[p + 1]
    <3>1. p < at /\ p + 1 <= Len(pre) /\ p + 1 >= 1
      BY <1>5, <1>8, <2>1, MaxPosition
    <3>2. pre2[p + 1] = pre[p + 1]
      BY <1>3, <1>5, <3>1
    <3> QED BY <1>1, <2>2, <3>1, <3>2
  <2>4. ~(next < MAX_DIGIT_POSITION) /\ Len(pre2) >= MAX_DIGIT_POSITION
    BY <1>3, <1>5, <1>8, <2>1, <2>2, MaxPosition
  <2> HIDE DEF pointed, next, pre2, chars
  <2>5. ShowsRow(A, B, on, i - 1, next, pointed)
    BY <1>3, <1>4, <2>3, <2>4 DEF ShowsRow, chars
  <2> QED BY <1>6, <2>5 DEF pointed, next
<1> QED BY <1>7, <1>8

(* An instruction and its events leave the position of the scan alone. *)
At(c) == <<c.display_scan_position, c.display_digit_position>>

LEMMA ExecuteKeepsScan ==
  ASSUME NEW c, DOMAIN c = CFields, NEW w
  PROVE  At(classic_execute(c, w)) = At(c)
<1> DEFINE op == ClassicOp(w)
           n == w \div 64
           c1 == ClassicFirst(c)
           c2 == classic_flow(c1, op, n, w \div 4)
           c3 == classic_status(c2, op, n)
           c4 == classic_data(c3, op, n)
<1> USE DEF At, CFields
<1>1. DOMAIN c1 = CFields /\ At(c1) = At(c)
  BY DEF ClassicFirst
<1> HIDE DEF c1, op, n
<1>2. DOMAIN c2 = CFields /\ At(c2) = At(c)
  BY <1>1 DEF classic_flow
<1> HIDE DEF c2
<1>3. DOMAIN c3 = CFields /\ At(c3) = At(c)
  BY <1>2 DEF classic_status
<1> HIDE DEF c3
<1>4. DOMAIN c4 = CFields /\ At(c4) = At(c)
  BY <1>3 DEF classic_data
<1>5. ASSUME NEW field PROVE DOMAIN ClassicArith(c1, w \div 32, field) = CFields /\ At(ClassicArith(c1, w \div 32, field)) = At(c)
  BY <1>1 DEF ClassicArith, Left
<1>6. DOMAIN op_fcn(c1, w, op, n) = CFields /\ At(op_fcn(c1, w, op, n)) = At(c)
  <2> HIDE DEF At, CFields
  <2>1. CASE op = "op_arith"
    BY <2>1, <1>5 DEF op_fcn
  <2>2. CASE op # "op_arith"
    BY <2>2, <1>4 DEF op_fcn, c4, c3, c2
  <2> QED BY <2>1, <2>2
<1> QED BY <1>6 DEF classic_execute, op, n, c1

Positions == 0..(MAX_DIGIT_POSITION - 1)

(* A digit is scanned: what is shown goes on to be; at the end it is the   *)
(* frame.                                                                  *)
LEMMA ScanShows ==
  ASSUME NEW c, DOMAIN c = CFields, NEW segs, DOMAIN segs = Positions, segs = [p \in Positions |-> segs[p]],
         c.display_scan_position \in Digits, c.display_digit_position \in Nat, Shows(c, segs)
  PROVE  LET scanned == classic_display_scan(c, segs)
         IN  /\ c.display_scan_position # right_scan => Shows(scanned.c, scanned.segments)
             /\ c.display_scan_position = right_scan => scanned.segments = Frame(scanned.c)
<1> DEFINE A == c.reg["a"]
           B == c.reg["b"]
           on == c.display_enable
           i == c.display_scan_position
           at == c.display_digit_position
           lit == on /\ B[i] <= 7 /\ at < MAX_DIGIT_POSITION
           point == lit /\ B[i] = 2
           digit == Put(segs, at, IF lit THEN Glyph(A[i], i) ELSE Blank)
           pointed == IF point THEN Put(digit, at + 1, Point) ELSE digit
           next == at + (IF point THEN 2 ELSE 1)
           ends == i - 1 < right_scan
           c1 == [c EXCEPT !.display_scan_position = IF ends THEN left_scan ELSE i - 1,
                           !.display_digit_position = IF ends THEN 0 ELSE next]
           segs1 == [p \in DOMAIN digit |-> IF ends /\ p >= next THEN Blank ELSE pointed[p]]
<1>1. classic_display_scan(c, segs) = [c |-> c1, segments |-> segs1]
  BY DEF classic_display_scan
<1>2. ShowsRow(A, B, on, i, at, segs)
  BY DEF Shows
<1>3. /\ ShowsRow(A, B, on, i - 1, next, pointed)
      /\ DOMAIN pointed = Positions
      /\ next \in Nat
  <2> HIDE DEF A, B, on
  <2> QED BY <1>2, PieceShown DEF Positions
<1>4. DOMAIN digit = Positions
  BY DEF Put
<1>5. ends <=> i = right_scan
  <2>1. i \in Nat
    BY LeftScan
  <2> QED BY <2>1 DEF right_scan
<1>6. c1.reg = c.reg /\ c1.display_enable = on
  BY DEF CFields
<1>7. ~ends => c1.display_scan_position = i - 1 /\ c1.display_digit_position = next
  BY DEF CFields
<1> HIDE DEF A, B, on, i, at, next, pointed, digit
<1>8. CASE i # right_scan
  <2>1. segs1 = pointed
    <3>1. segs1 = [p \in Positions |-> pointed[p]] /\ DOMAIN segs1 = Positions
      BY <1>4, <1>5, <1>8
    <3>2. pointed = [p \in Positions |-> pointed[p]]
      <4>1. digit = [p \in Positions |-> digit[p]]
        BY DEF digit, Put
      <4>2. \A q, x : Put(digit, q, x) = [p \in Positions |-> Put(digit, q, x)[p]]
        BY <4>1, <1>4 DEF Put
      <4> QED BY <4>1, <4>2 DEF pointed
    <3> QED BY <3>1, <3>2
  <2>2. Shows(c1, segs1)
    BY <1>3, <1>5, <1>6, <1>7, <1>8, <2>1 DEF Shows, A, B, on
  <2> QED BY <1>1, <1>8, <2>2 DEF i
<1>9. CASE i = right_scan
  <2> DEFINE chars == Chars(A, B, on)
             all == chars[left_scan]
  <2>1. PICK pre \in Seq(Marks(A)) :
          /\ chars[left_scan] = pre \o chars[i - 1]
          /\ IF next < MAX_DIGIT_POSITION THEN Len(pre) = next ELSE Len(pre) >= MAX_DIGIT_POSITION
          /\ \A p \in 0..(MAX_DIGIT_POSITION - 1) : p < next => pointed[p] = pre[p + 1]
    BY <1>3 DEF ShowsRow
  <2>2. chars[i - 1] = <<>>
    BY <1>9, CharsAre DEF right_scan
  <2>3. all = pre
    <3> HIDE DEF chars
    <3> QED BY <2>1, <2>2
  <2>4. Frame(c1) = [p \in Positions |-> IF p < Len(pre) THEN pre[p + 1] ELSE Blank]
    <3>1. RowOf(c1) = chars
      BY <1>6 DEF RowOf, A, B, on
    <3> HIDE DEF chars, c1
    <3> QED BY <3>1, <2>3, FrameIs DEF Positions
  <2>5. ASSUME NEW p \in Positions
        PROVE  (IF ends /\ p >= next THEN Blank ELSE pointed[p]) = IF p < Len(pre) THEN pre[p + 1] ELSE Blank
    <3>1. ends /\ p \in Nat /\ p < MAX_DIGIT_POSITION /\ Len(pre) \in Nat
      BY <1>5, <1>9, MaxPosition DEF Positions
    <3>2. CASE p >= next
      BY <3>1, <3>2, <2>1, <1>3, MaxPosition
    <3>3. CASE p < next
      <4>1. pointed[p] = pre[p + 1]
        BY <3>3, <2>1 DEF Positions
      <4>2. p < Len(pre)
        BY <3>1, <3>3, <2>1, <1>3, MaxPosition
      <4> HIDE DEF ends
      <4> QED BY <3>1, <3>3, <4>1, <4>2, <1>3
    <3> QED BY <3>1, <3>2, <3>3, <1>3
  <2> HIDE DEF ends
  <2>6. segs1 = [p \in Positions |-> IF p < Len(pre) THEN pre[p + 1] ELSE Blank]
    BY <1>4, <2>5
  <2> QED BY <1>1, <1>9, <2>4, <2>6 DEF i
<1> QED BY <1>8, <1>9

(* A scan begins. *)
LEMMA ScanBegins ==
  ASSUME NEW A, NEW B, NEW on, NEW segs
  PROVE  ShowsRow(A, B, on, left_scan, 0, segs)
<1> DEFINE chars == Chars(A, B, on)
<1>1. chars[left_scan] \in Seq(Marks(A))
  <2>1. left_scan \in -1..left_scan
    BY LeftScan
  <2>2. chars \in [-1..left_scan -> Seq(Marks(A))]
    BY CharsAre
  <2> QED BY <2>1, <2>2
<1> HIDE DEF chars
<1>2. <<>> \in Seq(Marks(A)) /\ <<>> \o chars[left_scan] = chars[left_scan] /\ Len(<<>>) = 0
  BY <1>1, ConcatEmptySeq, EmptySeq
<1>3. \A p \in 0..(MAX_DIGIT_POSITION - 1) : ~(p < 0)
  BY MaxPosition
<1> SUFFICES \E pre \in Seq(Marks(A)) :
               /\ chars[left_scan] = pre \o chars[left_scan]
               /\ IF 0 < MAX_DIGIT_POSITION THEN Len(pre) = 0 ELSE Len(pre) >= MAX_DIGIT_POSITION
               /\ \A p \in 0..(MAX_DIGIT_POSITION - 1) : p < 0 => segs[p] = pre[p + 1]
  BY DEF ShowsRow, chars
<1> WITNESS <<>> \in Seq(Marks(A))
<1> QED BY <1>2, <1>3, MaxPosition

(* Where the scan goes, whatever it shows *)
LEMMA ScanMoves ==
  ASSUME NEW c, DOMAIN c = CFields, NEW segs, DOMAIN segs = Positions, c.display_digit_position \in Nat
  PROVE  LET scanned == classic_display_scan(c, segs)
             i == c.display_scan_position
         IN  /\ DOMAIN scanned.segments = Positions
             /\ scanned.segments = [p \in Positions |-> scanned.segments[p]]
             /\ scanned.c.display_scan_position = IF i - 1 < right_scan THEN left_scan ELSE i - 1
             /\ scanned.c.display_digit_position \in Nat
             /\ i - 1 < right_scan => scanned.c.display_digit_position = 0
<1> DEFINE A == c.reg["a"]
           B == c.reg["b"]
           i == c.display_scan_position
           at == c.display_digit_position
           lit == c.display_enable /\ B[i] <= 7 /\ at < MAX_DIGIT_POSITION
           point == lit /\ B[i] = 2
           digit == Put(segs, at, IF lit THEN Glyph(A[i], i) ELSE Blank)
           pointed == IF point THEN Put(digit, at + 1, Point) ELSE digit
           next == at + (IF point THEN 2 ELSE 1)
           ends == i - 1 < right_scan
           c1 == [c EXCEPT !.display_scan_position = IF ends THEN left_scan ELSE i - 1,
                           !.display_digit_position = IF ends THEN 0 ELSE next]
           segs1 == [p \in DOMAIN digit |-> IF ends /\ p >= next THEN Blank ELSE pointed[p]]
<1>1. classic_display_scan(c, segs) = [c |-> c1, segments |-> segs1]
  BY DEF classic_display_scan
<1>2. DOMAIN digit = Positions
  BY DEF Put
<1>3. next \in Nat
  OBVIOUS
<1> HIDE DEF digit, pointed, next, ends
<1>4. DOMAIN segs1 = Positions /\ segs1 = [p \in Positions |-> segs1[p]]
  BY <1>2
<1>5. c1.display_scan_position = (IF ends THEN left_scan ELSE i - 1) /\ c1.display_digit_position = IF ends THEN 0 ELSE next
  BY DEF CFields
<1> HIDE DEF c1, segs1
<1> QED BY <1>1, <1>3, <1>4, <1>5 DEF ends

(* The invariant *)
ScanInv ==
  /\ ClassicFields
  /\ DOMAIN segments = Positions /\ segments = [p \in Positions |-> segments[p]]
  /\ cl.display_scan_position \in Digits /\ cl.display_digit_position \in Nat
  /\ cl.display_scan_position = left_scan => cl.display_digit_position = 0
  /\ steady \in BOOLEAN
  /\ steady => Shows(cl, segments)

(* The scan of one cycle, for either of what follows *)
LEMMA CycleScans ==
  ASSUME ScanInv, NEW w
  PROVE  LET c == classic_execute(cl, w)
             scanned == classic_display_scan(c, segments)
             st == FrameBegins(c) \/ (steady /\ Displayed(c) = Displayed(cl))
         IN  /\ At(c) = At(cl) /\ DOMAIN c = CFields
             /\ st => Shows(c, segments)
<1> DEFINE c == classic_execute(cl, w)
<1>1. At(c) = At(cl) /\ DOMAIN c = CFields
  BY ExecuteKeepsScan, FieldsStay DEF ScanInv, ClassicFields
<1> SUFFICES FrameBegins(c) \/ (steady /\ Displayed(c) = Displayed(cl)) => Shows(c, segments)
  BY <1>1
<1> HIDE DEF c
<1>2. c.display_scan_position = cl.display_scan_position /\ c.display_digit_position = cl.display_digit_position
  BY <1>1 DEF At
<1>3. CASE FrameBegins(c)
  BY <1>2, <1>3, ScanBegins DEF FrameBegins, ScanInv, Shows
<1>4. CASE steady /\ Displayed(c) = Displayed(cl)
  BY <1>2, <1>4 DEF Displayed, ScanInv, Shows
<1> QED BY <1>3, <1>4

LEMMA EventShows ==
  ASSUME ScanInv, NEW c, At(c) = At(cl), ClassicFields', ClassicEvent(c)
  PROVE  ScanInv'
<1>1. c.display_scan_position = cl.display_scan_position /\ c.display_digit_position = cl.display_digit_position
  BY DEF At
<1>2. cl' = c /\ steady' = (steady /\ Displayed(c) = Displayed(cl)) /\ segments' = segments
  BY DEF ClassicEvent
<1>3. steady' => Shows(c, segments)
  BY <1>1, <1>2 DEF Displayed, ScanInv, Shows
<1> QED BY <1>1, <1>2, <1>3 DEF ScanInv

(* The invariant of the Classic is inductive. *)
LEMMA ScanStays == ScanInv /\ [ClassicNext]_clvars => ScanInv'
<1> SUFFICES ASSUME ScanInv, [ClassicNext]_clvars PROVE ScanInv'
  OBVIOUS
<1>0. ClassicFields' /\ DOMAIN cl = CFields
  BY ClassicFieldsStay DEF ScanInv, ClassicFields
<1>1. CASE ClassicInstruction
  <2> PICK w \in session.words :
        LET c == classic_execute(cl, w)
            scanned == classic_display_scan(c, segments)
        IN  /\ cl' = scanned.c
            /\ segments' = scanned.segments
            /\ steady' = (FrameBegins(c) \/ (steady /\ Displayed(c) = Displayed(cl)))
    BY <1>1 DEF ClassicInstruction
  <2> DEFINE c == classic_execute(cl, w)
             scanned == classic_display_scan(c, segments)
             i == cl.display_scan_position
             at == cl.display_digit_position
  <2>1. cl' = scanned.c /\ segments' = scanned.segments
        /\ steady' = (FrameBegins(c) \/ (steady /\ Displayed(c) = Displayed(cl)))
    OBVIOUS
  <2>2. At(c) = At(cl) /\ DOMAIN c = CFields /\ (steady' => Shows(c, segments))
    BY CycleScans
  <2> HIDE DEF c
  <2>3. c.display_scan_position = i /\ c.display_digit_position = at /\ i \in Digits /\ at \in Nat
        /\ DOMAIN segments = Positions /\ segments = [p \in Positions |-> segments[p]]
    BY <2>2 DEF At, ScanInv
  <2>4. /\ DOMAIN scanned.segments = Positions
        /\ scanned.segments = [p \in Positions |-> scanned.segments[p]]
        /\ scanned.c.display_scan_position = IF i - 1 < right_scan THEN left_scan ELSE i - 1
        /\ scanned.c.display_digit_position \in Nat
        /\ i - 1 < right_scan => scanned.c.display_digit_position = 0
    BY <2>2, <2>3, ScanMoves
  <2>5. steady' => Shows(scanned.c, scanned.segments)
    <3>1. CASE i # right_scan
      BY <2>2, <2>3, <3>1, ScanShows
    <3>2. CASE i = right_scan
      <4>1. scanned.c.display_scan_position = left_scan /\ scanned.c.display_digit_position = 0
        BY <2>4, <3>2 DEF right_scan
      <4> HIDE DEF scanned
      <4> QED BY <4>1, ScanBegins DEF Shows
    <3> QED BY <3>1, <3>2
  <2> HIDE DEF scanned
  <2>6. cl'.display_scan_position \in Digits /\ (cl'.display_scan_position = left_scan => cl'.display_digit_position = 0)
    <3>1. i \in 0..left_scan /\ left_scan \in Nat
      BY <2>3, LeftScan
    <3> HIDE DEF i
    <3> QED BY <3>1, <2>1, <2>4, LeftScan DEF right_scan
  <2>7. steady' \in BOOLEAN
    BY <2>1
  <2> QED BY <1>0, <2>1, <2>4, <2>5, <2>6, <2>7 DEF ScanInv
<1>2. CASE event_key
  <2>1. \A k : At([cl EXCEPT !.key_buf = k, !.key_flag = TRUE]) = At(cl) /\ At([cl EXCEPT !.key_flag = FALSE]) = At(cl)
    BY <1>0 DEF At, CFields
  <2> QED BY <1>0, <1>2, <2>1, EventShows DEF event_key
<1>3. CASE event_set_flag
  <2>1. \A f : At([cl EXCEPT !.ext_flag = f]) = At(cl)
    BY <1>0 DEF At, CFields
  <2>2. PICK f : ClassicEvent([cl EXCEPT !.ext_flag = f])
    <3>1. PICK flag \in session.flags, on \in BOOLEAN :
            ClassicEvent([cl EXCEPT !.ext_flag = IF on THEN @ \cup {flag} ELSE @ \ {flag}])
      BY <1>3 DEF event_set_flag
    <3> QED BY <3>1
  <2> QED BY <1>0, <2>1, <2>2, EventShows
<1>4. CASE classic_clear_memory
  <2>1. At([cl EXCEPT !.ram = [a \in DOMAIN @ |-> NULL]]) = At(cl)
    BY <1>0 DEF At, CFields
  <2> QED BY <1>0, <1>4, <2>1, EventShows DEF classic_clear_memory
<1>5. CASE classic_reset
  <2>1. cl'.display_scan_position = left_scan /\ cl'.display_digit_position = 0 /\ segments' = segments /\ steady' = TRUE
    BY <1>5 DEF classic_reset, FreshClassic
  <2>2. Shows(cl', segments')
    BY <2>1, ScanBegins DEF Shows
  <2>3. left_scan \in Digits
    BY LeftScan
  <2> QED BY <1>0, <2>1, <2>2, <2>3 DEF ScanInv
<1>6. CASE classic_read
  <2>1. PICK file \in session.files : ClassicEvent(FromFile(cl, file))
    BY <1>6 DEF classic_read
  <2>2. DOMAIN file = classic_cpu_reg_detail
    BY ClassicFileAssumption DEF ScanInv, ClassicFields
  <2>3. At(FromFile(cl, file)) = At(cl)
    BY <1>0, <2>2 DEF FromFile, Over, At, CFields, classic_cpu_reg_detail
  <2> QED BY <1>0, <2>1, <2>3, EventShows
<1>7. CASE UNCHANGED clvars
  BY <1>0, <1>7 DEF clvars, ScanInv, Shows
<1> QED BY <1>1, <1>2, <1>3, <1>4, <1>5, <1>6, <1>7 DEF ClassicNext

(* A Classic that was just made has drawn nothing of its scan. *)
LEMMA ScanInit == ClassicInit => ScanInv
<1> SUFFICES ASSUME ClassicInit PROVE ScanInv
  OBVIOUS
<1>1. ClassicFields /\ cl.display_scan_position = left_scan /\ cl.display_digit_position = 0
  BY DEF ClassicInit, ClassicFields, FreshClassic, CFields
<1>2. DOMAIN segments = Positions /\ segments = [p \in Positions |-> segments[p]] /\ steady = TRUE
  BY DEF ClassicInit, FrameOf, Positions
<1>3. Shows(cl, segments)
  BY <1>1, ScanBegins DEF Shows
<1>4. left_scan \in Digits
  BY LeftScan
<1> QED BY <1>1, <1>2, <1>3, <1>4 DEF ScanInv

(* The action *)
LEMMA FrameShown ==
  ASSUME ScanInv, ClassicInstruction, cl.display_scan_position = right_scan, steady' = TRUE
  PROVE  segments' = Frame(cl')
<1> PICK w \in session.words :
      LET c == classic_execute(cl, w)
          scanned == classic_display_scan(c, segments)
      IN  /\ cl' = scanned.c
          /\ segments' = scanned.segments
          /\ steady' = (FrameBegins(c) \/ (steady /\ Displayed(c) = Displayed(cl)))
  BY DEF ClassicInstruction
<1> DEFINE c == classic_execute(cl, w)
           scanned == classic_display_scan(c, segments)
<1>1. cl' = scanned.c /\ segments' = scanned.segments
      /\ steady' = (FrameBegins(c) \/ (steady /\ Displayed(c) = Displayed(cl)))
  OBVIOUS
<1>2. At(c) = At(cl) /\ DOMAIN c = CFields /\ (steady' => Shows(c, segments))
  BY CycleScans
<1> HIDE DEF c
<1>3. c.display_scan_position = right_scan /\ c.display_scan_position \in Digits /\ c.display_digit_position \in Nat
      /\ DOMAIN segments = Positions /\ segments = [p \in Positions |-> segments[p]]
  BY <1>2 DEF At, ScanInv
<1>4. scanned.segments = Frame(scanned.c)
  BY <1>2, <1>3, ScanShows
<1> QED BY <1>1, <1>4

-----------------------------------------------------------------------------
(***************************************************************************)
(* The ACT: two processors that have the same in every register that a     *)
(* file has leave the same after an instruction.                           *)
(***************************************************************************)
ActAll ==
  {"reg", "f", "p", "incremented", "decimal", "carry", "then_goto", "s", "ext_flag", "scanner", "scanner_s0",
   "key_flag", "key_buf", "display_enable", "display_14_digit", "left_scan", "right_scan", "scan_position",
   "digit_position", "ram_addr", "ram"}

ActKept == ActFields \cup {"key_flag", "scanner", "scanner_s0"}
ActSame(c, e) == DOMAIN c = ActAll /\ DOMAIN e = ActAll /\ \A x \in ActKept : c[x] = e[x]

LEMMA ActKeptIs ==
  /\ ActKept \subseteq ActAll
  /\ ActKept = {"reg", "p", "f", "decimal", "carry", "s", "ext_flag", "display_enable", "display_14_digit", "ram_addr",
                "ram", "key_flag", "scanner", "scanner_s0"}
BY DEF ActKept, ActAll, ActFields

LEMMA ActSameParts ==
  ASSUME NEW c, NEW e, ActSame(c, e)
  PROVE  /\ c.reg = e.reg /\ c.p = e.p /\ c.f = e.f /\ c.decimal = e.decimal /\ c.s = e.s /\ c.ext_flag = e.ext_flag
         /\ c.display_enable = e.display_enable /\ c.ram_addr = e.ram_addr /\ c.ram = e.ram
         /\ c.key_flag = e.key_flag /\ c.scanner = e.scanner /\ c.scanner_s0 = e.scanner_s0
BY ActKeptIs DEF ActSame

LEMMA LeftBySame ==
  ASSUME NEW c, NEW e, ActSame(c, e), NEW op, NEW done
  PROVE  ActSame(LeftBy(c, op, done), LeftBy(e, op, done))
BY ActKeptIs DEF LeftBy, ActSame

LEMMA ActArithSame ==
  ASSUME NEW c, NEW e, ActSame(c, e), NEW op, NEW field
  PROVE  ActSame(act_arith(c, op, field), act_arith(e, op, field))
<1>1. c.reg = e.reg /\ c.decimal = e.decimal
  BY ActSameParts
<1> DEFINE done(x) == Arith!Execute(Arith!woodstock_op_arith[op + 1], x.reg, field[1], field[2],
                                    IF x.decimal THEN DEC ELSE HEX)
<1>2. done(c) = done(e)
  BY <1>1
<1>3. act_arith(c, op, field) = LeftBy(c, op, done(c)) /\ act_arith(e, op, field) = LeftBy(e, op, done(e))
  BY DEF act_arith
<1> HIDE DEF done
<1>4. ActSame(LeftBy(c, op, done(c)), LeftBy(e, op, done(c)))
  BY LeftBySame
<1> QED BY <1>2, <1>3, <1>4

LEMMA TestsSame ==
  ASSUME NEW c, NEW e, ActSame(c, e), ~c.incremented[2], ~e.incremented[2], NEW op \in Tests, NEW n
  PROVE  ActSame(act_tests(c, op, n), act_tests(e, op, n))
<1>1. \A val : TestP(c, val) = TestP(e, val)
  BY ActSameParts DEF TestP
<1> DEFINE C == CASE op = "op_test_s_eq_0" -> n \in c.s
                        [] op = "op_test_s_eq_1" -> n \notin c.s
                        [] op = "op_test_p_eq"   -> TestP(c, PTestMap[n + 1])
                        [] op = "op_test_p_ne"   -> ~TestP(c, PTestMap[n + 1])
           E == CASE op = "op_test_s_eq_0" -> n \in e.s
                        [] op = "op_test_s_eq_1" -> n \notin e.s
                        [] op = "op_test_p_eq"   -> TestP(e, PTestMap[n + 1])
                        [] op = "op_test_p_ne"   -> ~TestP(e, PTestMap[n + 1])
<1>2. C = E
  BY <1>1, ActSameParts
<1>3. act_tests(c, op, n) = [c EXCEPT !.then_goto = TRUE, !.carry = C]
      /\ act_tests(e, op, n) = [e EXCEPT !.then_goto = TRUE, !.carry = E]
  BY DEF act_tests
<1> HIDE DEF C, E
<1>4. ActSame([c EXCEPT !.then_goto = TRUE, !.carry = C], [e EXCEPT !.then_goto = TRUE, !.carry = C])
  BY ActKeptIs DEF ActSame
<1> QED BY <1>2, <1>3, <1>4

LEMMA PointerSame ==
  ASSUME NEW c, NEW e, ActSame(c, e), NEW op, NEW n
  PROVE  ActSame(act_pointer(c, op, n), act_pointer(e, op, n))
<1>1. c.reg = e.reg /\ c.p = e.p /\ DownP(c) = DownP(e)
  BY ActSameParts DEF DownP
<1>2. CASE op = "op_inc_p"
  BY <1>1, <1>2, ActKeptIs DEF ActSame, act_pointer
<1>3. CASE op = "op_dec_p"
  BY <1>1, <1>3, ActKeptIs DEF ActSame, act_pointer
<1>4. CASE op = "op_set_p"
  BY <1>1, <1>4, ActKeptIs DEF ActSame, act_pointer
<1>5. CASE op = "op_load_constant"
  BY <1>1, <1>5, ActKeptIs DEF ActSame, act_pointer
<1>6. CASE op = "op_binary"
  BY <1>1, <1>6, ActKeptIs DEF ActSame, act_pointer
<1>7. CASE op = "op_decimal"
  BY <1>1, <1>7, ActKeptIs DEF ActSame, act_pointer
<1>8. CASE op \notin {"op_inc_p", "op_dec_p", "op_set_p", "op_load_constant", "op_binary", "op_decimal"}
  BY <1>8 DEF act_pointer
<1> QED BY <1>2, <1>3, <1>4, <1>5, <1>6, <1>7, <1>8

LEMMA ActStatusSame ==
  ASSUME NEW c, NEW e, ActSame(c, e), NEW op, NEW n, op # "op_keys_to_a"
  PROVE  ActSame(act_status(c, op, n), act_status(e, op, n))
<1>1. c.s = e.s
  BY ActSameParts
<1>2. CASE op = "op_clear_s"
  BY <1>1, <1>2, ActKeptIs DEF ActSame, act_status
<1>3. CASE op = "op_set_s" /\ n < ACT_SSIZE
  BY <1>1, <1>3, ActKeptIs DEF ActSame, act_status
<1>4. CASE op = "op_clr_s" /\ n < ACT_SSIZE
  BY <1>1, <1>4, ActKeptIs DEF ActSame, act_status
<1>5. CASE op # "op_clear_s" /\ ~(op = "op_set_s" /\ n < ACT_SSIZE) /\ ~(op = "op_clr_s" /\ n < ACT_SSIZE)
  BY <1>5 DEF act_status
<1> QED BY <1>2, <1>3, <1>4, <1>5

LEMMA RegistersSame ==
  ASSUME NEW c, NEW e, ActSame(c, e), NEW op
  PROVE  ActSame(act_registers(c, op), act_registers(e, op))
<1>1. c.reg = e.reg /\ c.f = e.f
  BY ActSameParts
<1>2. CASE op = "op_clear_reg"
  BY <1>1, <1>2, ActKeptIs DEF ActSame, act_registers
<1>3. CASE op = "op_f_to_a"
  BY <1>1, <1>3, ActKeptIs DEF ActSame, act_registers
<1>4. CASE op = "op_f_exch_a"
  BY <1>1, <1>4, ActKeptIs DEF ActSame, act_registers
<1>5. CASE op = "op_circulate_a_left"
  BY <1>1, <1>5, ActKeptIs DEF ActSame, act_registers
<1>6. CASE op \notin {"op_clear_reg", "op_f_to_a", "op_f_exch_a", "op_circulate_a_left"}
  BY <1>1, <1>6, ActKeptIs DEF ActSame, act_registers
<1> QED BY <1>2, <1>3, <1>4, <1>5, <1>6

LEMMA WriteSame ==
  ASSUME NEW c, NEW e, ActSame(c, e) PROVE ActSame(ActWrite(c), ActWrite(e))
BY ActSameParts, ActKeptIs DEF ActSame, ActWrite

LEMMA ReadSame ==
  ASSUME NEW c, NEW e, ActSame(c, e) PROVE ActSame(ActRead(c), ActRead(e))
BY ActSameParts, ActKeptIs DEF ActSame, ActRead

LEMMA RamSame ==
  ASSUME NEW c, NEW e, ActSame(c, e), NEW op, NEW n
  PROVE  ActSame(act_ram(c, op, n), act_ram(e, op, n))
<1> DEFINE C == [c EXCEPT !.ram_addr = Block(@) + n]
           E == [e EXCEPT !.ram_addr = Block(@) + n]
<1>1. c.reg = e.reg /\ c.ram_addr = e.ram_addr /\ c.ram = e.ram
  BY ActSameParts
<1>2. ActSame(C, E)
  BY <1>1, ActKeptIs DEF ActSame
<1>3. CASE op = "op_c_to_addr"
  BY <1>1, <1>3, ActKeptIs DEF ActSame, act_ram
<1>4. CASE op = "op_c_to_data"
  BY <1>4, WriteSame DEF act_ram
<1>5. CASE op = "op_data_to_c"
  BY <1>5, ReadSame DEF act_ram
<1>6. CASE op = "op_c_to_register"
  <2>1. act_ram(c, op, n) = ActWrite(C) /\ act_ram(e, op, n) = ActWrite(E)
    BY <1>6 DEF act_ram
  <2> QED BY <1>2, <2>1, WriteSame
<1>7. CASE op = "op_register_to_c"
  <2>1. act_ram(c, op, n) = ActRead(C) /\ act_ram(e, op, n) = ActRead(E)
    BY <1>7 DEF act_ram
  <2> QED BY <1>2, <2>1, ReadSame
<1>8. CASE op = "op_clear_data_regs"
  BY <1>1, <1>8, ActKeptIs DEF ActSame, act_ram
<1>9. CASE op \notin {"op_c_to_addr", "op_c_to_data", "op_data_to_c", "op_c_to_register", "op_register_to_c",
                      "op_clear_data_regs"}
  BY <1>9 DEF act_ram
<1> QED BY <1>3, <1>4, <1>5, <1>6, <1>7, <1>8, <1>9

LEMMA DisplaySame ==
  ASSUME NEW c, NEW e, ActSame(c, e), NEW op
  PROVE  ActSame(act_display(c, op), act_display(e, op))
<1>1. c.display_enable = e.display_enable
  BY ActSameParts
<1>2. CASE op = "op_display_off"
  BY <1>1, <1>2, ActKeptIs DEF ActSame, act_display
<1>3. CASE op = "op_display_toggle"
  BY <1>1, <1>3, ActKeptIs DEF ActSame, act_display
<1>4. CASE op = "op_display_reset_twf"
  BY <1>1, <1>4, ActKeptIs DEF ActSame, act_display, display_setup
<1>5. CASE op \notin {"op_display_off", "op_display_toggle", "op_display_reset_twf"}
  BY <1>5 DEF act_display
<1> QED BY <1>2, <1>3, <1>4, <1>5

LEMMA OpSame ==
  ASSUME NEW c, NEW e, ActSame(c, e), ~c.incremented[2], ~e.incremented[2], NEW w, NEW op, op # "op_keys_to_a", NEW n
  PROVE  ActSame(act_op_fcn(c, w, op, n), act_op_fcn(e, w, op, n))
<1>1. CASE op = "op_arith"
  <2>1. act_op_fcn(c, w, op, n) = act_arith(c, w \div 32, Arith!woodstock_field(c.p)[((w \div 4) % 8) + 1])
        /\ act_op_fcn(e, w, op, n) = act_arith(e, w \div 32, Arith!woodstock_field(e.p)[((w \div 4) % 8) + 1])
    BY <1>1 DEF act_op_fcn, Tests
  <2>2. c.p = e.p
    BY ActSameParts
  <2> QED BY <2>1, <2>2, ActArithSame
<1>2. CASE op \in Tests
  <2>1. op # "op_arith"
    BY <1>2 DEF Tests
  <2> QED BY <1>2, <2>1, TestsSame DEF act_op_fcn
<1>3. CASE op # "op_arith" /\ op \notin Tests
  <2> DEFINE c1 == act_pointer(c, op, n)
             e1 == act_pointer(e, op, n)
             c2 == act_status(c1, op, n)
             e2 == act_status(e1, op, n)
             c3 == act_registers(c2, op)
             e3 == act_registers(e2, op)
             c4 == act_ram(c3, op, n)
             e4 == act_ram(e3, op, n)
  <2>1. act_op_fcn(c, w, op, n) = act_display(c4, op) /\ act_op_fcn(e, w, op, n) = act_display(e4, op)
    BY <1>3 DEF act_op_fcn
  <2>2. ActSame(c1, e1)
    BY PointerSame
  <2> HIDE DEF c1, e1
  <2>3. ActSame(c2, e2)
    BY <2>2, ActStatusSame
  <2> HIDE DEF c2, e2
  <2>4. ActSame(c3, e3)
    BY <2>3, RegistersSame
  <2> HIDE DEF c3, e3
  <2>5. ActSame(c4, e4)
    BY <2>4, RamSame
  <2> HIDE DEF c4, e4
  <2> QED BY <2>1, <2>5, DisplaySame
<1> QED BY <1>1, <1>2, <1>3

LEMMA KeysSame ==
  ASSUME NEW c, NEW e, ActSame(c, e)
  PROVE  ActSame(ActKeys(c), ActKeys(e))
<1>1. c.scanner = e.scanner /\ c.scanner_s0 = e.scanner_s0 /\ c.s = e.s
  BY ActSameParts
<1>2. ActSame(key_scan_flag(c), key_scan_flag(e))
  BY <1>1, ActKeptIs DEF ActSame, key_scan_flag
<1>3. ASSUME NEW x, NEW y, ActSame(x, y), NEW i, NEW j
      PROVE  ActSame([x EXCEPT !.incremented = i], [y EXCEPT !.incremented = j])
  BY <1>3, ActKeptIs DEF ActSame
<1>4. CASE setup.key_scanner_as_flags
  BY <1>2, <1>3, <1>4 DEF ActKeys
<1>5. CASE ~setup.key_scanner_as_flags
  BY <1>3, <1>5 DEF ActKeys
<1> QED BY <1>4, <1>5

LEMMA ShownSame ==
  ASSUME NEW c, NEW e, ActSame(c, e)
  PROVE  ActSame(ActShown(c), ActShown(e))
<1> DEFINE c1 == display_scan_advance(c, DigitAt(c))
           e1 == display_scan_advance(e, DigitAt(e))
<1>1. ActSame(c1, e1)
  BY ActKeptIs DEF ActSame, display_scan_advance
<1> HIDE DEF c1, e1
<1>2. c1.s = e1.s /\ c1.ext_flag = e1.ext_flag /\ c1.key_flag = e1.key_flag
  BY <1>1, ActSameParts
<1>3. \A flag, pulse, cond : Raised(c1, flag, pulse, cond) = Raised(e1, flag, pulse, cond)
  BY <1>2 DEF Raised
<1>4. ActSame(flags_to_status(c1), flags_to_status(e1))
  BY <1>1, <1>2, <1>3, ActKeptIs DEF ActSame, flags_to_status
<1> QED BY <1>4 DEF ActShown, c1, e1

LEMMA CycledSame ==
  ASSUME NEW c, NEW e, ActSame(c, e), ~c.then_goto, ~e.then_goto, ~c.incremented[1], ~e.incremented[1],
         NEW w, ActOp(w) # "op_keys_to_a"
  PROVE  ActSame(ActCycled(c, w), ActCycled(e, w))
<1> DEFINE c1 == ActFirst(c)
           e1 == ActFirst(e)
           c2 == act_op_fcn(c1, w, ActOp(w), w \div 64)
           e2 == act_op_fcn(e1, w, ActOp(w), w \div 64)
<1>1. ActSame(c1, e1) /\ ~c1.incremented[2] /\ ~e1.incremented[2]
  BY ActKeptIs DEF ActSame, ActFirst, ActAll
<1>2. Worked(c, w) = ActKeys(c2) /\ Worked(e, w) = ActKeys(e2)
  BY DEF Worked
<1> HIDE DEF c1, e1
<1>3. ActSame(c2, e2)
  BY <1>1, OpSame
<1> HIDE DEF c2, e2
<1>4. ActSame(Worked(c, w), Worked(e, w))
  BY <1>2, <1>3, KeysSame
<1> QED BY <1>4, ShownSame DEF ActCycled

ActShape == DOMAIN ad = ActAll /\ ad.key_flag \in BOOLEAN /\ setup \in ActSessions

(* What the file leaves out has no effect on the next instruction. *)
LEMMA ActRestored ==
  ASSUME ActShape PROVE ActGoesOn
<1> SUFFICES ASSUME ~ad.then_goto, ~ad.key_flag, ~ad.incremented[1], NEW w \in setup.words, ActOp(w) # "op_keys_to_a"
             PROVE  ToActFile(ActCycled(FromActFile(ActElsewhere, ToActFile(ad)), w)) = ToActFile(ActCycled(ad, w))
  BY DEF ActGoesOn
<1> DEFINE file == ToActFile(ad)
           e == FromActFile(ActElsewhere, file)
<1>1. DOMAIN ActElsewhere = ActAll /\ ActElsewhere.key_flag = FALSE /\ ActElsewhere.then_goto = FALSE
      /\ ActElsewhere.incremented[1] = FALSE /\ ActElsewhere.scanner = ad.scanner
      /\ ActElsewhere.scanner_s0 = ad.scanner_s0
  BY DEF ActElsewhere, NewAct, Cleared, display_setup, ActAll
<1>2. DOMAIN file = ActFields /\ \A x \in ActFields : file[x] = ad[x]
  BY DEF ToActFile
<1>3. DOMAIN e = ActAll /\ e.key_flag = FALSE /\ e.then_goto = FALSE /\ e.incremented[1] = FALSE
      /\ e.scanner = ad.scanner /\ e.scanner_s0 = ad.scanner_s0 /\ \A x \in ActFields : e[x] = ad[x]
  <2> HIDE DEF file
  <2> QED BY <1>1, <1>2 DEF FromActFile, display_setup, Over, ActAll, ActFields
<1> HIDE DEF e
<1>4. ActSame(ad, e)
  BY <1>3 DEF ActSame, ActKept, ActShape
<1>5. ActSame(ActCycled(ad, w), ActCycled(e, w))
  BY <1>3, <1>4, CycledSame
<1>6. \A x \in ActFields : ActCycled(ad, w)[x] = ActCycled(e, w)[x]
  BY <1>5 DEF ActSame, ActKept
<1> QED BY <1>6 DEF ToActFile, e

(* The shape of the record stays. *)
ActShaped(c) == DOMAIN c = ActAll /\ c.key_flag \in BOOLEAN

-----------------------------------------------------------------------------
(***************************************************************************)
(* The ACT's types: its arithmetic leaves digits in the registers.         *)
(***************************************************************************)
(* The registers of the ACT have digits. *)
RegFile == [ActRegs -> Register]

LEMMA NoDigits == Arith!NULL \in Register /\ NULL \in Register
BY DigitAssumption DEF Arith!NULL, NULL, Register, Digit, Digits, Arith!Digits

LEMMA DigitLeft ==
  ASSUME NEW sub \in BOOLEAN, NEW x \in Int, NEW y \in Int, NEW carry \in BOOLEAN, NEW base
  PROVE  Arith!digit_add_sub(sub, x, y, carry, base) \in [digit : Digit, carry : BOOLEAN]
<1> DEFINE s == x + (IF sub THEN HEX - 1 - y ELSE y) + (IF carry # sub THEN 1 ELSE 0)
           over == s > HEX - 1 \/ (base = DEC /\ ~sub /\ s > DEC - 1)
           correction == CASE base = DEC /\ sub /\ ~over -> DEC
                           [] base = DEC /\ ~sub /\ over -> HEX - DEC
                           [] OTHER                      -> 0
<1>1. HEX \in Nat \ {0} /\ DEC \in Nat
  BY DigitAssumption
<1>2. s \in Int /\ correction \in Int /\ over \in BOOLEAN
  BY <1>1
<1>3. Arith!digit_add_sub(sub, x, y, carry, base) = [digit |-> (s + correction) % HEX, carry |-> over # sub]
  BY DEF Arith!digit_add_sub
<1> HIDE DEF s, over, correction
<1>4. (s + correction) % HEX \in Digit
  BY <1>1, <1>2, DivMod DEF Digit
<1>5. (over # sub) \in BOOLEAN
  OBVIOUS
<1> QED BY <1>3, <1>4, <1>5

(* Every digit of a sum or a difference is one. *)
LEMMA RippleDigits ==
  ASSUME NEW sub \in BOOLEAN, NEW carry \in BOOLEAN, NEW f \in Int, NEW l \in Int, f <= l,
         NEW x, NEW y, \A i \in f..l : x[i] \in Int /\ y[i] \in Int, NEW base
  PROVE  \A i \in f..l : Arith!Ripple(sub, x, y, f, l, carry, base)[i].digit \in Digit
<1> DEFINE V == [digit : Digit, carry : BOOLEAN]
           Next1(i, c) == Arith!digit_add_sub(sub, x[i], y[i], c, base)
           Step == [i \in f..l |-> [v \in V |-> Next1(i, v.carry)]]
           a == Next1(f, carry)
<1>1. ASSUME NEW i \in f..l, NEW c \in BOOLEAN PROVE Next1(i, c) \in V
  BY DigitLeft
<1>2. \A v \in V : v.carry \in BOOLEAN /\ v.digit \in Digit
  OBVIOUS
<1>3. f \in f..l
  OBVIOUS
<1> HIDE DEF Next1, V
<1>4. a \in V
  BY <1>1, <1>3
<1>5. Step \in [f..l -> [V -> V]]
  BY <1>1, <1>2
<1>6. \A i \in f..l, v \in V : Step[i][v] = Next1(i, v.carry)
  OBVIOUS
<1> HIDE DEF Step, a
<1>7. PICK g : ByRecursion(g, f, l, V, a, Step)
  BY <1>4, <1>5, FunctionByRecursion
<1>8. g \in [f..l -> V] /\ g[f] = a /\ \A i \in f..l : i # f => g[i] = Step[i][g[i - 1]]
  BY <1>7 DEF ByRecursion
<1>9. ASSUME NEW i \in f..l, i # f PROVE g[i] = Next1(i, g[i - 1].carry)
  <2>1. i - 1 \in f..l
    BY <1>9
  <2>2. g[i - 1] \in V
    BY <1>8, <2>1
  <2> QED BY <1>6, <1>8, <1>9, <2>2
<1>10. g = [i \in f..l |-> Arith!digit_add_sub(sub, x[i], y[i], IF i = f THEN carry ELSE g[i - 1].carry, base)]
  <2>1. \A i \in f..l : g[i] = Next1(i, IF i = f THEN carry ELSE g[i - 1].carry)
    BY <1>8, <1>9 DEF a
  <2> QED BY <1>8, <2>1 DEF Next1
<1> DEFINE d == Arith!Ripple(sub, x, y, f, l, carry, base)
<1>11. d = [i \in f..l |-> Arith!digit_add_sub(sub, x[i], y[i], IF i = f THEN carry ELSE d[i - 1].carry, base)]
  BY <1>10 DEF Arith!Ripple
<1> HIDE DEF d
<1>12. d[f] = Next1(f, carry) /\ \A i \in f..l : i # f => d[i] = Next1(i, d[i - 1].carry)
  BY <1>3, <1>11 DEF Next1
<1>13. \A i \in f..l : d[i] \in V
  <2> DEFINE S == {i \in f..l : d[i] \in V}
  <2>1. f \in S
    BY <1>3, <1>4, <1>12 DEF a
  <2>2. \A i \in f..(l - 1) : i \in S => i + 1 \in S
    <3>1. ASSUME NEW i \in f..(l - 1), d[i] \in V PROVE d[i + 1] \in V
      <4>1. i + 1 \in f..l /\ i + 1 # f /\ (i + 1) - 1 = i
        OBVIOUS
      <4>2. d[i + 1] = Next1(i + 1, d[i].carry)
        BY <4>1, <1>12
      <4>3. d[i].carry \in BOOLEAN
        BY <1>2, <3>1
      <4> QED BY <1>1, <4>1, <4>2, <4>3
    <3> QED BY <3>1
  <2> HIDE DEF S
  <2>3. \A i \in f..l : i \in S
    BY <2>1, <2>2, Upwards
  <2> QED BY <2>3 DEF S
<1> QED BY <1>2, <1>13 DEF d

(* The fields of the instructions *)
FieldOk(field) == field[1] \in Nat /\ field[2] \in Nat /\ \A i \in field[1]..field[2] : i \in Digits

LEMMA FieldsOk ==
  ASSUME NEW p \in Nat, NEW n \in 1..8
  PROVE  FieldOk(Arith!woodstock_field(p)[n])
<1>1. /\ 0 \in Nat /\ WSIZE - 1 \in Nat /\ WSIZE - 2 \in Nat /\ EXPSIZE \in Nat /\ EXPSIZE - 1 \in Nat
      /\ EXPSIZE <= WSIZE - 2 /\ WSIZE \in Nat
  BY DigitAssumption, DigitProcessorAssumption
<1>2. \A f, l \in Nat : l < WSIZE => FieldOk(<<f, l>>)
  BY <1>1 DEF FieldOk, Digits
<1>3. FieldOk(Arith!AtP(p))
  <2>1. CASE p < WSIZE
    BY <1>1, <1>2, <2>1 DEF Arith!AtP
  <2>2. CASE ~(p < WSIZE)
    BY <1>1, <2>2 DEF Arith!AtP, FieldOk
  <2> QED BY <2>1, <2>2
<1>4. FieldOk(Arith!UpToP(p))
  BY <1>1, <1>2 DEF Arith!UpToP
<1>5. FieldOk(<<EXPSIZE - 1, EXPSIZE - 1>>) /\ FieldOk(<<0, EXPSIZE - 1>>) /\ FieldOk(<<WSIZE - 1, WSIZE - 1>>)
      /\ FieldOk(<<EXPSIZE, WSIZE - 2>>) /\ FieldOk(<<0, WSIZE - 1>>) /\ FieldOk(<<EXPSIZE, WSIZE - 1>>)
  <2>1. EXPSIZE - 1 < WSIZE /\ WSIZE - 1 < WSIZE /\ WSIZE - 2 < WSIZE
    BY <1>1
  <2> QED BY <1>1, <1>2, <2>1
<1> HIDE DEF FieldOk
<1>6. n \in {1, 2, 3, 4, 5, 6, 7, 8}
  OBVIOUS
<1> QED BY <1>3, <1>4, <1>5, <1>6 DEF Arith!woodstock_field

(* The calls of the instructions *)
ToRegs == {"a", "b", "c"}
CallOk(call) ==
  /\ call.fn \in {"zero", "copy", "exch", "add", "sub", "equal", "nonequal", "right", "left"}
  /\ call.fn \in {"zero", "copy", "exch", "right", "left"} => call.dest \in ToRegs
  /\ call.fn \in {"copy", "exch", "right", "left"} => call.x \in ToRegs
  /\ call.fn \in {"add", "sub"} => /\ call.dest \in ToRegs \cup {"NULL"} /\ call.x \in ToRegs \cup {"NULL"}
                                   /\ call.y \in ToRegs \cup {"NULL"} /\ call.carry \in BOOLEAN

LEMMA CallsAre ==
  /\ \A d \in ToRegs : CallOk(Arith!zero(d)) /\ CallOk(Arith!inc(d)) /\ CallOk(Arith!equal(d))
                       /\ CallOk(Arith!right(d)) /\ CallOk(Arith!left(d))
  /\ \A d, s \in ToRegs : CallOk(Arith!copy(d, s)) /\ CallOk(Arith!exch(d, s)) /\ CallOk(Arith!compare(d, s))
  /\ \A d \in ToRegs : CallOk(Arith!nonequal(d, "NULL")) /\ CallOk(Arith!sub(d, "NULL", d))
                       /\ CallOk(Arith!dec(d, "NULL", d)) /\ CallOk(Arith!dec(d, d, "NULL"))
  /\ \A d, x, y \in ToRegs : CallOk(Arith!add(d, x, y)) /\ CallOk(Arith!sub(d, x, y))
<1> USE DEF CallOk, Arith!Call
<1>1. \A d \in ToRegs : CallOk(Arith!zero(d)) /\ CallOk(Arith!right(d)) /\ CallOk(Arith!left(d))
  BY DEF Arith!zero, Arith!right, Arith!left
<1>2. \A d \in ToRegs : CallOk(Arith!inc(d)) /\ CallOk(Arith!equal(d)) /\ CallOk(Arith!nonequal(d, "NULL"))
  BY DEF Arith!inc, Arith!equal, Arith!nonequal
<1>3. \A d, s \in ToRegs : CallOk(Arith!copy(d, s)) /\ CallOk(Arith!exch(d, s))
  BY DEF Arith!copy, Arith!exch
<1>4. \A d, s \in ToRegs : CallOk(Arith!compare(d, s))
  BY DEF Arith!compare
<1>5. \A d \in ToRegs : CallOk(Arith!sub(d, "NULL", d)) /\ CallOk(Arith!dec(d, "NULL", d)) /\ CallOk(Arith!dec(d, d, "NULL"))
  BY DEF Arith!sub, Arith!dec
<1>6. \A d, x, y \in ToRegs : CallOk(Arith!add(d, x, y)) /\ CallOk(Arith!sub(d, x, y))
  BY DEF Arith!add, Arith!sub
<1> QED BY <1>1, <1>2, <1>3, <1>4, <1>5, <1>6

(* The calls of the table name registers that there are. *)
LEMMA CallsOk == \A op \in 1..32 : CallOk(Arith!woodstock_op_arith[op])
<1> DEFINE D(op) == CallOk(Arith!woodstock_op_arith[op])
<1> USE CallsAre DEF Arith!woodstock_op_arith, ToRegs
<1>1. D(1) /\ D(2) /\ D(3)
  OBVIOUS
<1>2. D(4) /\ D(5) /\ D(6)
  OBVIOUS
<1>3. D(7) /\ D(8) /\ D(9)
  OBVIOUS
<1>4. D(10) /\ D(11) /\ D(12)
  OBVIOUS
<1>5. D(13) /\ D(14) /\ D(15)
  OBVIOUS
<1>6. D(16) /\ D(17) /\ D(18)
  OBVIOUS
<1>7. D(19) /\ D(20) /\ D(21)
  OBVIOUS
<1>8. D(22) /\ D(23) /\ D(24)
  OBVIOUS
<1>9. D(25) /\ D(26) /\ D(27)
  OBVIOUS
<1>10. D(28) /\ D(29) /\ D(30)
  OBVIOUS
<1>11. D(31) /\ D(32)
  OBVIOUS
<1> HIDE DEF D
<1>12. \A op \in 1..32 : D(op)
  BY <1>1, <1>2, <1>3, <1>4, <1>5, <1>6, <1>7, <1>8, <1>9, <1>10, <1>11
<1> QED BY <1>12 DEF D

LEMMA SourceTyped ==
  ASSUME NEW regs \in RegFile, NEW x \in ToRegs \cup {"NULL"}
  PROVE  Arith!Source(regs, x) \in Register
BY NoDigits DEF Arith!Source, RegFile, ToRegs, ActRegs

LEMMA OpsTyped ==
  ASSUME NEW x \in Register, NEW y \in Register, NEW f \in Nat, NEW l \in Nat, \A i \in f..l : i \in Digits
  PROVE  /\ Arith!reg_zero(x, f, l) \in Register /\ Arith!reg_copy(x, y, f, l) \in Register
         /\ Arith!reg_shift_right(x, f, l) \in Register /\ Arith!reg_shift_left(x, f, l) \in Register
<1>1. 0 \in Digit /\ Arith!Digits = Digits
  BY DigitAssumption DEF Digit, Arith!Digits, Digits
<1>2. \A i \in Digits : i \in f..l /\ i # l => i + 1 \in f..l
  BY DigitAssumption DEF Digits
<1>3. \A i \in Digits : i \in f..l /\ i # f => i - 1 \in f..l
  BY DigitAssumption DEF Digits
<1>4. Arith!reg_shift_right(x, f, l) \in Register
  BY <1>1, <1>2 DEF Arith!reg_shift_right, Register
<1>5. Arith!reg_shift_left(x, f, l) \in Register
  BY <1>1, <1>3 DEF Arith!reg_shift_left, Register
<1> QED BY <1>1, <1>4, <1>5 DEF Arith!reg_zero, Arith!reg_copy, Register

LEMMA SumTyped ==
  ASSUME NEW sub \in BOOLEAN, NEW carry \in BOOLEAN, NEW dest \in Register, NEW x \in Register, NEW y \in Register,
         NEW f \in Nat, NEW l \in Nat, \A i \in f..l : i \in Digits, NEW base
  PROVE  Arith!reg_add_sub(sub, dest, x, y, f, l, carry, base).dest \in Register
<1> DEFINE d == Arith!Ripple(sub, x, y, f, l, carry, base)
<1>1. \A i \in f..l : d[i].digit \in Digit
  <2>1. \A i \in f..l : x[i] \in Int /\ y[i] \in Int
    BY DigitAssumption DEF Register, Digit
  <2>2. CASE f <= l
    <3>1. f \in Int /\ l \in Int
      OBVIOUS
    <3> HIDE DEF d
    <3> QED BY <2>1, <2>2, <3>1, RippleDigits DEF d
  <2>3. CASE ~(f <= l)
    BY <2>3
  <2> QED BY <2>2, <2>3
<1>2. Arith!Digits = Digits
  BY DEF Arith!Digits, Digits
<1>3. Arith!reg_add_sub(sub, dest, x, y, f, l, carry, base).dest
        = [i \in Digits |-> IF i \in f..l THEN d[i].digit ELSE dest[i]]
  BY <1>2 DEF Arith!reg_add_sub
<1> HIDE DEF d
<1> QED BY <1>1, <1>3 DEF Register

(* Whatever the operation, the registers have digits. *)
LEMMA ExecuteTyped ==
  ASSUME NEW call, CallOk(call), NEW regs \in RegFile, NEW f \in Nat, NEW l \in Nat, \A i \in f..l : i \in Digits, NEW base
  PROVE  Arith!Execute(call, regs, f, l, base).regs \in RegFile
<1>0. \A x, y \in Register :
        /\ Arith!reg_zero(x, f, l) \in Register /\ Arith!reg_copy(x, y, f, l) \in Register
        /\ Arith!reg_shift_right(x, f, l) \in Register /\ Arith!reg_shift_left(x, f, l) \in Register
  BY OpsTyped
<1>1. \A x \in ToRegs : x \in ActRegs /\ regs[x] \in Register /\ Arith!Source(regs, x) \in Register
  BY SourceTyped DEF RegFile, ToRegs, ActRegs
<1>2. ASSUME NEW x \in ToRegs, NEW v \in Register PROVE [regs EXCEPT ![x] = v] \in RegFile
  BY <1>1 DEF RegFile
<1>3. CASE call.fn = "zero"
  <2>1. Arith!Execute(call, regs, f, l, base).regs = [regs EXCEPT ![call.dest] = Arith!reg_zero(regs[call.dest], f, l)]
    BY <1>3 DEF Arith!Execute
  <2> QED BY <1>1, <1>0, <1>2, <1>3, <2>1 DEF CallOk
<1>4. CASE call.fn = "copy"
  <2>1. Arith!Execute(call, regs, f, l, base).regs
          = [regs EXCEPT ![call.dest] = Arith!reg_copy(regs[call.dest], Arith!Source(regs, call.x), f, l)]
    BY <1>4 DEF Arith!Execute
  <2>2. call.dest \in ToRegs /\ call.x \in ToRegs
    BY <1>4 DEF CallOk
  <2> QED BY <1>1, <1>2, <2>1, <2>2, <1>0
<1>5. CASE call.fn = "exch"
  <2> DEFINE u == Arith!reg_copy(regs[call.dest], Arith!Source(regs, call.x), f, l)
             regs1 == [regs EXCEPT ![call.dest] = u]
             v == Arith!reg_copy(regs1[call.x], regs[call.dest], f, l)
  <2>1. Arith!Execute(call, regs, f, l, base).regs = [regs1 EXCEPT ![call.x] = v]
    BY <1>5 DEF Arith!Execute
  <2>2. call.dest \in ToRegs /\ call.x \in ToRegs
    BY <1>5 DEF CallOk
  <2>3. u \in Register
    BY <1>1, <2>2, <1>0
  <2> HIDE DEF u
  <2>4. regs1 \in RegFile
    BY <1>2, <2>2, <2>3
  <2> HIDE DEF regs1
  <2>5. regs1[call.x] \in Register
    BY <1>1, <2>2, <2>4 DEF RegFile
  <2>6. v \in Register
    BY <1>1, <2>2, <2>5, <1>0
  <2> HIDE DEF v
  <2>7. [regs1 EXCEPT ![call.x] = v] \in RegFile
    BY <1>1, <2>2, <2>4, <2>6 DEF RegFile
  <2> QED BY <2>1, <2>7
<1>6. CASE call.fn \in {"equal", "nonequal"}
  BY <1>6 DEF Arith!Execute
<1>7. CASE call.fn = "right"
  <2>1. Arith!Execute(call, regs, f, l, base).regs
          = [regs EXCEPT ![call.dest] = Arith!reg_shift_right(Arith!Source(regs, call.x), f, l)]
    BY <1>7 DEF Arith!Execute
  <2>2. call.dest \in ToRegs /\ call.x \in ToRegs
    BY <1>7 DEF CallOk
  <2>3. Arith!reg_shift_right(Arith!Source(regs, call.x), f, l) \in Register
    BY <1>0, <1>1, <2>2
  <2> QED BY <1>2, <2>1, <2>2, <2>3
<1>8. CASE call.fn = "left"
  <2>1. Arith!Execute(call, regs, f, l, base).regs
          = [regs EXCEPT ![call.dest] = Arith!reg_shift_left(Arith!Source(regs, call.x), f, l)]
    BY <1>8 DEF Arith!Execute
  <2>2. call.dest \in ToRegs /\ call.x \in ToRegs
    BY <1>8 DEF CallOk
  <2>3. Arith!reg_shift_left(Arith!Source(regs, call.x), f, l) \in Register
    BY <1>0, <1>1, <2>2
  <2> QED BY <1>2, <2>1, <2>2, <2>3
<1>9. CASE call.fn \in {"add", "sub"}
  <2> DEFINE sum == Arith!reg_add_sub(call.fn = "sub", Arith!Source(regs, call.dest), Arith!Source(regs, call.x),
                                      Arith!Source(regs, call.y), f, l, call.carry, base)
  <2>1. Arith!Execute(call, regs, f, l, base).regs
          = IF call.dest = "NULL" THEN regs ELSE [regs EXCEPT ![call.dest] = sum.dest]
    BY <1>9 DEF Arith!Execute
  <2>2. call.dest \in ToRegs \cup {"NULL"} /\ call.x \in ToRegs \cup {"NULL"} /\ call.y \in ToRegs \cup {"NULL"}
        /\ call.carry \in BOOLEAN /\ (call.fn = "sub") \in BOOLEAN
    BY <1>9 DEF CallOk
  <2>3. sum.dest \in Register
    BY <2>2, SourceTyped, SumTyped
  <2> HIDE DEF sum
  <2> QED BY <1>2, <2>1, <2>2, <2>3
<1> QED BY <1>3, <1>4, <1>5, <1>6, <1>7, <1>8, <1>9 DEF CallOk

(* The registers have digits, P is a number and the last key has a code. *)
ActTyped(c) ==
  /\ ActShaped(c)
  /\ c.reg \in RegFile /\ c.f \in Digit /\ c.ram \in [ActRam -> Register]
  /\ c.p \in Nat /\ c.key_buf \in -1..255

(* Where the scan is, of how many digits *)
ScanAt(c) == <<c.right_scan, c.left_scan, c.scan_position, c.digit_position, c.display_14_digit>>
Keeps(c, e) == ActTyped(e) /\ ScanAt(e) = ScanAt(c)

LEMMA HexIs == HEX = 16 /\ Digit = 0..15 /\ WSIZE \in Nat /\ WSIZE > 2 /\ 0 \in Digits
BY ActAssumption, DigitAssumption DEF Digit, Digits

LEMMA RegTyped ==
  ASSUME NEW regs \in RegFile, NEW x \in ActRegs, NEW v \in Register
  PROVE  [regs EXCEPT ![x] = v] \in RegFile
BY DEF RegFile

LEMMA DigitSet ==
  ASSUME NEW v \in Register, NEW i, NEW d \in Digit
  PROVE  [v EXCEPT ![i] = d] \in Register
BY DEF Register

LEMMA ArithKeeps ==
  ASSUME NEW c, ActTyped(c), NEW op \in 0..31, NEW field, FieldOk(field)
  PROVE  Keeps(c, act_arith(c, op, field))
<1> DEFINE call == Arith!woodstock_op_arith[op + 1]
           base == IF c.decimal THEN DEC ELSE HEX
           done == Arith!Execute(call, c.reg, field[1], field[2], base)
<1>1. CallOk(call)
  <2>1. op + 1 \in 1..32
    OBVIOUS
  <2> QED BY <2>1, CallsOk
<1>2. c.reg \in RegFile
  BY DEF ActTyped
<1> HIDE DEF call, base
<1>3. done.regs \in RegFile
  BY <1>1, <1>2, ExecuteTyped DEF FieldOk
<1>4. act_arith(c, op, field) = LeftBy(c, op, done)
  BY DEF act_arith, call, base
<1> HIDE DEF done
<1>5. Keeps(c, LeftBy(c, op, done))
  BY <1>3 DEF Keeps, ScanAt, ActTyped, ActShaped, ActAll, LeftBy
<1> QED BY <1>4, <1>5

LEMMA TestsKeep ==
  ASSUME NEW c, ActTyped(c), NEW op, NEW n
  PROVE  Keeps(c, act_tests(c, op, n))
<1>1. \A x : Keeps(c, [c EXCEPT !.then_goto = TRUE, !.carry = x])
  BY DEF Keeps, ScanAt, ActTyped, ActShaped, ActAll
<1> QED BY <1>1 DEF act_tests

LEMMA PointerKeeps ==
  ASSUME NEW c, ActTyped(c), NEW op, NEW n \in 0..15
  PROVE  Keeps(c, act_pointer(c, op, n))
<1>0. c.p \in Nat /\ DownP(c) \in Nat /\ WSIZE \in Nat /\ n \in Digit
  BY HexIs DEF ActTyped, DownP
<1>1. CASE op = "op_inc_p"
  <2>1. (IF c.p + 1 >= WSIZE THEN 0 ELSE c.p + 1) \in Nat
    BY <1>0
  <2>2. act_pointer(c, op, n) = [c EXCEPT !.p = IF c.p + 1 >= WSIZE THEN 0 ELSE c.p + 1, !.incremented[1] = TRUE]
    BY <1>1 DEF act_pointer
  <2> QED BY <2>1, <2>2 DEF Keeps, ScanAt, ActTyped, ActShaped, ActAll
<1>2. CASE op = "op_dec_p"
  <2>1. act_pointer(c, op, n) = [c EXCEPT !.p = DownP(c)]
    BY <1>2 DEF act_pointer
  <2> QED BY <1>0, <2>1 DEF Keeps, ScanAt, ActTyped, ActShaped, ActAll
<1>3. CASE op = "op_set_p"
  <2>1. act_pointer(c, op, n) = [c EXCEPT !.p = PSetMap[n + 1]]
    BY <1>3 DEF act_pointer
  <2>2. PSetMap[n + 1] \in Nat
    BY ActAssumption
  <2> QED BY <2>1, <2>2 DEF Keeps, ScanAt, ActTyped, ActShaped, ActAll
<1>4. CASE op = "op_load_constant"
  <2> DEFINE v == IF c.p < WSIZE THEN [c.reg["c"] EXCEPT ![c.p] = n] ELSE c.reg["c"]
  <2>1. act_pointer(c, op, n) = [c EXCEPT !.reg = [@ EXCEPT !["c"] = v], !.p = DownP(c)]
    BY <1>4 DEF act_pointer
  <2>2. c.reg \in RegFile /\ "c" \in ActRegs /\ c.reg["c"] \in Register
    BY DEF ActTyped, RegFile, ActRegs
  <2>3. v \in Register
    BY <1>0, <2>2, DigitSet
  <2> HIDE DEF v
  <2>4. [c.reg EXCEPT !["c"] = v] \in RegFile
    BY <2>2, <2>3, RegTyped
  <2> QED BY <1>0, <2>1, <2>4 DEF Keeps, ScanAt, ActTyped, ActShaped, ActAll
<1>5. CASE op \in {"op_binary", "op_decimal"}
  BY <1>5 DEF act_pointer, Keeps, ScanAt, ActTyped, ActShaped, ActAll
<1>6. CASE op \notin {"op_inc_p", "op_dec_p", "op_set_p", "op_load_constant", "op_binary", "op_decimal"}
  BY <1>6 DEF act_pointer, Keeps
<1> QED BY <1>1, <1>2, <1>3, <1>4, <1>5, <1>6

LEMMA StatusKeeps ==
  ASSUME NEW c, ActTyped(c), NEW op, NEW n
  PROVE  Keeps(c, act_status(c, op, n))
<1>1. \A x : Keeps(c, [c EXCEPT !.s = x])
  BY DEF Keeps, ScanAt, ActTyped, ActShaped, ActAll
<1>2. CASE op = "op_keys_to_a"
  <2> DEFINE key == IF c.key_buf = NoKeyBuf THEN 0 ELSE c.key_buf
             v == [c.reg["a"] EXCEPT ![2] = key \div 16, ![1] = key % 16]
  <2>1. act_status(c, op, n) = [c EXCEPT !.reg = [@ EXCEPT !["a"] = v]]
    BY <1>2 DEF act_status
  <2>2. key \in 0..255
    BY DEF ActTyped, NoKeyBuf
  <2> HIDE DEF key
  <2>3. key \div 16 \in Digit /\ key % 16 \in Digit
    BY <2>2, HexIs
  <2>4. c.reg \in RegFile /\ "a" \in ActRegs /\ c.reg["a"] \in Register
    BY DEF ActTyped, RegFile, ActRegs
  <2>5. v \in Register
    BY <2>3, <2>4, DigitSet
  <2> HIDE DEF v
  <2>6. [c.reg EXCEPT !["a"] = v] \in RegFile
    BY <2>4, <2>5, RegTyped
  <2> QED BY <2>1, <2>6 DEF Keeps, ScanAt, ActTyped, ActShaped, ActAll
<1>3. CASE op \in {"op_clear_s", "op_set_s", "op_clr_s"}
  <2>1. Keeps(c, c)
    BY DEF Keeps
  <2> QED BY <1>1, <1>3, <2>1 DEF act_status
<1>4. CASE op \notin {"op_clear_s", "op_set_s", "op_clr_s", "op_keys_to_a"}
  BY <1>4 DEF act_status, Keeps
<1> QED BY <1>2, <1>3, <1>4

LEMMA RegsKept ==
  ASSUME NEW c, ActTyped(c), NEW regs \in RegFile
  PROVE  /\ Keeps(c, [c EXCEPT !.reg = regs])
         /\ \A f \in Digit : Keeps(c, [c EXCEPT !.reg = regs, !.f = f])
BY DEF Keeps, ScanAt, ActTyped, ActShaped, ActAll

LEMMA MovesAre ==
  ASSUME NEW op PROVE \A x \in DOMAIN ActMoves(op) : ActMoves(op)[x] \in ActRegs
BY DEF ActMoves, ActRegs

LEMMA ClearTyped ==
  ASSUME NEW regs \in RegFile PROVE ClearRegs(regs) \in RegFile
BY NoDigits DEF ClearRegs, Over, RegFile

LEMMA RegistersKeep ==
  ASSUME NEW c, ActTyped(c), NEW op
  PROVE  Keeps(c, act_registers(c, op))
<1>1. c.reg \in RegFile /\ c.f \in Digit /\ "a" \in ActRegs /\ c.reg["a"] \in Register /\ c.reg["a"][0] \in Digit
  BY HexIs DEF ActTyped, RegFile, ActRegs, Register
<1>2. CASE op = "op_clear_reg"
  <2>1. act_registers(c, op) = [c EXCEPT !.reg = ClearRegs(c.reg)]
    BY <1>2 DEF act_registers
  <2> QED BY <1>1, <2>1, ClearTyped, RegsKept
<1> DEFINE v == [c.reg["a"] EXCEPT ![0] = c.f]
           regs == [c.reg EXCEPT !["a"] = v]
<1>3. regs \in RegFile
  <2>1. v \in Register
    BY <1>1, DigitSet
  <2> HIDE DEF v
  <2> QED BY <1>1, <2>1, RegTyped
<1>4. CASE op = "op_f_to_a"
  <2>1. act_registers(c, op) = [c EXCEPT !.reg = regs]
    BY <1>4 DEF act_registers
  <2> HIDE DEF regs
  <2> QED BY <1>1, <1>3, <2>1, RegsKept
<1>5. CASE op = "op_f_exch_a"
  <2>1. act_registers(c, op) = [c EXCEPT !.reg = regs, !.f = c.reg["a"][0]]
    BY <1>5 DEF act_registers
  <2> HIDE DEF regs
  <2> QED BY <1>1, <1>3, <2>1 DEF Keeps, ScanAt, ActTyped, ActShaped, ActAll
<1>6. CASE op = "op_circulate_a_left"
  <2> DEFINE u == [i \in Digits |-> c.reg["a"][(i - 1) % WSIZE]]
  <2>1. act_registers(c, op) = [c EXCEPT !.reg = [@ EXCEPT !["a"] = u]]
    BY <1>6 DEF act_registers
  <2>2. u \in Register
    <3>1. \A i \in Digits : (i - 1) % WSIZE \in Digits
      BY HexIs, DivMod DEF Digits
    <3> QED BY <1>1, <3>1 DEF Register
  <2> HIDE DEF u
  <2>3. [c.reg EXCEPT !["a"] = u] \in RegFile
    BY <1>1, <2>2, RegTyped
  <2> QED BY <2>1, <2>3 DEF Keeps, ScanAt, ActTyped, ActShaped, ActAll
<1>7. CASE op \notin {"op_clear_reg", "op_f_to_a", "op_f_exch_a", "op_circulate_a_left"}
  <2> DEFINE m == ActMoves(op)
             u == Over([x \in DOMAIN m |-> c.reg[m[x]]], c.reg)
  <2>1. act_registers(c, op) = [c EXCEPT !.reg = u]
    BY <1>7 DEF act_registers
  <2>2. \A x \in DOMAIN m : m[x] \in ActRegs
    BY MovesAre
  <2> HIDE DEF m
  <2>3. u \in RegFile
    BY <1>1, <2>2 DEF Over, RegFile
  <2> HIDE DEF u
  <2> QED BY <1>1, <2>1, <2>3, RegsKept
<1> QED BY <1>2, <1>4, <1>5, <1>6, <1>7

LEMMA RamKeeps ==
  ASSUME NEW c, ActTyped(c), NEW op, NEW n
  PROVE  Keeps(c, act_ram(c, op, n))
<1>1. \A x : Keeps(c, [c EXCEPT !.ram_addr = x])
  BY DEF Keeps, ScanAt, ActTyped, ActShaped, ActAll
<1>2. ASSUME NEW x, ActTyped(x) PROVE Keeps(x, ActRead(x))
  <2> DEFINE v == IF x.ram_addr \in ActRam THEN x.ram[x.ram_addr] ELSE NULL
  <2>1. ActRead(x) = [x EXCEPT !.reg = [@ EXCEPT !["c"] = v]]
    BY DEF ActRead
  <2>2. v \in Register /\ x.reg \in RegFile /\ "c" \in ActRegs /\ x.f \in Digit
    BY <1>2, NoDigits DEF ActTyped, ActRegs
  <2> HIDE DEF v
  <2>3. [x.reg EXCEPT !["c"] = v] \in RegFile
    BY <2>2, RegTyped
  <2> QED BY <1>2, <2>1, <2>3 DEF Keeps, ScanAt, ActTyped, ActShaped, ActAll
<1>3. ASSUME NEW x, ActTyped(x) PROVE Keeps(x, ActWrite(x))
  <2>1. x.ram \in [ActRam -> Register] /\ x.reg["c"] \in Register
    BY <1>3 DEF ActTyped, RegFile, ActRegs
  <2>2. \A a \in ActRam : [x.ram EXCEPT ![a] = x.reg["c"]] \in [ActRam -> Register]
    BY <2>1
  <2>3. \A ram \in [ActRam -> Register] : Keeps(x, [x EXCEPT !.ram = ram])
    BY <1>3 DEF Keeps, ScanAt, ActTyped, ActShaped, ActAll
  <2>4. Keeps(x, x)
    BY <1>3 DEF Keeps
  <2> QED BY <2>2, <2>3, <2>4 DEF ActWrite
<1>4. CASE op = "op_c_to_addr"
  BY <1>1, <1>4 DEF act_ram
<1>5. CASE op \in {"op_c_to_data", "op_data_to_c"}
  BY <1>2, <1>3, <1>5 DEF act_ram
<1>6. CASE op \in {"op_c_to_register", "op_register_to_c"}
  <2> DEFINE e == [c EXCEPT !.ram_addr = Block(@) + n]
  <2>1. Keeps(c, e)
    BY <1>1
  <2>2. act_ram(c, op, n) = ActWrite(e) \/ act_ram(c, op, n) = ActRead(e)
    BY <1>6 DEF act_ram
  <2> HIDE DEF e
  <2> QED BY <1>2, <1>3, <2>1, <2>2 DEF Keeps
<1>7. CASE op = "op_clear_data_regs"
  <2> DEFINE ram == [a \in DOMAIN c.ram |-> IF Block(a) = Block(c.ram_addr) THEN NULL ELSE c.ram[a]]
  <2>1. act_ram(c, op, n) = [c EXCEPT !.ram = ram]
    BY <1>7 DEF act_ram
  <2>2. ram \in [ActRam -> Register]
    BY NoDigits DEF ActTyped
  <2> HIDE DEF ram
  <2> QED BY <2>1, <2>2 DEF Keeps, ScanAt, ActTyped, ActShaped, ActAll
<1>8. CASE op \notin {"op_c_to_data", "op_data_to_c", "op_c_to_register", "op_register_to_c", "op_c_to_addr",
                      "op_clear_data_regs"}
  BY <1>8 DEF act_ram, Keeps
<1> QED BY <1>4, <1>5, <1>6, <1>7, <1>8

-----------------------------------------------------------------------------
(***************************************************************************)
(* The ACT's scan: its position goes with the digit that it shows, and     *)
(* only a cycle of the display moves it.                                   *)
(***************************************************************************)
Top == IF Spc THEN WSIZE - 2 ELSE WSIZE - 1
Bottom(c) == IF Spc THEN EXPSIZE ELSE IF c.display_14_digit THEN 0 ELSE EXPSIZE - 1
Room(c) == IF Spc \/ c.display_14_digit THEN 1 ELSE 0

(* The scan is that of the digits of the display, and where it has come is *)
(* the position of the digit.                                              *)
ScanOf(c) ==
  /\ c.left_scan = Top /\ c.right_scan = Bottom(c)
  /\ c.scan_position \in Bottom(c)..Top
  /\ c.digit_position = IF c.scan_position = Top THEN 0 ELSE Top - c.scan_position + Room(c)

Starts(c) == ScanOf(c) /\ c.scan_position = Top /\ c.digit_position = 0

LEMMA TopIs ==
  /\ Top \in Digits /\ Top > 0
  /\ \A c : Bottom(c) \in Digits /\ Bottom(c) <= Top /\ Room(c) \in {0, 1}
  /\ \A c : Spc => EXPSIZE <= WSIZE - 2
BY DigitAssumption, DigitProcessorAssumption DEF Top, Bottom, Room, Digits

(* display_setup begins a scan. *)
LEMMA SetupStarts ==
  ASSUME NEW c, ActTyped(c)
  PROVE  ActTyped(display_setup(c)) /\ Starts(display_setup(c))
<1> DEFINE e == display_setup(c)
<1>1. ActTyped(e)
  BY DEF display_setup, ActTyped, ActShaped, ActAll
<1>2. e.left_scan = Top /\ e.scan_position = Top /\ e.digit_position = 0 /\ e.right_scan = Bottom(c)
      /\ e.display_14_digit = c.display_14_digit
  BY DEF display_setup, ActTyped, ActShaped, ActAll, Top, Bottom
<1>3. Bottom(e) = Bottom(c)
  BY <1>2 DEF Bottom
<1> HIDE DEF e
<1>4. Top \in Bottom(c)..Top
  BY TopIs DEF Digits
<1> QED BY <1>1, <1>2, <1>3, <1>4 DEF Starts, ScanOf, e

(* What an instruction leaves of the scan: where it is, or its start *)
Continues(c, e) == ActTyped(e) /\ (ScanAt(e) = ScanAt(c) \/ Starts(e))

LEMMA DisplayContinues ==
  ASSUME NEW c, ActTyped(c), NEW op
  PROVE  Continues(c, act_display(c, op))
<1>1. CASE op = "op_display_reset_twf"
  <2> DEFINE e == [c EXCEPT !.display_14_digit = TRUE]
  <2>1. ActTyped(e)
    BY DEF ActTyped, ActShaped, ActAll
  <2>2. act_display(c, op) = display_setup(e)
    BY <1>1 DEF act_display
  <2> HIDE DEF e
  <2> QED BY <2>1, <2>2, SetupStarts DEF Continues
<1>2. CASE op # "op_display_reset_twf"
  <2>1. \A x : Keeps(c, [c EXCEPT !.display_enable = x])
    BY DEF Keeps, ScanAt, ActTyped, ActShaped, ActAll
  <2>2. Keeps(c, c)
    BY DEF Keeps
  <2>3. Keeps(c, act_display(c, op))
    BY <1>2, <2>1, <2>2 DEF act_display
  <2> QED BY <2>3 DEF Keeps, Continues
<1> QED BY <1>1, <1>2

LEMMA OpContinues ==
  ASSUME NEW c, ActTyped(c), NEW w \in 0..1023, NEW op
  PROVE  Continues(c, act_op_fcn(c, w, op, w \div 64))
<1> DEFINE n == w \div 64
<1>0. n \in 0..15 /\ w \div 32 \in 0..31 /\ ((w \div 4) % 8) + 1 \in 1..8
  OBVIOUS
<1>1. CASE op = "op_arith"
  <2>1. act_op_fcn(c, w, op, n) = act_arith(c, w \div 32, Arith!woodstock_field(c.p)[((w \div 4) % 8) + 1])
    BY <1>1 DEF act_op_fcn, Tests
  <2>2. FieldOk(Arith!woodstock_field(c.p)[((w \div 4) % 8) + 1])
    BY <1>0, FieldsOk DEF ActTyped
  <2>3. Keeps(c, act_op_fcn(c, w, op, n))
    BY <1>0, <2>1, <2>2, ArithKeeps
  <2> QED BY <2>3 DEF Keeps, Continues
<1>2. CASE op \in Tests
  <2>1. act_op_fcn(c, w, op, n) = act_tests(c, op, n)
    BY <1>2 DEF act_op_fcn, Tests
  <2> QED BY <2>1, TestsKeep DEF Keeps, Continues
<1>3. CASE op # "op_arith" /\ op \notin Tests
  <2> DEFINE c1 == act_pointer(c, op, n)
             c2 == act_status(c1, op, n)
             c3 == act_registers(c2, op)
             c4 == act_ram(c3, op, n)
  <2>1. act_op_fcn(c, w, op, n) = act_display(c4, op)
    BY <1>3 DEF act_op_fcn
  <2> HIDE DEF n
  <2>2. Keeps(c, c1)
    BY <1>0, PointerKeeps
  <2> HIDE DEF c1
  <2>3. Keeps(c1, c2)
    BY <2>2, StatusKeeps DEF Keeps
  <2> HIDE DEF c2
  <2>4. Keeps(c2, c3)
    BY <2>3, RegistersKeep DEF Keeps
  <2> HIDE DEF c3
  <2>5. Keeps(c3, c4)
    BY <2>4, RamKeeps DEF Keeps
  <2> HIDE DEF c4
  <2>6. Continues(c4, act_display(c4, op))
    BY <2>5, DisplayContinues DEF Keeps
  <2> QED BY <2>1, <2>2, <2>3, <2>4, <2>5, <2>6 DEF Keeps, Continues, n
<1> QED BY <1>1, <1>2, <1>3

LEMMA KeysKeep ==
  ASSUME NEW c, ActTyped(c)
  PROVE  Keeps(c, ActKeys(c))
<1>1. \A codes : Or(codes) \in -1..255
  <2>1. \A x \in BOOLEAN, y \in BOOLEAN, z \in BOOLEAN :
          4 * (IF x THEN 1 ELSE 0) + 2 * (IF y THEN 1 ELSE 0) + (IF z THEN 1 ELSE 0) \in -1..255
    OBVIOUS
  <2> QED BY <2>1 DEF Or
<1>2. Keeps(c, key_scan_flag(c))
  <2>1. \A k \in -1..255 : \A f \in BOOLEAN : Keeps(c, [c EXCEPT !.key_buf = k, !.key_flag = f])
    BY DEF Keeps, ScanAt, ActTyped, ActShaped, ActAll
  <2> DEFINE lines == c.scanner \cup (IF 0 \in c.s THEN c.scanner_s0 ELSE {})
             codes == {LineCode[x] : x \in lines}
             some == lines # {}
  <2>2. key_scan_flag(c) = [c EXCEPT !.key_buf = Or(codes), !.key_flag = some]
    BY DEF key_scan_flag
  <2>3. some \in BOOLEAN
    OBVIOUS
  <2> HIDE DEF codes, some
  <2> QED BY <1>1, <2>1, <2>2, <2>3
<1>3. \A e : ActTyped(e) => \A x : Keeps(e, [e EXCEPT !.incremented = x])
  BY DEF Keeps, ScanAt, ActTyped, ActShaped, ActAll
<1>4. ActTyped(key_scan_flag(c)) /\ ScanAt(key_scan_flag(c)) = ScanAt(c)
  BY <1>2 DEF Keeps
<1>5. CASE setup.key_scanner_as_flags
  <2> DEFINE e == key_scan_flag(c)
  <2>1. ActKeys(c) = [e EXCEPT !.incremented = <<e.incremented[1], e.incremented[2]>>]
    BY <1>5 DEF ActKeys
  <2> HIDE DEF e
  <2>2. Keeps(e, ActKeys(c))
    BY <1>3, <1>4, <2>1 DEF e
  <2> QED BY <1>4, <2>2 DEF Keeps, e
<1>6. CASE ~setup.key_scanner_as_flags
  BY <1>3, <1>6 DEF ActKeys
<1> QED BY <1>5, <1>6

(* An instruction leaves the scan where it is or begins it anew. *)
LEMMA WorkedContinues ==
  ASSUME NEW c, ActTyped(c), NEW w \in 0..1023
  PROVE  Continues(c, Worked(c, w))
<1> DEFINE c1 == ActFirst(c)
           c2 == IF c.then_goto THEN c1 ELSE act_op_fcn(c1, w, ActOp(w), w \div 64)
<1>1. Keeps(c, c1)
  BY DEF Keeps, ScanAt, ActTyped, ActShaped, ActAll, ActFirst
<1>2. Worked(c, w) = ActKeys(c2)
  BY DEF Worked
<1> HIDE DEF c1
<1>3. Continues(c1, c2)
  <2>1. CASE c.then_goto
    <3>1. c2 = c1
      BY <2>1
    <3> QED BY <1>1, <3>1 DEF Keeps, Continues
  <2>2. CASE ~c.then_goto
    <3>1. c2 = act_op_fcn(c1, w, ActOp(w), w \div 64)
      BY <2>2
    <3>2. ActTyped(c1)
      BY <1>1 DEF Keeps
    <3> HIDE DEF c2
    <3> QED BY <3>1, <3>2, OpContinues
  <2> QED BY <2>1, <2>2
<1> HIDE DEF c2
<1>4. Keeps(c2, ActKeys(c2))
  BY <1>3, KeysKeep DEF Continues
<1>5. Starts(c2) => Starts(ActKeys(c2))
  BY <1>4 DEF Keeps, ScanAt, Starts, ScanOf, Bottom, Room
<1> QED BY <1>1, <1>2, <1>3, <1>4, <1>5 DEF Keeps, Continues

(* Either way its position and its digit go together. *)
LEMMA ContinuedScan ==
  ASSUME NEW c, NEW e, ScanOf(c), Continues(c, e)
  PROVE  ScanOf(e)
<1>1. CASE ScanAt(e) = ScanAt(c)
  BY <1>1 DEF ScanAt, ScanOf, Bottom, Room
<1>2. CASE Starts(e)
  BY <1>2 DEF Starts
<1> QED BY <1>1, <1>2 DEF Continues

(* After the cycle *)
LEMMA FlagsKeep ==
  ASSUME NEW e, ActTyped(e)
  PROVE  Keeps(e, flags_to_status(e)) /\ ActDisplayed(flags_to_status(e)) = ActDisplayed(e)
<1> DEFINE s == e.s \cup {n \in {5} : ~Spc /\ ~Raised(e, "F1", "F1_PULSE", "F1_COND_S0")}
                    \cup {n \in {3} : Raised(e, "F2", "F2_PULSE", "F2_COND_S0")}
                    \cup {n \in {15} : e.key_flag}
           x == e.ext_flag \ ((IF Spc THEN {} ELSE {"F1_PULSE"}) \cup {"F2_PULSE"})
<1>1. flags_to_status(e) = [e EXCEPT !.s = s, !.ext_flag = x]
  BY DEF flags_to_status
<1> HIDE DEF s, x
<1> QED BY <1>1 DEF Keeps, ScanAt, ActTyped, ActShaped, ActAll, ActDisplayed

LEMMA ShownActIs ==
  ASSUME NEW c, ActTyped(c)
  PROVE  LET e == ActShown(c)
         IN  /\ ActTyped(e) /\ ActDisplayed(e) = ActDisplayed(c)
             /\ e.left_scan = c.left_scan /\ e.right_scan = c.right_scan
             /\ e.scan_position = (IF Ends(c) THEN c.left_scan ELSE c.scan_position - 1)
             /\ e.digit_position = (IF Ends(c) THEN 0 ELSE DigitAt(c) + 1)
<1> DEFINE e1 == display_scan_advance(c, DigitAt(c))
<1>1. /\ ActTyped(e1) /\ ActDisplayed(e1) = ActDisplayed(c)
      /\ e1.left_scan = c.left_scan /\ e1.right_scan = c.right_scan
      /\ e1.scan_position = (IF Ends(c) THEN c.left_scan ELSE c.scan_position - 1)
      /\ e1.digit_position = (IF Ends(c) THEN 0 ELSE DigitAt(c) + 1)
  BY DEF display_scan_advance, ActTyped, ActShaped, ActAll, ActDisplayed
<1>4. ActShown(c) = flags_to_status(e1)
  BY DEF ActShown
<1> HIDE DEF e1
<1>5. Keeps(e1, ActShown(c)) /\ ActDisplayed(ActShown(c)) = ActDisplayed(e1)
  BY <1>1, <1>4, FlagsKeep
<1> HIDE DEF ActTyped, ActDisplayed
<1>6. ActTyped(ActShown(c)) /\ ScanAt(ActShown(c)) = ScanAt(e1)
  BY <1>5 DEF Keeps
<1> QED BY <1>1, <1>5, <1>6 DEF ScanAt

(* The position that is drawn counts the digits from the left, with room   *)
(* for the sign before them.                                               *)
LEMMA AtIs ==
  ASSUME NEW c, ScanOf(c)
  PROVE  /\ DigitAt(c) = Top - c.scan_position + Room(c) /\ DigitAt(c) \in Nat
         /\ c.scan_position \in Digits
         /\ Ends(c) <=> c.scan_position = Bottom(c)
<1>1. c.scan_position \in Bottom(c)..Top /\ Bottom(c) \in Digits /\ Top \in Digits /\ Room(c) \in {0, 1}
      /\ c.right_scan = Bottom(c)
  BY TopIs DEF ScanOf
<1>2. c.scan_position \in Int /\ Top \in Int /\ c.scan_position <= Top /\ c.scan_position \in Digits
      /\ Bottom(c) \in Int /\ Bottom(c) <= c.scan_position
  BY <1>1, DigitAssumption DEF Digits
<1>3. Room(c) = IF Spc \/ c.display_14_digit THEN 1 ELSE 0
  BY DEF Room
<1>4. c.digit_position = IF c.scan_position = Top THEN 0 ELSE Top - c.scan_position + Room(c)
  BY DEF ScanOf
<1> HIDE DEF Spc
<1>5. DigitAt(c) = Top - c.scan_position + Room(c)
  <2>1. CASE c.scan_position = Top
    BY <1>2, <1>3, <1>4, <2>1 DEF DigitAt
  <2>2. CASE c.scan_position # Top
    <3>1. c.digit_position # 0
      <4>1. \A t, s \in Int, r \in {0, 1} : s <= t /\ s # t => t - s + r # 0
        OBVIOUS
      <4>2. Room(c) \in {0, 1}
        BY <1>1
      <4> QED BY <1>2, <1>4, <2>2, <4>1, <4>2
    <3> QED BY <1>4, <2>2, <3>1 DEF DigitAt
  <2> QED BY <2>1, <2>2
<1>6. Top - c.scan_position + Room(c) \in Nat
  BY <1>1, <1>2
<1>7. Ends(c) <=> c.scan_position = Bottom(c)
  BY <1>1, <1>2 DEF Ends
<1> QED BY <1>2, <1>5, <1>6, <1>7

(* So they do after the digit was shown. *)
LEMMA ShownScan ==
  ASSUME NEW c, ActTyped(c), ScanOf(c)
  PROVE  ScanOf(ActShown(c))
<1> DEFINE e == ActShown(c)
<1>1. /\ ActTyped(e) /\ ActDisplayed(e) = ActDisplayed(c)
      /\ e.left_scan = c.left_scan /\ e.right_scan = c.right_scan
      /\ e.scan_position = (IF Ends(c) THEN c.left_scan ELSE c.scan_position - 1)
      /\ e.digit_position = (IF Ends(c) THEN 0 ELSE DigitAt(c) + 1)
  BY ShownActIs
<1> SUFFICES ScanOf(e)
  OBVIOUS
<1> HIDE DEF e
<1>2. Bottom(e) = Bottom(c) /\ Room(e) = Room(c)
  BY <1>1 DEF ActDisplayed, Bottom, Room
<1>3. c.left_scan = Top /\ c.right_scan = Bottom(c) /\ c.scan_position \in Bottom(c)..Top
  BY DEF ScanOf
<1>4. Top \in Digits /\ Bottom(c) \in Digits /\ Bottom(c) <= Top /\ Room(c) \in {0, 1}
  BY TopIs
<1>5. Top \in Int /\ Bottom(c) \in Int
  BY <1>4 DEF Digits
<1>6. CASE Ends(c)
  <2>1. e.scan_position = Top /\ e.digit_position = 0
    BY <1>1, <1>3, <1>6
  <2>2. Top \in Bottom(c)..Top
    BY <1>4, <1>5
  <2> QED BY <1>1, <1>2, <1>3, <2>1, <2>2 DEF ScanOf
<1>7. CASE ~Ends(c)
  <2>1. c.scan_position # Bottom(c) /\ DigitAt(c) = Top - c.scan_position + Room(c)
    BY <1>7, AtIs
  <2>2. e.scan_position = c.scan_position - 1 /\ e.digit_position = Top - c.scan_position + Room(c) + 1
    BY <1>1, <1>7, <2>1
  <2>3. c.scan_position \in Int /\ Room(c) \in Int /\ c.scan_position > Bottom(c) /\ c.scan_position <= Top
    BY <1>3, <1>4, <1>5, <2>1
  <2>4. e.scan_position \in Bottom(c)..Top /\ e.scan_position # Top
    BY <1>5, <2>2, <2>3
  <2>5. e.digit_position = Top - e.scan_position + Room(c)
    BY <1>5, <2>2, <2>3
  <2> QED BY <1>1, <1>2, <1>3, <2>4, <2>5 DEF ScanOf
<1> QED BY <1>6, <1>7

(* The frame, by the names of its parts *)
SegmentLit(c, set) == \E x \in Looks(c.reg["a"][EXPSIZE - 1], c.reg["b"][EXPSIZE - 1]) : x \in set

SignShown(c) ==
  IF Spc THEN Has(c.reg["b"][Top], 4) \/ (c.reg["b"][Top] = 2 /\ c.reg["a"][Top] = 8)
  ELSE ~Clyde /\ SegmentLit(c, ESegment)

DigitShown(c, i) ==
  LET a == c.reg["a"][i]
      b == c.reg["b"][i]
  IN  CASE Spc /\ i >= EXPSIZE -> SpiceLooks(a, b)
        [] ~Spc /\ ~c.display_14_digit /\ i >= EXPSIZE - 1 -> IF Clyde /\ i = Top THEN {} ELSE Looks(a, b)
        [] ~Spc /\ c.display_14_digit ->
             IF Clyde THEN IF i = 0 THEN {} ELSE Looks(a, b)
             ELSE IF i # EXPSIZE - 1 THEN Looks(a, b)
             ELSE {x \in {Minus} : SegmentLit(c, GSegment \cup {Minus})} \cup {x \in {Point} : Has(b, 1)}
        [] OTHER -> {}

LEMMA ActFrameIs ==
  ASSUME NEW c, NEW p \in Positions
  PROVE  ActFrame(c)[p] = IF ~c.display_enable THEN {}
                          ELSE IF p < Room(c) THEN {x \in {Minus} : SignShown(c)}
                          ELSE IF Top - (p - Room(c)) \in Digits THEN DigitShown(c, Top - (p - Room(c))) ELSE {}
BY DEF ActFrame, Room, Top, SignShown, DigitShown, SegmentLit, Positions

LEMMA FrameFunction ==
  ASSUME NEW c
  PROVE  DOMAIN ActFrame(c) = Positions /\ ActFrame(c) = [p \in Positions |-> ActFrame(c)[p]]
BY DEF ActFrame, Positions

(* What the frame shows is in the registers that act_steady watches. *)
LEMMA SameFrame ==
  ASSUME NEW c, NEW e, ActDisplayed(e) = ActDisplayed(c)
  PROVE  ActFrame(e) = ActFrame(c)
<1>1. e.reg["a"] = c.reg["a"] /\ e.reg["b"] = c.reg["b"] /\ e.display_enable = c.display_enable
      /\ e.display_14_digit = c.display_14_digit
  BY DEF ActDisplayed
<1>2. \A p \in Positions : ActFrame(e)[p] = ActFrame(c)[p]
  <2>1. \A set : SegmentLit(e, set) = SegmentLit(c, set)
    BY <1>1 DEF SegmentLit
  <2>2. SignShown(e) = SignShown(c)
    BY <1>1, <2>1 DEF SignShown
  <2>3. \A i : DigitShown(e, i) = DigitShown(c, i)
    BY <1>1, <2>1 DEF DigitShown
  <2>4. Room(e) = Room(c)
    BY <1>1 DEF Room
  <2> QED BY <1>1, <2>2, <2>3, <2>4, ActFrameIs
<1> QED BY <1>2, FrameFunction

(* What a digit of A and of B lights *)
LEMMA LooksAre ==
  ASSUME NEW a \in Digit, NEW b
  PROVE  Looks(a, b) = Shape(a, b) \cup (IF Has(b, 1) THEN {Point} ELSE {})
<1>1. (a >= 2 /\ a % 8 # 7) <=> a \notin {0, 1, 7, 15}
  <2>1. a \in {0, 1, 2, 3, 4, 5, 6, 7, 8, 9, 10, 11, 12, 13, 14, 15}
    BY HexIs
  <2> QED BY <2>1
<1>2. Shape(a, b) = IF ~Has(b, 2) THEN {a} ELSE {Minus} \ {x \in {Minus} : a \in {0, 1, 7, 15}}
  BY <1>1 DEF Shape
<1>3. {x \in {Point} : Has(b, 1)} = IF Has(b, 1) THEN {Point} ELSE {}
  OBVIOUS
<1> QED BY <1>2, <1>3 DEF Looks

LEMMA PointApart == Point \notin ESegment /\ Point \notin GSegment /\ Point # Minus
BY ActAssumption, HexIs DEF Point, Minus

LEMMA SegmentIs ==
  ASSUME NEW a \in Digit, NEW b, NEW set, Point \notin set
  PROVE  (\E x \in Looks(a, b) : x \in set) <=> Shape(a, b) \cap set # {}
<1>1. \A x : x \in Looks(a, b) <=> x \in Shape(a, b) \/ (Has(b, 1) /\ x = Point)
  BY LooksAre
<1> HIDE DEF Looks, Shape
<1> QED BY <1>1

(* Where the digit is *)
LEMMA Where ==
  ASSUME NEW c, ScanOf(c)
  PROVE  LET i == c.scan_position
             at == DigitAt(c)
         IN  /\ i \in Digits /\ i \in Int /\ Bottom(c) <= i /\ i <= Top
             /\ at \in Nat /\ at = Top - i + Room(c) /\ Top - (at - Room(c)) = i /\ ~(at < Room(c))
             /\ c.digit_position # at <=> i = Top /\ Room(c) = 1
             /\ at = 0 <=> i = Top /\ Room(c) = 0
             /\ c.digit_position = 0 <=> i = Top
             /\ i # Top => c.digit_position = at
<1>1. /\ DigitAt(c) = Top - c.scan_position + Room(c) /\ DigitAt(c) \in Nat
      /\ c.scan_position \in Digits
  BY AtIs
<1>2. c.scan_position \in Bottom(c)..Top
      /\ c.digit_position = IF c.scan_position = Top THEN 0 ELSE Top - c.scan_position + Room(c)
  BY DEF ScanOf
<1>3. Top \in Int /\ Bottom(c) \in Int /\ Room(c) \in {0, 1} /\ c.scan_position \in Int
  BY <1>1, TopIs DEF Digits
<1> DEFINE i == c.scan_position
           at == DigitAt(c)
           dp == c.digit_position
           t == Top
           b == Bottom(c)
           r == Room(c)
<1>4. i \in Int /\ t \in Int /\ b \in Int /\ r \in {0, 1} /\ b <= i /\ i <= t /\ at = t - i + r
      /\ dp = IF i = t THEN 0 ELSE t - i + r
  BY <1>1, <1>2, <1>3
<1> SUFFICES /\ t - (at - r) = i /\ ~(at < r)
             /\ dp # at <=> i = t /\ r = 1
             /\ at = 0 <=> i = t /\ r = 0
             /\ dp = 0 <=> i = t
             /\ i # t => dp = at
  BY <1>1, <1>4
<1> HIDE DEF i, at, dp, t, b, r
<1>5. CASE i = t
  BY <1>4, <1>5
<1>6. CASE i # t
  BY <1>4, <1>6
<1> QED BY <1>5, <1>6

(* The sign of the mantissa is seen when the scan is at the sign of the    *)
(* exponent.                                                               *)
LEMMA SignsAt ==
  ASSUME NEW c, ScanOf(c), ~Spc
  PROVE  HasSigns(c, DigitAt(c)) <=> ~Clyde /\ c.display_14_digit /\ c.scan_position = EXPSIZE - 1
<1>1. DigitAt(c) = Top - c.scan_position + Room(c) /\ c.scan_position \in Int
  BY Where
<1>2. Top = WSIZE - 1 /\ WSIZE \in Int /\ EXPSIZE \in Int /\ (c.display_14_digit => Room(c) = 1)
  BY DigitAssumption, DigitProcessorAssumption DEF Top, Room
<1>3. CASE c.display_14_digit
  <2>1. DigitAt(c) = WSIZE - 1 - c.scan_position + 1
    BY <1>1, <1>2, <1>3
  <2>2. DigitAt(c) = WSIZE - EXPSIZE + 1 <=> c.scan_position = EXPSIZE - 1
    <3> DEFINE w == WSIZE
               e == EXPSIZE
               s == c.scan_position
               at == DigitAt(c)
    <3>1. w \in Int /\ e \in Int /\ s \in Int /\ at = w - 1 - s + 1
      BY <1>1, <1>2, <2>1
    <3> HIDE DEF w, e, s, at
    <3>2. at = w - e + 1 <=> s = e - 1
      BY <3>1
    <3> QED BY <3>2 DEF w, e, s, at
  <2> QED BY <2>2, <1>3 DEF HasSigns
<1>4. CASE ~c.display_14_digit
  BY <1>4 DEF HasSigns
<1> QED BY <1>3, <1>4

(* The digit that a cycle draws is the frame's. *)
LEMMA DigitDrawn ==
  ASSUME NEW c, ActTyped(c), ScanOf(c), c.display_enable
  PROVE  LET i == c.scan_position
             a == c.reg["a"][i]
             b == c.reg["b"][i]
         IN  /\ ~Spc /\ ~(DigitAt(c) = 0 /\ Clyde) => Lit(c, a, b, DigitAt(c)) = DigitShown(c, i)
             /\ ~Spc /\ DigitAt(c) = 0 /\ Clyde => DigitShown(c, i) = {}
             /\ Spc => SpiceLooks(a, b) = DigitShown(c, i)
<1> DEFINE i == c.scan_position
           at == DigitAt(c)
           a == c.reg["a"][i]
           b == c.reg["b"][i]
<1>1. /\ i \in Digits /\ i \in Int /\ Bottom(c) <= i /\ i <= Top
      /\ at \in Nat /\ at = Top - i + Room(c)
      /\ at = 0 <=> i = Top /\ Room(c) = 0
  BY Where
<1>2. a \in Digit
  BY <1>1 DEF ActTyped, RegFile, ActRegs, Register
<1>3. Looks(a, b) = Shape(a, b) \cup (IF Has(b, 1) THEN {Point} ELSE {})
  BY <1>2, LooksAre
<1>4. CASE Spc
  <2>1. i >= EXPSIZE
    BY <1>1, <1>4 DEF Bottom
  <2> QED BY <1>4, <2>1 DEF DigitShown
<1>5. CASE ~Spc
  <2>0. Top = WSIZE - 1 /\ WSIZE \in Int /\ EXPSIZE \in Int
    BY <1>5, DigitAssumption, DigitProcessorAssumption DEF Top
  <2>1. CASE ~c.display_14_digit
    <3>1. i >= EXPSIZE - 1 /\ Room(c) = 0 /\ ~HasSigns(c, at)
      BY <1>1, <1>5, <2>1 DEF Bottom, Room, HasSigns
    <3>2. at # WSIZE
      BY <1>1, <2>0, <3>1, DigitProcessorAssumption
    <3>3. DigitShown(c, i) = IF Clyde /\ i = Top THEN {} ELSE Looks(a, b)
      BY <1>5, <2>1, <3>1 DEF DigitShown
    <3>4. Lit(c, a, b, at) = Looks(a, b)
      BY <1>3, <3>1, <3>2 DEF Lit
    <3> QED BY <1>1, <1>5, <3>1, <3>3, <3>4
  <2>2. CASE c.display_14_digit /\ Clyde
    <3>1. Room(c) = 1 /\ ~HasSigns(c, at)
      BY <2>2 DEF Room, HasSigns
    <3>2. at = WSIZE <=> i = 0
      BY <1>1, <2>0, <3>1
    <3>3. DigitShown(c, i) = IF i = 0 THEN {} ELSE Looks(a, b)
      BY <1>5, <2>2 DEF DigitShown
    <3>4. Lit(c, a, b, at) = IF at = WSIZE THEN {} ELSE Looks(a, b)
      BY <1>3, <2>2, <3>1 DEF Lit
    <3>5. at # 0
      BY <1>1, <3>1
    <3> QED BY <1>5, <3>2, <3>3, <3>4, <3>5
  <2>3. CASE c.display_14_digit /\ ~Clyde /\ i # EXPSIZE - 1
    <3>1. ~HasSigns(c, at)
      BY <1>5, <2>3, SignsAt
    <3>2. DigitShown(c, i) = Looks(a, b)
      BY <1>5, <2>3 DEF DigitShown
    <3>3. Lit(c, a, b, at) = Looks(a, b)
      BY <1>3, <2>3, <3>1 DEF Lit
    <3> QED BY <1>5, <2>3, <3>2, <3>3
  <2>4. CASE c.display_14_digit /\ ~Clyde /\ i = EXPSIZE - 1
    <3>1. HasSigns(c, at)
      BY <1>5, <2>4, SignsAt
    <3>2. DigitShown(c, i) = {x \in {Minus} : SegmentLit(c, GSegment \cup {Minus})} \cup {x \in {Point} : Has(b, 1)}
      BY <1>5, <2>4 DEF DigitShown
    <3>3. SegmentLit(c, GSegment \cup {Minus}) <=> Shape(a, b) \cap (GSegment \cup {Minus}) # {}
      <4>1. SegmentLit(c, GSegment \cup {Minus}) <=> \E x \in Looks(a, b) : x \in GSegment \cup {Minus}
        BY <2>4 DEF SegmentLit
      <4> QED BY <1>2, <4>1, SegmentIs, PointApart
    <3>4. Lit(c, a, b, at) = GOnly(Shape(a, b)) \cup (IF Has(b, 1) THEN {Point} ELSE {})
      BY <2>4, <3>1 DEF Lit
    <3>5. GOnly(Shape(a, b)) = {x \in {Minus} : Shape(a, b) \cap (GSegment \cup {Minus}) # {}}
      BY DEF GOnly
    <3>6. {x \in {Point} : Has(b, 1)} = IF Has(b, 1) THEN {Point} ELSE {}
      OBVIOUS
    <3> HIDE DEF a, b, i, at
    <3>7. Lit(c, a, b, at) = DigitShown(c, i)
      BY <3>2, <3>3, <3>4, <3>5, <3>6
    <3> QED BY <1>5, <2>4, <3>7 DEF a, b, i, at
  <2> QED BY <2>1, <2>2, <2>3, <2>4
<1> QED BY <1>4, <1>5

-----------------------------------------------------------------------------
(***************************************************************************)
(* What the scan draws, digit by digit, is what the frame has in that      *)
(* position.                                                               *)
(***************************************************************************)
IsRow(segs) == DOMAIN segs = Positions /\ segs = [p \in Positions |-> segs[p]]

(* What a position that has been scanned shows: the frame, except that the *)
(* sign waits for its digit.                                               *)
Waits(c) == ~Spc /\ c.display_14_digit /\ c.scan_position >= EXPSIZE - 1
Scan(c, p) == IF p = 0 /\ Waits(c) THEN {} ELSE ActFrame(c)[p]
ActShows(c, segs) == \A p \in Positions : p < c.digit_position => segs[p] = Scan(c, p)

(* What the scan of one digit draws *)
Drawn(c, segs, done) ==
  /\ IsRow(done)
  /\ \A p \in Positions : p # DigitAt(c) /\ p # 0 => done[p] = segs[p]
  /\ DigitAt(c) \in Positions => done[DigitAt(c)] = ActFrame(c)[DigitAt(c)]
  /\ DigitAt(c) # 0 =>
       done[0] = IF ~Spc /\ c.display_14_digit /\ c.scan_position > EXPSIZE - 1 THEN {} ELSE ActFrame(c)[0]
  /\ Clyde => done[0] = {}

LEMMA PutIs ==
  ASSUME NEW segs, IsRow(segs), NEW k \in Nat, NEW x
  PROVE  IsRow(Put(segs, k, x)) /\ \A p \in Positions : Put(segs, k, x)[p] = IF p = k THEN x ELSE segs[p]
<1> DEFINE new == [segs EXCEPT ![k] = x]
<1>1. k < MAX_DIGIT_POSITION <=> k \in Positions
  BY DigitProcessorAssumption DEF Positions
<1>2. DOMAIN segs = Positions
  BY DEF IsRow
<1>3. CASE k \in Positions
  <2>1. DOMAIN new = Positions /\ \A p \in Positions : new[p] = IF p = k THEN x ELSE segs[p]
    BY <1>2
  <2>2. new = [p \in Positions |-> new[p]]
    BY <1>2
  <2>3. Put(segs, k, x) = new
    BY <1>1, <1>3 DEF Put
  <2> HIDE DEF new
  <2> QED BY <2>1, <2>2, <2>3 DEF IsRow
<1>4. CASE k \notin Positions
  <2>1. Put(segs, k, x) = segs
    BY <1>1, <1>4 DEF Put
  <2> QED BY <1>4, <2>1
<1> QED BY <1>3, <1>4

LEMMA ZeroIsPosition == 0 \in Positions
BY DigitProcessorAssumption DEF Positions

LEMMA WithSignIs ==
  ASSUME NEW segs, IsRow(segs), NEW sign
  PROVE  /\ IsRow(WithSign(segs, sign))
         /\ \A p \in Positions : WithSign(segs, sign)[p] = IF p = 0 /\ sign THEN {Minus} ELSE segs[p]
BY PutIs DEF WithSign

(* The room that is made for the sign *)
Roomed(c, segs) == IF c.digit_position # DigitAt(c) THEN Put(segs, 0, {}) ELSE segs

LEMMA RoomedIs ==
  ASSUME NEW c, ScanOf(c), NEW segs, IsRow(segs)
  PROVE  /\ IsRow(Roomed(c, segs))
         /\ \A p \in Positions : Roomed(c, segs)[p] = IF p = 0 /\ c.scan_position = Top /\ Room(c) = 1 THEN {} ELSE segs[p]
<1>1. c.digit_position # DigitAt(c) <=> c.scan_position = Top /\ Room(c) = 1
  BY Where
<1> QED BY <1>1, PutIs DEF Roomed

LEMMA FrameOfDigit ==
  ASSUME NEW c, ScanOf(c), DigitAt(c) \in Positions
  PROVE  ActFrame(c)[DigitAt(c)] = IF ~c.display_enable THEN {} ELSE DigitShown(c, c.scan_position)
<1>1. c.scan_position \in Digits /\ Top - (DigitAt(c) - Room(c)) = c.scan_position /\ ~(DigitAt(c) < Room(c))
  BY Where
<1> QED BY <1>1, ActFrameIs

LEMMA FrameOfSign ==
  ASSUME NEW c, Room(c) = 1
  PROVE  ActFrame(c)[0] = IF c.display_enable THEN {x \in {Minus} : SignShown(c)} ELSE {}
<1> DEFINE zero == 0
<1>1. zero \in Positions /\ zero < Room(c)
  BY ZeroIsPosition
<1> HIDE DEF zero
<1>2. ActFrame(c)[zero] = IF ~c.display_enable THEN {} ELSE {x \in {Minus} : SignShown(c)}
  BY <1>1, ActFrameIs
<1> QED BY <1>2 DEF zero

LEMMA SpiceDrawn ==
  ASSUME NEW c, ActTyped(c), ScanOf(c), NEW segs, IsRow(segs), Spc,
         c.digit_position = 0 \/ ActShows(c, segs)
  PROVE  LET a == c.reg["a"][c.scan_position]
             b == c.reg["b"][c.scan_position]
         IN  Drawn(c, segs, display_scan_fn(c, segs, a, b, DigitAt(c)))
<1> DEFINE a == c.reg["a"][c.scan_position]
           b == c.reg["b"][c.scan_position]
           at == DigitAt(c)
           negative == c.scan_position = c.left_scan /\ (Has(b, 4) \/ (b = 2 /\ a = 8))
           shape == CASE b = 6 /\ a = 9 -> {Minus} [] b = 6 /\ a # 9 -> {}
                      [] b # 6 -> {a} \cup (IF Has(b, 1) THEN {Point} ELSE {})
                                      \cup (IF Has(b, 2) THEN {Point, Comma} ELSE {})
           lit == IF c.display_enable THEN shape ELSE {}
           sign == c.display_enable /\ negative
           signed == WithSign(Roomed(c, segs), sign)
           done == Put(signed, at, lit)
<1>1. display_scan_fn(c, segs, a, b, at) = done
  BY DEF display_scan_fn, spice_display_scan, Roomed
<1>2. shape = SpiceLooks(a, b)
  <2>1. CASE b = 6
    BY <2>1 DEF SpiceLooks
  <2>2. CASE b # 6
    <3>1. shape = {a} \cup (IF Has(b, 1) THEN {Point} ELSE {}) \cup (IF Has(b, 2) THEN {Point, Comma} ELSE {})
      BY <2>2
    <3>2. SpiceLooks(a, b) = {a} \cup {x \in {Point} : Has(b, 1) \/ Has(b, 2)} \cup {x \in {Comma} : Has(b, 2)}
      BY <2>2 DEF SpiceLooks
    <3> HIDE DEF shape, a, b
    <3> QED BY <3>1, <3>2
  <2> QED BY <2>1, <2>2
<1> HIDE DEF shape
<1>3. /\ at \in Nat /\ (at = 0 <=> c.scan_position = Top /\ Room(c) = 0)
      /\ (c.digit_position = 0 <=> c.scan_position = Top) /\ (c.scan_position # Top => c.digit_position = at)
  BY Where
<1>4. Room(c) = 1 /\ at # 0 /\ ~Clyde
  BY <1>3 DEF Room, Spc, Clyde
<1>5. IsRow(Roomed(c, segs))
      /\ \A p \in Positions : Roomed(c, segs)[p] = IF p = 0 /\ c.scan_position = Top THEN {} ELSE segs[p]
  BY <1>4, RoomedIs
<1>6. IsRow(signed) /\ \A p \in Positions : signed[p] = IF p = 0 /\ sign THEN {Minus} ELSE Roomed(c, segs)[p]
  <2> HIDE DEF sign
  <2> QED BY <1>5, WithSignIs
<1> HIDE DEF signed
<1>7. IsRow(done) /\ \A p \in Positions : done[p] = IF p = at THEN lit ELSE signed[p]
  BY <1>3, <1>6, PutIs
<1> HIDE DEF done, lit
<1>8. at \in Positions => done[at] = ActFrame(c)[at]
  <2>1. c.display_enable => SpiceLooks(a, b) = DigitShown(c, c.scan_position)
    BY DigitDrawn
  <2> HIDE DEF a, b
  <2> QED BY <1>2, <1>7, <2>1, FrameOfDigit DEF lit
<1>9. \A p \in Positions : p # at /\ p # 0 => done[p] = segs[p]
  <2> HIDE DEF at, negative
  <2> QED BY <1>5, <1>6, <1>7
<1>10. done[0] = ActFrame(c)[0]
  <2>1. 0 \in Positions /\ done[0] = signed[0]
    BY <1>4, <1>7, ZeroIsPosition
  <2>2. c.left_scan = Top
    BY DEF ScanOf
  <2>3. ActFrame(c)[0] = IF c.display_enable THEN {x \in {Minus} : SignShown(c)} ELSE {}
    BY <1>4, FrameOfSign
  <2>4. CASE c.scan_position = Top
    <3>1. negative <=> SignShown(c)
      BY <2>2, <2>4 DEF SignShown
    <3>2. signed[0] = IF c.display_enable /\ negative THEN {Minus} ELSE {}
      <4> HIDE DEF negative
      <4> QED BY <1>5, <1>6, <2>1, <2>4
    <3> HIDE DEF negative
    <3> QED BY <2>1, <2>3, <3>1, <3>2
  <2>5. CASE c.scan_position # Top
    <3>1. ~negative
      BY <2>2, <2>5
    <3>2. signed[0] = segs[0]
      <4> HIDE DEF negative
      <4> QED BY <1>5, <1>6, <2>1, <2>5, <3>1
    <3>3. ActShows(c, segs) /\ 0 < c.digit_position
      BY <1>3, <1>4, <2>5
    <3>4. segs[0] = ActFrame(c)[0]
      BY <2>1, <3>3 DEF ActShows, Scan, Waits
    <3> QED BY <2>1, <3>2, <3>4
  <2> QED BY <2>4, <2>5
<1> HIDE DEF at, a, b
<1>11. Drawn(c, segs, done)
  BY <1>4, <1>7, <1>8, <1>9, <1>10 DEF Drawn, at
<1> QED BY <1>1, <1>11 DEF at, a, b

LEMMA WoodstockDrawn ==
  ASSUME NEW c, ActTyped(c), ScanOf(c), NEW segs, IsRow(segs), ~Spc,
         c.digit_position = 0 \/ ActShows(c, segs), Clyde => segs[0] = {}
  PROVE  LET a == c.reg["a"][c.scan_position]
             b == c.reg["b"][c.scan_position]
         IN  Drawn(c, segs, display_scan_fn(c, segs, a, b, DigitAt(c)))
<1> DEFINE a == c.reg["a"][c.scan_position]
           b == c.reg["b"][c.scan_position]
           i == c.scan_position
           at == DigitAt(c)
           negative == HasSigns(c, at) /\ Shape(a, b) \cap ESegment # {}
           sign == c.display_enable /\ HasSigns(c, at) /\ Shape(a, b) \cap ESegment # {}
           lit == Lit(c, a, b, at)
           signed == WithSign(Roomed(c, segs), sign)
           done == IF at = 0 /\ Clyde THEN signed ELSE Put(signed, at, lit)
<1>1. display_scan_fn(c, segs, a, b, at) = done
  BY DEF display_scan_fn, woodstock_display_scan, Roomed
<1>2. sign <=> c.display_enable /\ negative
  OBVIOUS
<1>3. /\ i \in Digits /\ i \in Int /\ at \in Nat /\ (at = 0 <=> i = Top /\ Room(c) = 0)
      /\ (c.digit_position = 0 <=> i = Top) /\ (i # Top => c.digit_position = at)
  BY Where
<1>4. Top = WSIZE - 1 /\ Top > EXPSIZE - 1 /\ EXPSIZE \in Int /\ Top \in Int
      /\ (Room(c) = 1 <=> c.display_14_digit) /\ (Room(c) = 0 <=> ~c.display_14_digit)
  BY DigitAssumption, DigitProcessorAssumption DEF Top, Room
<1>5. IsRow(Roomed(c, segs))
      /\ \A p \in Positions : Roomed(c, segs)[p] = IF p = 0 /\ i = Top /\ Room(c) = 1 THEN {} ELSE segs[p]
  BY RoomedIs
<1>6. HasSigns(c, at) <=> ~Clyde /\ c.display_14_digit /\ i = EXPSIZE - 1
  BY SignsAt
<1>7. a \in Digit
  BY <1>3 DEF ActTyped, RegFile, ActRegs, Register
<1>8. i = EXPSIZE - 1 => (SegmentLit(c, ESegment) <=> Shape(a, b) \cap ESegment # {})
  <2> SUFFICES ASSUME i = EXPSIZE - 1 PROVE SegmentLit(c, ESegment) <=> Shape(a, b) \cap ESegment # {}
    OBVIOUS
  <2>1. SegmentLit(c, ESegment) <=> \E x \in Looks(a, b) : x \in ESegment
    BY DEF SegmentLit
  <2> QED BY <1>7, <2>1, SegmentIs, PointApart
<1>9. c.display_enable => /\ ~(at = 0 /\ Clyde) => lit = DigitShown(c, i)
                          /\ at = 0 /\ Clyde => DigitShown(c, i) = {}
  BY DigitDrawn
<1>10. ~c.display_enable => lit = {}
  BY DEF Lit
<1>11. IsRow(signed) /\ \A p \in Positions : signed[p] = IF p = 0 /\ sign THEN {Minus} ELSE Roomed(c, segs)[p]
  <2> HIDE DEF sign
  <2> QED BY <1>5, WithSignIs
<1>12. 0 \in Positions
  BY ZeroIsPosition
<1> HIDE DEF lit, signed, negative, sign, a, b
<1>13. IsRow(done) /\ \A p \in Positions : done[p] = IF p = at /\ ~(at = 0 /\ Clyde) THEN lit ELSE signed[p]
  BY <1>3, <1>11, PutIs
<1> HIDE DEF done
<1>14. Clyde => signed[0] = {}
  BY <1>2, <1>5, <1>6, <1>11, <1>12 DEF negative
<1>15. at \in Positions => done[at] = ActFrame(c)[at]
  <2> SUFFICES ASSUME at \in Positions PROVE done[at] = ActFrame(c)[at]
    OBVIOUS
  <2>1. ActFrame(c)[at] = IF ~c.display_enable THEN {} ELSE DigitShown(c, i)
    BY FrameOfDigit
  <2> HIDE DEF at, i
  <2> QED BY <1>9, <1>10, <1>13, <1>14, <2>1
<1>16. \A p \in Positions : p # at /\ p # 0 => done[p] = segs[p]
  <2> HIDE DEF at
  <2> QED BY <1>5, <1>11, <1>13
<1>17. at # 0 => done[0] = signed[0]
  BY <1>12, <1>13
<1>18. at # 0 => done[0] = IF c.display_14_digit /\ i > EXPSIZE - 1 THEN {} ELSE ActFrame(c)[0]
  <2> SUFFICES ASSUME at # 0 PROVE signed[0] = IF c.display_14_digit /\ i > EXPSIZE - 1 THEN {} ELSE ActFrame(c)[0]
    BY <1>17
  <2>1. i # Top => segs[0] = Scan(c, 0)
    <3> SUFFICES ASSUME i # Top PROVE segs[0] = Scan(c, 0)
      OBVIOUS
    <3>1. ActShows(c, segs) /\ 0 < c.digit_position
      BY <1>3
    <3> QED BY <1>12, <3>1 DEF ActShows
  <2>2. CASE ~c.display_14_digit
    <3>1. ~sign /\ i # Top
      BY <1>2, <1>3, <1>4, <1>6, <2>2 DEF negative
    <3>2. signed[0] = segs[0]
      BY <1>4, <1>5, <1>11, <1>12, <2>2, <3>1
    <3> QED BY <2>1, <2>2, <3>1, <3>2 DEF Scan, Waits
  <2>3. CASE c.display_14_digit /\ i > EXPSIZE - 1
    <3>1. ~sign
      BY <1>2, <1>3, <1>4, <1>6, <2>3 DEF negative
    <3>2. signed[0] = Roomed(c, segs)[0]
      BY <1>11, <1>12, <3>1
    <3>3. CASE i = Top
      BY <1>4, <1>5, <1>12, <2>3, <3>2, <3>3
    <3>4. CASE i # Top
      <4>1. Waits(c)
        BY <1>3, <1>4, <2>3 DEF Waits
      <4>2. segs[0] = {}
        BY <2>1, <3>4, <4>1 DEF Scan
      <4> QED BY <1>5, <1>12, <2>3, <3>2, <3>4, <4>2
    <3> QED BY <3>3, <3>4
  <2>4. CASE c.display_14_digit /\ i = EXPSIZE - 1
    <3>1. i # Top /\ Waits(c)
      BY <1>3, <1>4, <2>4 DEF Waits
    <3>2. segs[0] = {}
      BY <2>1, <3>1 DEF Scan
    <3>3. Roomed(c, segs)[0] = {}
      BY <1>5, <1>12, <3>1, <3>2
    <3>4. signed[0] = IF sign THEN {Minus} ELSE {}
      BY <1>11, <1>12, <3>3
    <3>5. negative <=> SignShown(c)
      BY <1>6, <1>8, <2>4 DEF negative, SignShown
    <3>6. ActFrame(c)[0] = IF c.display_enable THEN {x \in {Minus} : SignShown(c)} ELSE {}
      BY <1>4, <2>4, FrameOfSign
    <3>7. ~(i > EXPSIZE - 1)
      BY <1>4, <2>4
    <3> QED BY <1>2, <2>4, <3>4, <3>5, <3>6, <3>7
  <2>5. CASE c.display_14_digit /\ i < EXPSIZE - 1
    <3>1. ~sign /\ i # Top /\ ~Waits(c)
      BY <1>2, <1>3, <1>4, <1>6, <2>5 DEF negative, Waits
    <3>2. signed[0] = segs[0]
      BY <1>5, <1>11, <1>12, <3>1
    <3>3. ~(i > EXPSIZE - 1)
      BY <1>3, <1>4, <2>5
    <3> QED BY <2>1, <3>1, <3>2, <3>3 DEF Scan
  <2>6. i > EXPSIZE - 1 \/ i = EXPSIZE - 1 \/ i < EXPSIZE - 1
    BY <1>3, <1>4
  <2> QED BY <2>2, <2>3, <2>4, <2>5, <2>6
<1>19. Clyde => done[0] = {}
  BY <1>12, <1>13, <1>14, <1>18, <1>17
<1> HIDE DEF at, i
<1>20. Drawn(c, segs, done)
  BY <1>13, <1>15, <1>16, <1>18, <1>19 DEF Drawn, at, i
<1> QED BY <1>1, <1>20 DEF at, a, b

(* The Clyde never shows anything before its digits. *)
LEMMA ClydeDrawn ==
  ASSUME NEW c, ScanOf(c), NEW segs, IsRow(segs), Clyde, segs[0] = {}, NEW a, NEW b
  PROVE  display_scan_fn(c, segs, a, b, DigitAt(c))[0] = {}
<1> DEFINE at == DigitAt(c)
           sign == c.display_enable /\ HasSigns(c, at) /\ Shape(a, b) \cap ESegment # {}
           signed == WithSign(Roomed(c, segs), sign)
           lit == Lit(c, a, b, at)
<1>1. ~Spc /\ ~sign
  BY DEF Spc, Clyde, HasSigns
<1>2. display_scan_fn(c, segs, a, b, at) = IF at = 0 /\ Clyde THEN signed ELSE Put(signed, at, lit)
  BY <1>1 DEF display_scan_fn, woodstock_display_scan, Roomed
<1>3. at \in Nat /\ 0 \in Positions
  BY Where, ZeroIsPosition
<1>4. IsRow(Roomed(c, segs)) /\ Roomed(c, segs)[0] = {}
  BY <1>3, RoomedIs
<1>5. IsRow(signed) /\ signed[0] = {}
  <2> HIDE DEF sign
  <2> QED BY <1>1, <1>3, <1>4, WithSignIs
<1> HIDE DEF signed, lit
<1>6. CASE at = 0
  BY <1>2, <1>5, <1>6
<1>7. CASE at # 0
  BY <1>2, <1>3, <1>5, <1>7, PutIs
<1> QED BY <1>6, <1>7

(* A cycle of the scan *)
LEMMA CycleDraws ==
  ASSUME NEW c, ActTyped(c), ScanOf(c), NEW segs, IsRow(segs), Clyde => segs[0] = {}
  PROVE  LET s == Scanned(c, segs, DigitAt(c))
             e == ActShown(c)
         IN  /\ IsRow(s) /\ (Clyde => s[0] = {})
             /\ ActShows(c, segs) => ActShows(e, s)
             /\ ActShows(c, segs) /\ Ends(c) => s = ActFrame(e)
<1> DEFINE a == c.reg["a"][c.scan_position]
           b == c.reg["b"][c.scan_position]
           at == DigitAt(c)
           done == display_scan_fn(c, segs, a, b, at)
           s == Scanned(c, segs, at)
           e == ActShown(c)
<1>1. s = [p \in Positions |-> IF Ends(c) /\ p > at THEN {} ELSE done[p]]
  BY DEF Scanned, IsRow
<1>2. Clyde => done[0] = {}
  BY ClydeDrawn
<1>3. ActShows(c, segs) => Drawn(c, segs, done)
  <2>1. CASE Spc
    BY <2>1, SpiceDrawn
  <2>2. CASE ~Spc
    BY <2>2, WoodstockDrawn
  <2> QED BY <2>1, <2>2
<1>4. /\ ActDisplayed(e) = ActDisplayed(c) /\ e.left_scan = c.left_scan
      /\ e.scan_position = (IF Ends(c) THEN c.left_scan ELSE c.scan_position - 1)
      /\ e.digit_position = (IF Ends(c) THEN 0 ELSE at + 1)
  BY ShownActIs
<1>5. ActFrame(e) = ActFrame(c) /\ e.display_14_digit = c.display_14_digit
  BY <1>4, SameFrame DEF ActDisplayed
<1>6. /\ c.scan_position \in Int /\ at \in Nat /\ at = Top - c.scan_position + Room(c)
      /\ (c.digit_position = 0 <=> c.scan_position = Top)
      /\ (c.scan_position # Top => c.digit_position = at)
      /\ (at = 0 <=> c.scan_position = Top /\ Room(c) = 0)
      /\ Bottom(c) <= c.scan_position /\ c.scan_position <= Top
  BY Where
<1>7. Ends(c) <=> c.scan_position = Bottom(c)
  BY AtIs
<1>8. Top \in Int /\ Bottom(c) \in Int /\ Room(c) \in {0, 1} /\ EXPSIZE \in Int /\ 0 \in Positions
      /\ \A p \in Positions : p \in Nat
  BY TopIs, ZeroIsPosition, DigitProcessorAssumption DEF Digits, Positions
<1> SUFFICES /\ IsRow(s) /\ (Clyde => s[0] = {})
             /\ ActShows(c, segs) => ActShows(e, s)
             /\ ActShows(c, segs) /\ Ends(c) => s = ActFrame(e)
  OBVIOUS
<1> HIDE DEF done, s, e, a, b
<1>9. IsRow(s) /\ (Clyde => s[0] = {})
  <2>1. ~(0 > at)
    BY <1>6
  <2>2. IsRow(s)
    BY <1>1 DEF IsRow
  <2> HIDE DEF at
  <2> QED BY <1>1, <1>2, <1>8, <2>1, <2>2
<1> SUFFICES ASSUME ActShows(c, segs)
             PROVE  /\ ActShows(e, s)
                    /\ Ends(c) => s = ActFrame(e)
  BY <1>9
<1>10. Drawn(c, segs, done)
  BY <1>3
<1>11. ASSUME NEW p \in Positions, p <= at, ~(p = 0 /\ at # 0) PROVE done[p] = ActFrame(c)[p]
  <2>1. CASE p = at
    BY <1>10, <2>1 DEF Drawn
  <2>2. CASE p # at
    <3>1. p # 0 /\ p < at /\ done[p] = segs[p]
      BY <1>6, <1>8, <1>10, <1>11, <2>2 DEF Drawn
    <3>2. c.scan_position # Top
      <4> SUFFICES ASSUME c.scan_position = Top PROVE FALSE
        OBVIOUS
      <4>1. at = Room(c)
        BY <1>6, <1>8
      <4> QED BY <1>8, <3>1, <4>1
    <3>3. p < c.digit_position
      BY <1>6, <3>1, <3>2
    <3> QED BY <3>1, <3>3 DEF ActShows, Scan
  <2> QED BY <2>1, <2>2
<1>12. at # 0 => done[0] = IF ~Spc /\ c.display_14_digit /\ c.scan_position > EXPSIZE - 1 THEN {} ELSE ActFrame(c)[0]
  BY <1>10 DEF Drawn
<1>13. CASE ~Ends(c)
  <2> SUFFICES ASSUME NEW p \in Positions, p < at + 1 PROVE s[p] = Scan(e, p)
    BY <1>4, <1>13 DEF ActShows
  <2>1. s[p] = done[p] /\ p <= at
    BY <1>1, <1>6, <1>8, <1>13
  <2>2. Waits(e) <=> ~Spc /\ c.display_14_digit /\ c.scan_position > EXPSIZE - 1
    BY <1>4, <1>5, <1>6, <1>8, <1>13 DEF Waits
  <2>3. CASE p = 0 /\ at # 0
    BY <1>5, <1>12, <2>1, <2>2, <2>3 DEF Scan
  <2>4. CASE p = 0 /\ at = 0
    <3>1. ~c.display_14_digit
      BY <1>6, <2>4 DEF Room
    <3> QED BY <1>5, <1>11, <2>1, <2>2, <2>4, <3>1 DEF Scan
  <2>5. CASE p # 0
    BY <1>5, <1>11, <2>1, <2>5 DEF Scan
  <2> QED BY <2>3, <2>4, <2>5
<1>14. CASE Ends(c)
  <2>1. ActShows(e, s)
    BY <1>4, <1>8, <1>14 DEF ActShows
  <2>2. ASSUME NEW p \in Positions, p > at PROVE ActFrame(c)[p] = {}
    <3> DEFINE i == Top - (p - Room(c))
    <3>1. ~(p < Room(c)) /\ i < Bottom(c) /\ i \in Int
      BY <1>6, <1>7, <1>8, <1>14, <2>2
    <3>2. ActFrame(c)[p] = IF ~c.display_enable THEN {} ELSE IF i \in Digits THEN DigitShown(c, i) ELSE {}
      BY <3>1, ActFrameIs
    <3> HIDE DEF i
    <3>3. i \in Digits => DigitShown(c, i) = {}
      <4> SUFFICES ASSUME i \in Digits PROVE DigitShown(c, i) = {}
        OBVIOUS
      <4>1. CASE Spc
        <5>1. ~(i >= EXPSIZE)
          BY <1>8, <3>1, <4>1 DEF Bottom
        <5> QED BY <4>1, <5>1 DEF DigitShown
      <4>2. CASE ~Spc /\ ~c.display_14_digit
        <5>1. ~(i >= EXPSIZE - 1)
          BY <1>8, <3>1, <4>2 DEF Bottom
        <5> QED BY <4>2, <5>1 DEF DigitShown
      <4>3. CASE ~Spc /\ c.display_14_digit
        BY <3>1, <4>3 DEF Bottom, Digits
      <4> QED BY <4>1, <4>2, <4>3
    <3> QED BY <3>2, <3>3
  <2>3. ASSUME NEW p \in Positions, ~(p > at) PROVE done[p] = ActFrame(c)[p]
    <3>1. p <= at
      BY <1>6, <1>8, <2>3
    <3>2. CASE p = 0 /\ at # 0
      <4>1. ~Spc /\ c.display_14_digit => ~(c.scan_position > EXPSIZE - 1)
        <5>1. ~Spc /\ c.display_14_digit => c.scan_position = 0
          BY <1>7, <1>14 DEF Bottom
        <5>2. EXPSIZE >= 1
          BY DigitProcessorAssumption, DigitAssumption
        <5> QED BY <1>8, <5>1, <5>2
      <4> QED BY <1>12, <3>2, <4>1
    <3>3. CASE ~(p = 0 /\ at # 0)
      BY <1>11, <3>1, <3>3
    <3> QED BY <3>2, <3>3
  <2>4. s = [p \in Positions |-> ActFrame(c)[p]]
    <3> HIDE DEF at
    <3> QED BY <1>1, <1>14, <2>2, <2>3
  <2>5. s = ActFrame(e)
    BY <1>5, <2>4, FrameFunction
  <2> QED BY <2>1, <2>5
<1> QED BY <1>13, <1>14

(* The invariant *)
ActScan ==
  /\ setup \in ActSessions /\ ActTyped(ad) /\ ScanOf(ad)
  /\ IsRow(act_segments) /\ (Clyde => act_segments[0] = {})
  /\ act_steady \in BOOLEAN
  /\ act_steady => ActShows(ad, act_segments)

(* It says the same of a program that goes on. *)
LEMMA FramePrimed ==
  ASSUME setup' = setup PROVE ActFrame(ad)' = ActFrame(ad')
<1>1. Spc' = Spc /\ Clyde' = Clyde
  BY DEF Spc, Clyde
<1> QED BY <1>1 DEF ActFrame

LEMMA ScanPrimed ==
  ASSUME setup' = setup, setup \in ActSessions, ActTyped(ad'), ScanOf(ad'),
         IsRow(act_segments'), Clyde => act_segments'[0] = {}, act_steady' \in BOOLEAN,
         act_steady' => ActShows(ad', act_segments')
  PROVE  ActScan'
<1>1. ActFrame(ad)' = ActFrame(ad')
  BY FramePrimed
<1>2. Spc' = Spc /\ Clyde' = Clyde
  BY DEF Spc, Clyde
<1>3. ActShows(ad, act_segments)' <=> ActShows(ad', act_segments')
  BY <1>1, <1>2 DEF ActShows, Scan, Waits, Positions
<1>4. ScanOf(ad)' <=> ScanOf(ad')
  BY <1>2 DEF ScanOf, Top, Bottom, Room
<1>5. ActTyped(ad)' <=> ActTyped(ad')
  BY DEF ActTyped, ActShaped
<1>6. IsRow(act_segments)' <=> IsRow(act_segments')
  BY DEF IsRow, Positions
<1> QED BY <1>2, <1>3, <1>4, <1>5, <1>6 DEF ActScan

(* A cycle, whichever instruction *)
Works(c) ==
  /\ ActTyped(c) /\ ScanOf(c)
  /\ c.digit_position = 0 \/ (act_steady /\ ActDisplayed(c) = ActDisplayed(ad)) => ActShows(c, act_segments)

LEMMA CycleWorks ==
  ASSUME ActScan, NEW w \in 0..1023
  PROVE  Works(Worked(ad, w))
<1> DEFINE c == Worked(ad, w)
<1>1. Continues(ad, c)
  BY WorkedContinues DEF ActScan
<1>2. ScanOf(c) /\ ActTyped(c)
  BY <1>1, ContinuedScan DEF Continues, ActScan
<1> HIDE DEF c
<1>3. c.digit_position = 0 => ActShows(c, act_segments)
  BY DEF ActShows, Positions
<1>4. ASSUME act_steady, ActDisplayed(c) = ActDisplayed(ad), c.digit_position # 0 PROVE ActShows(c, act_segments)
  <2>1. ScanAt(c) = ScanAt(ad)
    BY <1>1, <1>4 DEF Continues, Starts
  <2>2. c.digit_position = ad.digit_position /\ c.scan_position = ad.scan_position /\ c.display_14_digit = ad.display_14_digit
    BY <2>1 DEF ScanAt
  <2>3. ActFrame(c) = ActFrame(ad)
    BY <1>4, SameFrame
  <2>4. ActShows(ad, act_segments)
    BY <1>4 DEF ActScan
  <2> QED BY <2>2, <2>3, <2>4 DEF ActShows, Scan, Waits
<1>5. ActTyped(c) /\ ScanOf(c)
      /\ (c.digit_position = 0 \/ (act_steady /\ ActDisplayed(c) = ActDisplayed(ad)) => ActShows(c, act_segments))
  BY <1>2, <1>3, <1>4
<1> QED BY <1>5 DEF c, Works

(* An event *)
LEMMA EventKeeps ==
  ASSUME ActScan, NEW c, ActTyped(c), ActEvent(c), ScanAt(c) = ScanAt(ad) \/ Starts(c)
  PROVE  ActScan'
<1>1. ad' = c /\ act_steady' = (act_steady /\ ActDisplayed(c) = ActDisplayed(ad)) /\ setup' = setup
      /\ act_segments' = act_segments
  BY DEF ActEvent
<1>2. ScanOf(c)
  BY ContinuedScan DEF Continues, ActScan
<1>3. act_steady' => ActShows(c, act_segments)
  <2>1. CASE Starts(c)
    BY <2>1 DEF ActShows, Starts, Positions
  <2>2. CASE ScanAt(c) = ScanAt(ad)
    <3>1. c.digit_position = ad.digit_position /\ c.scan_position = ad.scan_position
          /\ c.display_14_digit = ad.display_14_digit
      BY <2>2 DEF ScanAt
    <3>2. ActDisplayed(c) = ActDisplayed(ad) => ActFrame(c) = ActFrame(ad)
      BY SameFrame
    <3>3. act_steady => ActShows(ad, act_segments)
      BY DEF ActScan
    <3> QED BY <1>1, <3>1, <3>2, <3>3 DEF ActShows, Scan, Waits
  <2> QED BY <2>1, <2>2
<1>4. act_steady' \in BOOLEAN
  BY <1>1
<1>5. ActTyped(ad') /\ ScanOf(ad') /\ ActShows(ad', act_segments') = ActShows(c, act_segments)
  BY <1>1, <1>2
<1> QED BY <1>1, <1>3, <1>4, <1>5, ScanPrimed DEF ActScan

LEMMA ClearedStarts ==
  ASSUME NEW c, ActTyped(c)
  PROVE  ActTyped(Cleared(c)) /\ Starts(Cleared(c))
<1> DEFINE x == IF setup.platform = "woodstock" THEN c.ext_flag \ {"F1"} ELSE c.ext_flag
           regs == ClearRegs(c.reg)
           e == [c EXCEPT !.decimal = TRUE, !.then_goto = FALSE, !.reg = regs, !.s = {}, !.ext_flag = x,
                          !.p = 0, !.incremented = <<FALSE, FALSE>>, !.display_14_digit = FALSE,
                          !.display_enable = FALSE, !.key_buf = NoKeyBuf, !.key_flag = FALSE]
<1>1. Cleared(c) = display_setup(e)
  BY DEF Cleared
<1>2. regs \in RegFile
  BY ClearTyped DEF ActTyped
<1> HIDE DEF regs, x
<1>3. -1 \in -1..255 /\ 0 \in Nat /\ NoKeyBuf = -1
  BY DEF NoKeyBuf
<1>4. DOMAIN c = ActAll /\ c.f \in Digit /\ c.ram \in [ActRam -> Register]
  BY DEF ActTyped, ActShaped
<1>5. DOMAIN e = ActAll /\ e.reg = regs /\ e.f = c.f /\ e.ram = c.ram /\ e.p = 0 /\ e.key_buf = NoKeyBuf
      /\ e.key_flag = FALSE
  BY <1>4 DEF ActAll
<1> HIDE DEF e
<1>6. ActTyped(e)
  BY <1>2, <1>3, <1>4, <1>5 DEF ActTyped, ActShaped
<1> QED BY <1>1, <1>6, SetupStarts

LEMMA NewActTyped == ActTyped(NewAct) /\ Starts(NewAct)
<1> DEFINE scanner == IF setup.key_scanner_as_flags THEN {"KE"} ELSE {}
           c == [reg |-> [x \in ActRegs |-> NULL], f |-> 0, p |-> 0, incremented |-> <<FALSE, FALSE>>, decimal |-> FALSE,
           carry |-> FALSE, then_goto |-> FALSE, s |-> {}, ext_flag |-> {}, scanner |-> {},
           scanner_s0 |-> scanner, key_flag |-> FALSE, key_buf |-> 0,
           display_enable |-> FALSE, display_14_digit |-> FALSE, left_scan |-> 0, right_scan |-> 0,
           scan_position |-> 0, digit_position |-> 0, ram_addr |-> 0, ram |-> [a \in ActRam |-> NULL]]
<1>1. NewAct = Cleared(c)
  BY DEF NewAct
<1>2. [x \in ActRegs |-> NULL] \in RegFile /\ [a \in ActRam |-> NULL] \in [ActRam -> Register] /\ 0 \in Digit
  BY NoDigits, HexIs DEF RegFile
<1> HIDE DEF scanner
<1>3. ActTyped(c)
  BY <1>2 DEF ActTyped, ActShaped, ActAll
<1> HIDE DEF c
<1> QED BY <1>1, <1>3, ClearedStarts

(* An ACT that was just made has drawn nothing of its scan. *)
LEMMA ActScanInit == ActInit => ActScan
<1> SUFFICES ASSUME ActInit PROVE ActScan
  OBVIOUS
<1>1. ad = NewAct /\ act_segments = FrameOf({}) /\ act_steady = TRUE /\ setup \in ActSessions
  BY DEF ActInit
<1>2. ActTyped(ad) /\ Starts(ad)
  BY <1>1, NewActTyped
<1>3. IsRow(act_segments) /\ act_segments[0] = {}
  BY <1>1, ZeroIsPosition DEF FrameOf, IsRow, Positions
<1>4. ActShows(ad, act_segments)
  BY <1>2 DEF ActShows, Starts, Positions
<1> QED BY <1>1, <1>2, <1>3, <1>4 DEF ActScan, Starts

(* What a cycle does, with the word that it executes *)
RunsWord(w) ==
  LET c == Worked(ad, w)
  IN  /\ ad' = ActShown(c)
      /\ act_segments' = Scanned(c, act_segments, DigitAt(c))
      /\ act_steady' = (c.digit_position = 0 \/ (act_steady /\ ActDisplayed(c) = ActDisplayed(ad)))
      /\ UNCHANGED setup

LEMMA CycleChooses ==
  ASSUME ActScan, ActCycle PROVE \E w \in 0..1023 : RunsWord(w)
<1>1. PICK w \in (IF ad.then_goto THEN {0} ELSE setup.words) : RunsWord(w)
  BY Zenon DEF ActCycle, RunsWord
<1>2. setup.words \subseteq 0..1023
  BY ActAssumption DEF ActScan
<1>3. w \in 0..1023
  BY <1>1, <1>2
<1> QED BY <1>1, <1>3

(* The invariant of the ACT is inductive. *)
LEMMA ActScanStays == ActScan /\ [ActNext]_advars => ActScan'
<1> SUFFICES ASSUME ActScan, [ActNext]_advars PROVE ActScan'
  OBVIOUS
<1>0. ActTyped(ad) /\ setup \in ActSessions
  BY DEF ActScan
<1> DEFINE Stays(c) == ActTyped(c) /\ ScanAt(c) = ScanAt(ad)
<1>1. CASE ActCycle
  <2>1. PICK w \in 0..1023 : RunsWord(w)
    BY <1>1, CycleChooses
  <2> DEFINE c == Worked(ad, w)
  <2>2. /\ ad' = ActShown(c)
        /\ act_segments' = Scanned(c, act_segments, DigitAt(c))
        /\ act_steady' = (c.digit_position = 0 \/ (act_steady /\ ActDisplayed(c) = ActDisplayed(ad)))
        /\ setup' = setup
    BY <2>1 DEF RunsWord
  <2>3. ActTyped(c) /\ ScanOf(c)
        /\ (c.digit_position = 0 \/ (act_steady /\ ActDisplayed(c) = ActDisplayed(ad)) => ActShows(c, act_segments))
    BY CycleWorks DEF Works
  <2> HIDE DEF c
  <2>4. ActTyped(ActShown(c)) /\ ScanOf(ActShown(c))
    BY <2>3, ShownActIs, ShownScan
  <2>5. LET s == Scanned(c, act_segments, DigitAt(c))
            e == ActShown(c)
        IN  /\ IsRow(s) /\ (Clyde => s[0] = {})
            /\ ActShows(c, act_segments) => ActShows(e, s)
    BY <2>3, CycleDraws DEF ActScan
  <2>6. act_steady' \in BOOLEAN
    BY <2>2
  <2> QED BY <1>0, <2>2, <2>3, <2>4, <2>5, <2>6, ScanPrimed
<1>2. CASE act_key
  <2>1. \A k \in setup.keys : k \in -1..255
    BY <1>0, ActAssumption
  <2>2. \A k \in -1..255 : Stays([ad EXCEPT !.key_buf = k, !.key_flag = TRUE])
    BY <1>0 DEF ActTyped, ActShaped, ActAll, ScanAt
  <2>3. Stays([ad EXCEPT !.key_flag = FALSE])
    BY <1>0 DEF ActTyped, ActShaped, ActAll, ScanAt
  <2> QED BY <1>2, <2>1, <2>2, <2>3, EventKeeps DEF act_key
<1>3. CASE set_ext_flag
  <2>1. PICK x : \/ ActEvent([ad EXCEPT !.ext_flag = x]) \/ ActEvent([ad EXCEPT !.scanner = x])
                 \/ ActEvent([ad EXCEPT !.scanner_s0 = x])
    BY <1>3 DEF set_ext_flag
  <2>2. Stays([ad EXCEPT !.ext_flag = x]) /\ Stays([ad EXCEPT !.scanner = x]) /\ Stays([ad EXCEPT !.scanner_s0 = x])
    BY <1>0 DEF ActTyped, ActShaped, ActAll, ScanAt
  <2> QED BY <2>1, <2>2, EventKeeps
<1>4. CASE pulse_ext_flag
  <2>1. PICK x : ActEvent([ad EXCEPT !.ext_flag = x])
    BY <1>4 DEF pulse_ext_flag
  <2>2. Stays([ad EXCEPT !.ext_flag = x])
    BY <1>0 DEF ActTyped, ActShaped, ActAll, ScanAt
  <2> QED BY <2>1, <2>2, EventKeeps
<1>5. CASE woodstock_clear_memory
  <2> DEFINE ram == [a \in DOMAIN ad.ram |-> NULL]
  <2>1. ActEvent([ad EXCEPT !.ram = ram])
    BY <1>5 DEF woodstock_clear_memory
  <2>2. ram \in [ActRam -> Register]
    BY <1>0, NoDigits DEF ActTyped
  <2> HIDE DEF ram
  <2>3. Stays([ad EXCEPT !.ram = ram])
    BY <1>0, <2>2 DEF ActTyped, ActShaped, ActAll, ScanAt
  <2> QED BY <2>1, <2>3, EventKeeps
<1>6. CASE woodstock_reset
  BY <1>0, <1>6, ClearedStarts, EventKeeps DEF woodstock_reset
<1>7. CASE woodstock_read
  <2>1. PICK file \in setup.files : ActEvent(FromActFile(ad, file))
    BY <1>7 DEF woodstock_read
  <2>2. DOMAIN file = ActFields /\ file.reg \in RegFile /\ file.f \in Digit /\ file.ram \in [ActRam -> Register]
        /\ file.p \in Nat
    BY <1>0, ActFileAssumption DEF RegFile
  <2> DEFINE e == Over(file, ad)
  <2>3. ActTyped(e)
    BY <1>0, <2>2 DEF Over, ActTyped, ActShaped, ActAll, ActFields
  <2> HIDE DEF e
  <2> QED BY <2>1, <2>3, SetupStarts, EventKeeps DEF FromActFile, e
<1>8. CASE UNCHANGED advars
  <2>1. ad' = ad /\ setup' = setup /\ act_segments' = act_segments /\ act_steady' = act_steady
    BY <1>8 DEF advars
  <2> QED BY <2>1, ScanPrimed DEF ActScan
<1> QED BY <1>1, <1>2, <1>3, <1>4, <1>5, <1>6, <1>7, <1>8 DEF ActNext

(* The frame that a cycle completes *)
LEMMA ActFrameShown ==
  ASSUME ActScan, ActCycle
  PROVE  ad'.digit_position = 0 /\ act_steady' = TRUE => act_segments' = ActFrame(ad')
<1>0. ActTyped(ad) /\ setup \in ActSessions
  BY DEF ActScan
<1>1. PICK w \in 0..1023 : RunsWord(w)
  BY CycleChooses
<1> DEFINE c == Worked(ad, w)
<1>2. /\ ad' = ActShown(c)
      /\ act_segments' = Scanned(c, act_segments, DigitAt(c))
      /\ act_steady' = (c.digit_position = 0 \/ (act_steady /\ ActDisplayed(c) = ActDisplayed(ad)))
  BY <1>1 DEF RunsWord
<1>3. ActTyped(c) /\ ScanOf(c)
      /\ (c.digit_position = 0 \/ (act_steady /\ ActDisplayed(c) = ActDisplayed(ad)) => ActShows(c, act_segments))
  <2>1. Works(Worked(ad, w))
    BY <1>1, CycleWorks
  <2>2. Works(c)
    BY <2>1
  <2> HIDE DEF c
  <2> QED BY <2>2, Zenon DEF Works
<1> HIDE DEF c
<1> SUFFICES ASSUME ad'.digit_position = 0, act_steady' = TRUE PROVE act_segments' = ActFrame(ad')
  OBVIOUS
<1>6. ActShows(c, act_segments)
  <2>1. c.digit_position = 0 \/ (act_steady /\ ActDisplayed(c) = ActDisplayed(ad))
    BY <1>2, Zenon
  <2> QED BY <1>3, <2>1
<1>4. Ends(c)
  <2>1. ActShown(c).digit_position = IF Ends(c) THEN 0 ELSE DigitAt(c) + 1
    BY <1>3, ShownActIs
  <2>2. DigitAt(c) \in Nat
    BY <1>3, AtIs
  <2> QED BY <1>2, <2>1, <2>2
<1>5. Scanned(c, act_segments, DigitAt(c)) = ActFrame(ActShown(c))
  BY <1>3, <1>4, <1>6, CycleDraws DEF ActScan
<1> QED BY <1>2, <1>5

(***************************************************************************)
(* The processors together: of those that rest nothing changes.            *)
(***************************************************************************)
MCInv == (part = "classic" => ScanInv) /\ (part = "act" => ActScan)

LEMMA MCInvInit == MCInit => MCInv
<1> SUFFICES ASSUME MCInit PROVE MCInv
  OBVIOUS
<1>1. (part = "act" => ActInit) /\ (part = "classic" => ClassicInit)
  BY DEF MCInit
<1> QED BY <1>1, ScanInit, ActScanInit DEF MCInv

(* One of the processors steps and the others rest. *)
LEMMA MCInvStays == MCInv /\ [MCNext]_<<part, wvars, advars, clvars, ndvars>> => MCInv'
<1> SUFFICES ASSUME MCInv, [MCNext]_<<part, wvars, advars, clvars, ndvars>> PROVE MCInv'
  OBVIOUS
<1>1. part' = part /\ (part = "classic" => [ClassicNext]_clvars) /\ (part = "act" => [ActNext]_advars)
  BY DEF MCNext, WoodstockStep, ActStep, ClassicStep, NutStep
<1>2. part = "classic" => ScanInv'
  BY <1>1, ScanStays DEF MCInv
<1>3. part = "act" => ActScan'
  BY <1>1, ActScanStays DEF MCInv
<1> QED BY <1>1, <1>2, <1>3 DEF MCInv

(* A Classic, or a Woodstock's ACT, that another one reads the state file  *)
(* of and that had any past of its own, leaves after the next instruction  *)
(* the same in every register that the file has, for every word but those  *)
(* that look at what the file leaves out.  (classic_cpu_reg_detail,        *)
(* woodstock_cpu_reg_detail)                                               *)
THEOREM RestoredGoOnCorrect == MCSpec => []RestoredGoOn
<1>1. MCInit => MCInv
  BY MCInvInit
<1>2. MCInv /\ [MCNext]_<<part, wvars, advars, clvars, ndvars>> => MCInv'
  BY MCInvStays
<1>3. MCInv => RestoredGoOn
  BY ClassicRestored, ActRestored DEF MCInv, RestoredGoOn, ScanInv, ActScan, ActTyped, ActShaped, ActShape
<1> QED BY <1>1, <1>2, <1>3, PTL DEF MCSpec

LEMMA ClassicFrames ==
  ASSUME MCInv, [MCNext]_<<part, wvars, advars, clvars, ndvars>>
  PROVE  [ClassicInstruction /\ cl.display_scan_position = right_scan /\ steady' = TRUE
          /\ Displayed(cl') = Displayed(cl) => segments' = Frame(cl')]_clvars
<1>1. CASE part = "classic"
  BY <1>1, FrameShown DEF MCInv
<1>2. CASE part # "classic"
  BY <1>2 DEF MCNext, WoodstockStep, ActStep, ClassicStep, NutStep, clvars
<1> QED BY <1>1, <1>2

LEMMA ActFrames ==
  ASSUME MCInv, [MCNext]_<<part, wvars, advars, clvars, ndvars>>
  PROVE  [ActCycle /\ ad'.digit_position = 0 /\ act_steady' = TRUE => act_segments' = ActFrame(ad')]_advars
<1>1. CASE part = "act"
  BY <1>1, ActFrameShown DEF MCInv
<1>2. CASE part # "act"
  BY <1>2 DEF MCNext, WoodstockStep, ActStep, ClassicStep, NutStep, advars
<1> QED BY <1>1, <1>2

(* The frame that a scan of the display completes, of a Classic or an ACT  *)
(* of any of the three kinds, shows A and B as they are, if the program    *)
(* left them as they were during the scan: whatever the row showed before, *)
(* and also after a reset or a state file that began the scan anew.        *)
(* (classic_display_scan, woodstock_display_scan, spice_display_scan)      *)
THEOREM FramesShowTheRegistersCorrect == MCSpec => FramesShowTheRegisters
<1>1. MCInit => MCInv
  BY MCInvInit
<1>2. MCInv /\ [MCNext]_<<part, wvars, advars, clvars, ndvars>> => MCInv'
  BY MCInvStays
<1>3. MCInv /\ [MCNext]_<<part, wvars, advars, clvars, ndvars>>
      => [ClassicInstruction /\ cl.display_scan_position = right_scan /\ steady' = TRUE
          /\ Displayed(cl') = Displayed(cl) => segments' = Frame(cl')]_clvars
  BY ClassicFrames
<1>4. MCInv /\ [MCNext]_<<part, wvars, advars, clvars, ndvars>>
      => [ActCycle /\ ad'.digit_position = 0 /\ act_steady' = TRUE => act_segments' = ActFrame(ad')]_advars
  BY ActFrames
<1> QED BY <1>1, <1>2, <1>3, <1>4, PTL
        DEF MCSpec, FramesShowTheRegisters, FrameShowsTheRegisters, ActFrameShowsTheRegisters
=============================================================================
