------------------------------ MODULE NutData ------------------------------
(***************************************************************************)
(* The instructions of the Nut processor that move data (proc_nut.c): the  *)
(* pointers, the status bits, G, F, M and N, the keycode, the rotation,    *)
(* and the one bus on which the memory and the peripherals listen.         *)
(* Arithmetic has the operations on fields, NutFlow the flow of control,   *)
(* PlugIns the program memory.                                             *)
(***************************************************************************)
EXTENDS DigitOps, Sequences, FiniteSets

CONSTANTS NUT_SSIZE,      \* 14: status bits, of which 0 to 7 can be moved
          BLOCK,          \* 16: registers of a block, which a read or write selects from
          ram_exists,     \* the addresses of the memory
          pf_exists,      \* the addresses of the peripherals that answer
          KEY_DIGIT,      \* 3: the digit of C that the lower one of a keycode goes to
          KeyCode,        \* of the key that was pressed last, as two digits
          NutSessions     \* sets of instruction words and of second words that a program uses

ASSUME NutDataAssumption ==
  /\ NUT_SSIZE \in Nat /\ NUT_SSIZE >= 8 /\ WSIZE > 3 /\ BLOCK \in Nat \ {0}
  /\ KEY_DIGIT \in Nat /\ KEY_DIGIT + 1 < WSIZE
  /\ ram_exists \subseteq Nat /\ pf_exists \subseteq Nat /\ KeyCode \in (0..15) \X (0..15)
  /\ \A x \in NutSessions : x.words \subseteq 0..1023 /\ x.seconds \subseteq 0..1023

VARIABLES program, nd     \* nd: the part of nut_reg_t, and what the peripherals hold

ndvars == <<program, nd>>

nut_tmap == <<3, 4, 5, 10, 8, 6, 11, -1, 2, 9, 7, 13, 1, 12, 0, -1>>
Arg4(w) == w \div 64
Mapped(w) == nut_tmap[Arg4(w) + 1]

(* nut_init_ops, for the instructions that this module has *)
NutDataOp(w) ==
  LET row == w % 64
      mapped == Mapped(w) # -1
  IN  CASE row = \h04 /\ mapped -> "op_clr_s"
        [] row = \h08 /\ mapped -> "op_set_s"
        [] row = \h0c /\ mapped -> "op_test_s"
        [] row = \h14 /\ mapped -> "op_test_pt"
        [] row = \h1c /\ mapped -> "op_set_pt"
        [] row = \h3c /\ mapped -> "op_rcr"
        [] row = \h10 -> "op_lc"
        [] row = \h28 -> "op_write_reg_n"
        [] row = \h38 -> "op_read_reg_n"
        [] w = \h3c4 -> "op_clear_all_s"  [] w = \h3d4 -> "op_dec_pt"   [] w = \h3dc -> "op_inc_pt"
        [] w = \h058 -> "op_c_to_g"       [] w = \h098 -> "op_g_to_c"   [] w = \h0d8 -> "op_c_exch_g"
        [] w = \h158 -> "op_c_to_m"       [] w = \h198 -> "op_m_to_c"   [] w = \h1d8 -> "op_c_exch_m"
        [] w = \h258 -> "op_sb_to_f"      [] w = \h298 -> "op_f_to_sb"  [] w = \h2d8 -> "op_f_exch_sb"
        [] w = \h358 -> "op_c_to_s"       [] w = \h398 -> "op_s_to_c"   [] w = \h3d8 -> "op_c_exch_s"
        [] w = \h0a0 -> "op_sel_p"        [] w = \h0e0 -> "op_sel_q"    [] w = \h120 -> "op_test_pq"
        [] w = \h1a0 -> "op_clear_abc"    [] w = \h220 -> "op_keys_to_c" [] w = \h130 -> "op_ldi"
        [] w = \h070 -> "op_c_to_n"       [] w = \h0b0 -> "op_n_to_c"   [] w = \h0f0 -> "op_c_exch_n"
        [] w = \h270 -> "op_c_to_dadd"    [] w = \h3f0 -> "op_c_to_pfad" [] w = \h2f0 -> "op_c_to_data"
        [] w = \h370 -> "op_or"           [] w = \h3b0 -> "op_and"
        [] OTHER -> "another"

(* nut_tmap sets the pointer to digits of the register only *)
ASSUME NutSessionsAssumption ==
  \A x \in NutSessions : \A w \in x.words : NutDataOp(w) = "op_set_pt" => Mapped(w) < WSIZE

-----------------------------------------------------------------------------
(* The pointers: p, q and which of them pt is *)
pt(d) == IF d.q_sel THEN d.q ELSE d.p
SetPt(d, n) == IF d.q_sel THEN [d EXCEPT !.q = n] ELSE [d EXCEPT !.p = n]
Less(n) == IF n = 0 THEN WSIZE - 1 ELSE n - 1
More(n) == IF n + 1 >= WSIZE THEN 0 ELSE n + 1

(* op: NutDataOp of the word *)
pointer_operations(d, w, op) ==
  CASE op = "op_dec_pt"  -> SetPt(d, Less(pt(d)))
    [] op = "op_inc_pt"  -> SetPt(d, More(pt(d)))
    [] op = "op_set_pt"  -> SetPt(d, Mapped(w))
    [] op = "op_test_pt" -> [d EXCEPT !.carry = pt(d) = Mapped(w)]
    [] op = "op_test_pq" -> [d EXCEPT !.carry = d.p = d.q]
    [] op = "op_sel_p"   -> [d EXCEPT !.q_sel = FALSE]
    [] op = "op_sel_q"   -> [d EXCEPT !.q_sel = TRUE]
    [] op = "op_lc"      -> SetPt([d EXCEPT !.c[pt(d)] = Arg4(w)], Less(pt(d)))

(* G and the two digits at the pointer, or the ends of C *)
g_operations_PastTheEnd(d, op) ==         \* mutant: at the left end the digit past it is the first one
  LET low == pt(d)
      high == More(low)
      g_to_c == [d.c EXCEPT ![low] = d.g[1], ![high] = d.g[2]]
      c_to_g == IF low < WSIZE - 1 THEN <<d.c[low], d.c[high]>> ELSE <<d.c[0], d.c[WSIZE - 1]>>
  IN  CASE op = "op_c_to_g"   -> [d EXCEPT !.g = c_to_g]
        [] op = "op_g_to_c"   -> [d EXCEPT !.c = g_to_c]
        [] op = "op_c_exch_g" -> [d EXCEPT !.c = g_to_c, !.g = c_to_g]

g_operations(d, op) ==
  LET low == IF pt(d) < WSIZE - 1 THEN pt(d) ELSE 0
      high == IF pt(d) < WSIZE - 1 THEN pt(d) + 1 ELSE WSIZE - 1
      g_to_c == [d.c EXCEPT ![low] = d.g[1], ![high] = d.g[2]]
      c_to_g == <<d.c[low], d.c[high]>>
  IN  CASE op = "op_c_to_g"   -> [d EXCEPT !.g = c_to_g]
        [] op = "op_g_to_c"   -> [d EXCEPT !.c = g_to_c]
        [] op = "op_c_exch_g" -> [d EXCEPT !.c = g_to_c, !.g = c_to_g]

(* Status bits 0 to 7 as two digits *)
BitsOf(x) == {b \in 0..3 : (x \div <<1, 2, 4, 8>>[b + 1]) % 2 = 1}
get_s_bits(d, first) ==
  LET V(b, mask) == IF (first + b) \in d.s THEN mask ELSE 0 IN V(0, 1) + V(1, 2) + V(2, 4) + V(3, 8)
set_s_bits(d, pair) ==
  [d EXCEPT !.s = {b \in @ : b > 7} \cup BitsOf(pair[1]) \cup {b + 4 : b \in BitsOf(pair[2])}]
SBits(d) == <<get_s_bits(d, 0), get_s_bits(d, 4)>>

s_operations(d, w, op) ==
  CASE op = "op_clr_s"  -> [d EXCEPT !.s = @ \ {Mapped(w)}]
    [] op = "op_set_s"  -> [d EXCEPT !.s = @ \cup {Mapped(w)}]
    [] op = "op_test_s" -> [d EXCEPT !.carry = Mapped(w) \in d.s]
    [] op = "op_clear_all_s" -> set_s_bits(d, <<0, 0>>)
    [] op = "op_c_to_s"   -> set_s_bits(d, <<d.c[0], d.c[1]>>)
    [] op = "op_s_to_c"   -> [d EXCEPT !.c[0] = SBits(d)[1], !.c[1] = SBits(d)[2]]
    [] op = "op_c_exch_s" ->
         [set_s_bits(d, <<d.c[0], d.c[1]>>) EXCEPT !.c[0] = SBits(d)[1], !.c[1] = SBits(d)[2]]
    [] op = "op_sb_to_f"   -> [d EXCEPT !.fo = SBits(d)]
    [] op = "op_f_to_sb"   -> set_s_bits(d, d.fo)
    [] op = "op_f_exch_sb" -> [set_s_bits(d, d.fo) EXCEPT !.fo = SBits(d)]

(* M and N *)
m_n_operations(d, op) ==
  CASE op = "op_c_to_m"   -> [d EXCEPT !.m = d.c]
    [] op = "op_m_to_c"   -> [d EXCEPT !.c = d.m]
    [] op = "op_c_exch_m" -> [d EXCEPT !.c = d.m, !.m = d.c]
    [] op = "op_c_to_n"   -> [d EXCEPT !.n = d.c]
    [] op = "op_n_to_c"   -> [d EXCEPT !.c = d.n]
    [] op = "op_c_exch_n" -> [d EXCEPT !.c = d.n, !.n = d.c]

Bitwise2(x, y, fn(_, _)) == LET V(b, mask) == IF fn(b \in BitsOf(x), b \in BitsOf(y)) THEN mask ELSE 0
                            IN V(0, 1) + V(1, 2) + V(2, 4) + V(3, 8)

(* C to the right and around *)
op_rcr(d, w) == [d EXCEPT !.c = [i \in Digits |-> d.c[(i + Mapped(w)) % WSIZE]]]

c_operations(d, w, op) ==
  CASE op = "op_rcr"       -> op_rcr(d, w)
    [] op = "op_or"        -> [d EXCEPT !.c = [i \in Digits |-> Bitwise2(d.c[i], d.a[i], LAMBDA x, y : x \/ y)]]
    [] op = "op_and"       -> [d EXCEPT !.c = [i \in Digits |-> Bitwise2(d.c[i], d.a[i], LAMBDA x, y : x /\ y)]]
    [] op = "op_clear_abc" -> [d EXCEPT !.a = NULL, !.c = NULL]
    [] op = "op_keys_to_c" -> [d EXCEPT !.c[KEY_DIGIT + 1] = KeyCode[1], !.c[KEY_DIGIT] = KeyCode[2]]
    [] op = "op_ldi"       -> [d EXCEPT !.ldi = TRUE]

(* The bus.  A read or write of register n selects it, but for a read of 0.*)
(* Memory and peripheral may both answer; the memory wins a read.          *)
Select(d, n) == [d EXCEPT !.ram_addr = @ - (@ % BLOCK) + (n % BLOCK)]

ReadBus(d, n) ==
  IF d.ram_addr \in ram_exists THEN d.ram[d.ram_addr]
  ELSE IF d.pf_addr \in pf_exists THEN d.pf[d.pf_addr] ELSE NULL

WriteBus(d) ==
  [d EXCEPT !.ram = [r \in ram_exists |-> IF r = d.ram_addr THEN d.c ELSE @[r]],
            !.pf = [p \in pf_exists |-> IF p = d.pf_addr THEN d.c ELSE @[p]]]

ram_operations(d, w, op) ==
  LET n == Arg4(w)
      selected == IF n = 0 THEN d ELSE Select(d, n)
  IN  CASE op = "op_c_to_dadd" -> [d EXCEPT !.ram_addr = (d.c[2] * 256 + d.c[1] * 16 + d.c[0]) % 1024]
        [] op = "op_c_to_pfad" -> [d EXCEPT !.pf_addr = d.c[1] * 16 + d.c[0]]
        [] op = "op_read_reg_n" -> [selected EXCEPT !.c = ReadBus(selected, n)]
        [] op = "op_write_reg_n" -> WriteBus(Select(d, n))
        [] op = "op_c_to_data"  -> WriteBus(d)

NutDataBy(d, w, op) ==
  CASE op \in {"op_dec_pt", "op_inc_pt", "op_set_pt", "op_test_pt", "op_test_pq", "op_sel_p", "op_sel_q", "op_lc"}
         -> pointer_operations(d, w, op)
    [] op \in {"op_c_to_g", "op_g_to_c", "op_c_exch_g"} -> g_operations(d, op)
    [] op \in {"op_c_to_m", "op_m_to_c", "op_c_exch_m", "op_c_to_n", "op_n_to_c", "op_c_exch_n"}
         -> m_n_operations(d, op)
    [] op \in {"op_rcr", "op_or", "op_and", "op_clear_abc", "op_keys_to_c", "op_ldi"} -> c_operations(d, w, op)
    [] op \in {"op_c_to_dadd", "op_c_to_pfad", "op_read_reg_n", "op_write_reg_n", "op_c_to_data"}
         -> ram_operations(d, w, op)
    [] op = "another" -> d
    [] OTHER -> s_operations(d, w, op)

NutDataDo(d, w) == NutDataBy(d, w, NutDataOp(w))

(* op_ldi_cycle_2 *)
Second(d, w) == [d EXCEPT !.ldi = FALSE, !.c[2] = w \div 256, !.c[1] = (w \div 16) % 16, !.c[0] = w % 16]

NutDataDone(d, w) == LET first == [d EXCEPT !.carry = FALSE] IN IF d.ldi THEN Second(first, w) ELSE NutDataDo(first, w)

-----------------------------------------------------------------------------
NutDataInit ==
  /\ program \in NutSessions
  /\ nd = [a |-> NULL, c |-> NULL, m |-> NULL, n |-> NULL, g |-> <<0, 0>>, p |-> 0, q |-> 0, q_sel |-> FALSE,
           s |-> {}, fo |-> <<0, 0>>, carry |-> TRUE, ldi |-> FALSE, ram_addr |-> 0, pf_addr |-> 0,
           ram |-> [r \in ram_exists |-> NULL], pf |-> [p \in pf_exists |-> NULL]]

NutDataInstruction ==
  /\ \E w \in IF nd.ldi THEN program.seconds ELSE program.words : nd' = NutDataDone(nd, w)
  /\ UNCHANGED program

(* an arithmetic instruction, that copies C to A *)
NutArithmetic == program.copies /\ ~nd.ldi /\ nd' = [nd EXCEPT !.a = nd.c, !.carry = FALSE] /\ UNCHANGED program

nut_clear_memory ==
  /\ program.clears /\ ~nd.ldi
  /\ nd' = [nd EXCEPT !.ram = [r \in ram_exists |-> NULL]] /\ UNCHANGED program

NutDataNext == NutDataInstruction \/ NutArithmetic \/ nut_clear_memory
NutDataSpec == NutDataInit /\ [][NutDataNext]_ndvars
-----------------------------------------------------------------------------
(* Instructions that the firmware uses in pairs undo each other, wherever  *)
(* the pointer is: what is put aside in G, M, N, F, the status bits, a     *)
(* register or a peripheral comes back as it was, twice an exchange is     *)
(* none, and the pointer and a rotation come back.  (op_c_exch_g ... with  *)
(* the left end of C, set_s_bits, op_rcr, op_read_reg_n)                   *)
Do2(d, w1, w2) == NutDataDo(NutDataDo(d, w1), w2)

PairsUndoEachOther ==
  ~nd.ldi =>
    /\ \A w \in {\h0d8, \h1d8, \h0f0, \h3d8, \h2d8} : Do2(nd, w, w) = nd       \* the exchanges
    /\ Do2(nd, \h3d4, \h3dc) = nd /\ Do2(nd, \h3dc, \h3d4) = nd                 \* dec pt, inc pt
    /\ \A w \in {<<\h058, \h098>>, <<\h158, \h198>>, <<\h070, \h0b0>>} : Do2(nd, w[1], w[2]).c = nd.c
    /\ Do2(nd, \h098, \h058).g = nd.g /\ Do2(nd, \h398, \h358).s = nd.s /\ Do2(nd, \h258, \h298).s = nd.s
    /\ \A w, v \in {\h03c + 64 * x : x \in 0..15 \ {7, 15}} :                  \* rcr, once around
         (Mapped(w) + Mapped(v)) % WSIZE = 0 => Do2(nd, w, v) = nd
    /\ \A n \in 1..(BLOCK - 1) :
         LET d == Do2(nd, \h028 + 64 * n, \h038 + 64 * n)
         IN  d.ram_addr \in ram_exists \/ d.pf_addr \in pf_exists => d.c = nd.c

(* ... and a program that has selected a block without memory talks to its *)
(* peripherals only, until it selects another: no read or write of a       *)
(* register strays into the memory, though each selects a register.        *)
Empty(addr) == \A r \in ram_exists : r \div BLOCK # addr \div BLOCK

PeripheralsSpareTheMemory ==
  ~nd.ldi /\ Empty(nd.ram_addr) =>
    \A w \in {v \in program.words : NutDataOp(v) # "op_c_to_dadd"} :
      NutDataDo(nd, w).ram = nd.ram /\ Empty(NutDataDo(nd, w).ram_addr)

(* Both: what the firmware puts aside is what it finds, where it put it.   *)
DataIsKept == program \in NutSessions => PairsUndoEachOther /\ PeripheralsSpareTheMemory
=============================================================================
