----------------------------- MODULE Arithmetic -----------------------------
(***************************************************************************)
(* The arithmetic instructions of the three families of processors, as     *)
(* each of them executes its 32 operations (op_arith of proc_nut.c,        *)
(* proc_classic.c and proc_woodstock.c), next to what the assembler and    *)
(* the disassembler of the family call them.  A machine executes any of    *)
(* them, on any field, one after the other.                                *)
(***************************************************************************)
EXTENDS DigitOps, Sequences

CONSTANTS EXPSIZE,    \* 3: digits of the exponent with its sign
          Machines    \* [arch, decimal, uses: the registers that the program writes to]

ASSUME FieldAssumption == EXPSIZE \in 1..(WSIZE - 2)
ASSUME MachineAssumption ==
  \A m \in Machines : m.arch \in {"nut", "classic", "woodstock"} /\ m.decimal \in BOOLEAN

VARIABLES machine,    \* one of Machines
          r           \* the registers "a", "b" and "c"

avars == <<machine, r>>

Regs == {"a", "b", "c"}
arithmetic_base(dec) == IF dec THEN DEC ELSE HEX

(* What a case of op_arith calls: fn of digit_ops.c, its operands, and the *)
(* carry that is set before.                                               *)
Call(fn, dest, x, y, carry) == [fn |-> fn, dest |-> dest, x |-> x, y |-> y, carry |-> carry]
zero(d) == Call("zero", d, "NULL", "NULL", FALSE)
copy(d, s) == Call("copy", d, s, "NULL", FALSE)
exch(d, s) == Call("exch", d, s, "NULL", FALSE)
add(d, x, y) == Call("add", d, x, y, FALSE)
sub(d, x, y) == Call("sub", d, x, y, FALSE)
inc(d) == Call("add", d, d, "NULL", TRUE)
dec(d, x, y) == Call("sub", d, x, y, TRUE)
compare(x, y) == Call("sub", "NULL", x, y, FALSE)
equal(x) == Call("equal", "NULL", x, "NULL", FALSE)
nonequal(x, y) == Call("nonequal", "NULL", x, y, FALSE)
right(d) == Call("right", d, d, "NULL", FALSE)
left(d) == Call("left", d, d, "NULL", FALSE)

nut_op_arith ==
  << zero("a"), zero("b"), zero("c"), exch("a", "b"), copy("b", "a"), exch("a", "c"), copy("c", "b"),
     exch("b", "c"), copy("a", "c"), add("a", "a", "b"), add("a", "a", "c"), inc("a"), sub("a", "a", "b"),
     dec("a", "a", "NULL"), sub("a", "a", "c"), add("c", "c", "c"), add("c", "a", "c"), inc("c"),
     sub("c", "a", "c"), dec("c", "c", "NULL"), sub("c", "NULL", "c"), dec("c", "NULL", "c"),
     nonequal("b", "NULL"), nonequal("c", "NULL"), compare("a", "c"), compare("a", "b"),
     nonequal("a", "NULL"), nonequal("a", "c"), right("a"), right("b"), right("c"), left("a") >>

classic_op_arith ==
  << nonequal("b", "NULL"), zero("b"), compare("a", "c"), equal("c"), copy("c", "b"), sub("c", "NULL", "c"),
     zero("c"), dec("c", "NULL", "c"), left("a"), copy("b", "a"), sub("c", "a", "c"), dec("c", "c", "NULL"),
     copy("a", "c"), nonequal("c", "NULL"), add("c", "a", "c"), inc("c"), compare("a", "b"), exch("b", "c"),
     right("c"), equal("a"), right("b"), add("c", "c", "c"), right("a"), zero("a"), sub("a", "a", "b"),
     exch("a", "b"), sub("a", "a", "c"), dec("a", "a", "NULL"), add("a", "a", "b"), exch("a", "c"),
     add("a", "a", "c"), inc("a") >>

woodstock_op_arith ==
  << zero("a"), zero("b"), exch("a", "b"), copy("b", "a"), exch("a", "c"), copy("a", "c"), copy("c", "b"),
     exch("b", "c"), zero("c"), add("a", "a", "b"), add("a", "a", "c"), add("c", "c", "c"), add("c", "a", "c"),
     inc("a"), left("a"), inc("c"), sub("a", "a", "b"), sub("c", "a", "c"), dec("a", "a", "NULL"),
     dec("c", "c", "NULL"), sub("c", "NULL", "c"), dec("c", "NULL", "c"), nonequal("b", "NULL"),
     nonequal("c", "NULL"), compare("a", "c"), compare("a", "b"), equal("a"), equal("c"), sub("a", "a", "c"),
     right("a"), right("b"), right("c") >>

op_arith == [nut |-> nut_op_arith, classic |-> classic_op_arith, woodstock |-> woodstock_op_arith]

(* The fields, by the three bits of the instruction; p: the pointer, q:    *)
(* the Nut's other one.  The Classic's and the Woodstock's p can point     *)
(* past the register.                                                      *)
nut_field(p, q) ==
  << <<p, p>>, <<0, EXPSIZE - 1>>, <<0, p>>, <<0, WSIZE - 1>>, <<p, IF p > q THEN WSIZE - 1 ELSE q>>,
     <<EXPSIZE - 1, EXPSIZE - 1>>, <<EXPSIZE, WSIZE - 2>>, <<WSIZE - 1, WSIZE - 1>> >>

AtP(p) == <<p, IF p < WSIZE THEN p ELSE 0>>
UpToP(p) == <<0, IF p < WSIZE THEN p ELSE WSIZE - 1>>

classic_field(p) ==
  << AtP(p), <<EXPSIZE, WSIZE - 2>>, <<0, EXPSIZE - 1>>, <<0, WSIZE - 1>>, UpToP(p),
     <<EXPSIZE, WSIZE - 1>>, <<EXPSIZE - 1, EXPSIZE - 1>>, <<WSIZE - 1, WSIZE - 1>> >>

woodstock_field(p) ==
  << AtP(p), UpToP(p), <<EXPSIZE - 1, EXPSIZE - 1>>, <<0, EXPSIZE - 1>>, <<WSIZE - 1, WSIZE - 1>>,
     <<EXPSIZE, WSIZE - 2>>, <<0, WSIZE - 1>>, <<EXPSIZE, WSIZE - 1>> >>

SeqRange(s) == {s[i] : i \in DOMAIN s}

Fields ==
  [nut       |-> UNION {SeqRange(nut_field(p, q)) : p, q \in Digits},
   classic   |-> UNION {SeqRange(classic_field(p)) : p \in 0..WSIZE},
   woodstock |-> UNION {SeqRange(woodstock_field(p)) : p \in 0..WSIZE}]

(* The registers and the carry after a call on the field from f to l.      *)
Source(regs, name) == IF name = "NULL" THEN NULL ELSE regs[name]

Execute(call, regs, f, l, base) ==
  LET x == Source(regs, call.x)
      y == Source(regs, call.y)
      sum == reg_add_sub(call.fn = "sub", Source(regs, call.dest), x, y, f, l, call.carry, base)
      to(v) == [regs EXCEPT ![call.dest] = v]
      Left(v, carry) == [regs |-> v, carry |-> carry]
  IN  CASE call.fn = "zero"     -> Left(to(reg_zero(regs[call.dest], f, l)), FALSE)
        [] call.fn = "copy"     -> Left(to(reg_copy(regs[call.dest], x, f, l)), FALSE)
        [] call.fn = "exch"     -> Left([regs EXCEPT ![call.dest] = reg_copy(@, x, f, l),
                                                     ![call.x] = reg_copy(@, regs[call.dest], f, l)], FALSE)
        [] call.fn = "equal"    -> Left(regs, reg_test_equal(x, y, f, l))
        [] call.fn = "nonequal" -> Left(regs, reg_test_nonequal(x, y, f, l))
        [] call.fn = "right"    -> Left(to(reg_shift_right(x, f, l)), FALSE)
        [] call.fn = "left"     -> Left(to(reg_shift_left(x, f, l)), FALSE)
        [] call.fn \in {"add", "sub"} ->
             Left(IF call.dest = "NULL" THEN regs ELSE to(sum.dest), sum.carry)

-----------------------------------------------------------------------------
(* What the instructions are called: in the Nut's and the Woodstock's      *)
(* disassembler, and in the Classic's assembler, which has none.           *)
Set(d, x, sign, y, k) == [stmt |-> "set", d |-> d, x |-> x, sign |-> sign, y |-> y, k |-> k]
Swap(d, x) == [stmt |-> "swap", d |-> d, x |-> x]
Shift(d, way) == [stmt |-> way, d |-> d, x |-> d]
If(x, rel, y) == [stmt |-> "if", d |-> "0", x |-> x, rel |-> rel, y |-> y]

Plus(d, x, y) == Set(d, x, "+", y, 0)
Minus(d, x, y) == Set(d, x, "-", y, 0)
Clear(d) == Plus(d, "0", "0")
Copy(x, d) == Plus(d, x, "0")
Plus1(d) == Set(d, d, "+", "0", 1)
Minus1(d) == Set(d, d, "-", "0", 1)

nut_arith_info ==
  << Clear("a"), Clear("b"), Clear("c"), Swap("a", "b"), Copy("a", "b"), Swap("a", "c"), Copy("b", "c"),
     Swap("b", "c"), Copy("c", "a"), Plus("a", "a", "b"), Plus("a", "a", "c"), Plus1("a"), Minus("a", "a", "b"),
     Minus1("a"), Minus("a", "a", "c"), Plus("c", "c", "c"), Plus("c", "a", "c"), Plus1("c"),
     Minus("c", "a", "c"), Minus1("c"), Minus("c", "0", "c"), Set("c", "0", "-", "c", 1),
     If("b", "#", "0"), If("c", "#", "0"), If("a", "<", "c"), If("a", "<", "b"), If("a", "#", "0"),
     If("a", "#", "c"), Shift("a", "right"), Shift("b", "right"), Shift("c", "right"), Shift("a", "left") >>

classic_assembled ==
  << If("b", "=", "0"), Clear("b"), If("a", ">=", "c"), If("c", ">=", "1"), Copy("b", "c"), Minus("c", "0", "c"),
     Clear("c"), Set("c", "0", "-", "c", 1), Shift("a", "left"), Copy("a", "b"), Minus("c", "a", "c"),
     Minus1("c"), Copy("c", "a"), If("c", "=", "0"), Plus("c", "a", "c"), Plus1("c"), If("a", ">=", "b"),
     Swap("b", "c"), Shift("c", "right"), If("a", ">=", "1"), Shift("b", "right"), Plus("c", "c", "c"),
     Shift("a", "right"), Clear("a"), Minus("a", "a", "b"), Swap("a", "b"), Minus("a", "a", "c"), Minus1("a"),
     Plus("a", "a", "b"), Swap("a", "c"), Plus("a", "a", "c"), Plus1("a") >>

woodstock_arith_info ==
  << Clear("a"), Clear("b"), Swap("a", "b"), Copy("a", "b"), Swap("a", "c"), Copy("c", "a"), Copy("b", "c"),
     Swap("b", "c"), Clear("c"), Plus("a", "a", "b"), Plus("a", "a", "c"), Plus("c", "c", "c"),
     Plus("c", "a", "c"), Plus1("a"), Shift("a", "left"), Plus1("c"), Minus("a", "a", "b"), Minus("c", "a", "c"),
     Minus1("a"), Minus1("c"), Minus("c", "0", "c"), Set("c", "0", "-", "c", 1), If("b", "=", "0"),
     If("c", "=", "0"), If("a", ">=", "c"), If("a", ">=", "b"), If("a", "#", "0"), If("c", "#", "0"),
     Minus("a", "a", "c"), Shift("a", "right"), Shift("b", "right"), Shift("c", "right") >>

Says == [nut |-> nut_arith_info, classic |-> classic_assembled, woodstock |-> woodstock_arith_info]

-----------------------------------------------------------------------------
AInit ==
  /\ machine \in Machines
  /\ r = [x \in Regs |-> NULL]             \* as after a reset

Instruction(op, field) ==
  /\ r' = Execute(op_arith[machine.arch][op], r, field[1], field[2], arithmetic_base(machine.decimal)).regs
  /\ \A x \in Regs \ machine.uses : r'[x] = NULL
  /\ UNCHANGED machine

ANext == \E op \in 1..32 : \E field \in Fields[machine.arch] : Instruction(op, field)
ASpec == AInit /\ [][ANext]_avars
-----------------------------------------------------------------------------
(* The number in a field, in the base of the mode, and how many there are. *)
Number(reg, f, l, base) ==
  LET n[i \in f..(l + 1)] == IF i = l + 1 THEN 0 ELSE reg[i] + base * n[i + 1]
  IN  IF f > l THEN 0 ELSE n[f]

Power(base, k) ==
  LET p[i \in 0..k] == IF i = 0 THEN 1 ELSE base * p[i - 1]
  IN  p[k]

Holds(x, rel, y) ==
  CASE rel = "=" -> x = y [] rel = "#" -> x # y [] rel = "<" -> x < y [] rel = ">=" -> x >= y

(* The statement s, as arithmetic on the numbers in the field: what the    *)
(* destination holds, and the other one of a swap.  A sum or a difference  *)
(* that does not fit leaves a carry and the number modulo the field's      *)
(* size; a test leaves the carry when it is false, but on the Nut, which   *)
(* branches on the carry, when it is true.                                 *)
Meaning(s, regs, f, l, base) ==
  LET size == IF f > l THEN 1 ELSE Power(base, l - f + 1)
      V(x) == CASE x \in Regs -> Number(regs[x], f, l, base) [] x = "0" -> 0 [] x = "1" -> 1
      n == V(s.x) + (IF s.sign = "+" THEN V(s.y) + s.k ELSE 0 - V(s.y) - s.k)
      Fits == n \in 0..(size - 1)
  IN  CASE s.stmt = "set"   -> [d |-> n % size, x |-> V(s.x), carry |-> ~Fits]
        [] s.stmt = "swap"  -> [d |-> V(s.x), x |-> V(s.d), carry |-> FALSE]
        [] s.stmt = "right" -> [d |-> V(s.d) \div base, x |-> 0, carry |-> FALSE]
        [] s.stmt = "left"  -> [d |-> (V(s.d) * base) % size, x |-> 0, carry |-> FALSE]
        [] s.stmt = "if"    -> [d |-> 0, x |-> V(s.x),
                                carry |-> Holds(V(s.x), s.rel, V(s.y)) = (machine.arch = "nut")]

Written(s) == CASE s.stmt = "if" -> {} [] s.stmt = "swap" -> {s.d, s.x} [] OTHER -> {s.d}

(* An instruction does what its name says, on its field and nowhere else,  *)
(* in every register that the program can have, for every pointer.  (Only  *)
(* a composition that does something else has a machine not in Machines.)  *)
DoesWhatItSays ==
  machine \in Machines =>
    \A op \in 1..32 : \A field \in Fields[machine.arch] :
      LET f == field[1]
          l == field[2]
          s == Says[machine.arch][op]
          base == arithmetic_base(machine.decimal)
          done == Execute(op_arith[machine.arch][op], r, f, l, base)
          m == Meaning(s, r, f, l, base)
          N(x) == Number(done.regs[x], f, l, base)
      IN  /\ done.carry = m.carry
          /\ s.stmt # "if" => N(s.d) = m.d
          /\ s.stmt = "swap" => N(s.x) = m.x
          /\ \A x \in Regs : \A i \in Digits :
               x \notin Written(s) \/ i \notin f..l => done.regs[x][i] = r[x][i]
=============================================================================
