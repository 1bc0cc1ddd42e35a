-------------------------- MODULE ArithmeticProofs --------------------------
(***************************************************************************)
(* That every arithmetic instruction does what it says, for registers of   *)
(* any length and any two bases: the numbers in a field by induction over  *)
(* its digits, one digit of a sum and of a difference, the ripple of the   *)
(* carry through the field, the shifts as division and multiplication, and *)
(* the tests; then the tables of the three families, instruction by        *)
(* instruction.                                                            *)
(*                                                                         *)
(* A fact about a table [i \in f..l |-> ...] or a recursive function is    *)
(* stated in a predicate of its own (Numbered, Weighted, Rippled, ...), so *)
(* that it can be cited as one.                                            *)
(***************************************************************************)
EXTENDS Arithmetic, IntegerLemmas, TLAPS
-----------------------------------------------------------------------------
(* Powers of the base *)
Powers(base, k) ==
  LET p[i \in 0..k] == IF i = 0 THEN 1 ELSE base * p[i - 1]
  IN  p

(* The powers of the base are positive, and each is the base times the one *)
(* before.                                                                 *)
LEMMA PowersAre ==
  ASSUME NEW base \in Nat, NEW k \in Nat
  PROVE  /\ Powers(base, k) \in [0..k -> Int]
         /\ Powers(base, k)[0] = 1
         /\ \A i \in 0..k : i # 0 => Powers(base, k)[i] = base * Powers(base, k)[i - 1]
<1> DEFINE Step == [i \in 0..k |-> [v \in Int |-> base * v]]
<1>0. 0 \in Int /\ 1 \in Int /\ k \in Int /\ 0 <= k
  OBVIOUS
<1>1. Step \in [0..k -> [Int -> Int]]
  OBVIOUS
<1>2. \A i \in 0..k, v \in Int : Step[i][v] = base * v
  OBVIOUS
<1> HIDE DEF Step
<1>3. PICK g : ByRecursion(g, 0, k, Int, 1, Step)
  BY <1>0, <1>1, FunctionByRecursion
<1>4. ASSUME NEW i \in 0..k, i # 0 PROVE g[i] = base * g[i - 1]
  <2>1. i - 1 \in 0..k
    BY <1>4
  <2>2. g[i - 1] \in Int
    BY <1>3, <2>1 DEF ByRecursion
  <2>3. g[i] = Step[i][g[i - 1]]
    BY <1>3, <1>4 DEF ByRecursion
  <2> QED BY <2>2, <2>3, <1>2
<1>5. g = [i \in 0..k |-> IF i = 0 THEN 1 ELSE base * g[i - 1]]
  BY <1>3, <1>4 DEF ByRecursion
<1> DEFINE P == Powers(base, k)
<1>6. P = [i \in 0..k |-> IF i = 0 THEN 1 ELSE base * P[i - 1]]
  BY <1>5 DEF Powers
<1> HIDE DEF P
<1>7. P[0] = 1 /\ \A i \in 0..k : i # 0 => P[i] = base * P[i - 1]
  BY <1>6
<1>8. \A i \in 0..k : P[i] \in Int
  <2> DEFINE S == {i \in 0..k : P[i] \in Int}
  <2>1. 0 \in S
    BY <1>7
  <2>2. \A i \in 0..(k - 1) : i \in S => i + 1 \in S
    <3>1. ASSUME NEW i \in 0..(k - 1), P[i] \in Int PROVE P[i + 1] \in Int
      <4>1. i + 1 \in 0..k /\ i + 1 # 0 /\ (i + 1) - 1 = i
        OBVIOUS
      <4> QED BY <4>1, <1>7, <3>1
    <3> QED BY <3>1
  <2> HIDE DEF S
  <2>3. \A i \in 0..k : i \in S
    BY <1>0, <2>1, <2>2, Upwards
  <2> QED BY <2>3 DEF S
<1>9. P \in [0..k -> Int]
  BY <1>6, <1>8
<1> QED BY <1>7, <1>9 DEF P

(* The table of the powers does not depend on where it ends.               *)
LEMMA PowersAgree ==
  ASSUME NEW base \in Nat, NEW k \in Nat, NEW m \in Nat, k <= m
  PROVE  \A i \in 0..k : Powers(base, k)[i] = Powers(base, m)[i]
<1> DEFINE P == Powers(base, k)
           Q == Powers(base, m)
           S == {i \in 0..k : P[i] = Q[i]}
<1>1. P[0] = 1 /\ Q[0] = 1 /\ (\A i \in 0..k : i # 0 => P[i] = base * P[i - 1])
      /\ \A i \in 0..m : i # 0 => Q[i] = base * Q[i - 1]
  BY PowersAre
<1> HIDE DEF P, Q
<1>2. 0 \in S
  BY <1>1
<1>3. \A i \in 0..(k - 1) : i \in S => i + 1 \in S
  <2>1. ASSUME NEW i \in 0..(k - 1), P[i] = Q[i] PROVE P[i + 1] = Q[i + 1]
    <3>1. i + 1 \in 0..k /\ i + 1 \in 0..m /\ i + 1 # 0 /\ (i + 1) - 1 = i
      OBVIOUS
    <3> QED BY <3>1, <1>1, <2>1
  <2> QED BY <2>1
<1> HIDE DEF S
<1>4. \A i \in 0..k : i \in S
  BY <1>2, <1>3, Upwards
<1> QED BY <1>4 DEF S, P, Q

(* So Power is what its name says.                                         *)
LEMMA PowerIs ==
  ASSUME NEW base \in Nat
  PROVE  /\ Power(base, 0) = 1
         /\ \A k \in Nat : Power(base, k) \in Int /\ Power(base, k + 1) = base * Power(base, k)
<1>1. \A k \in Nat : Power(base, k) = Powers(base, k)[k]
  BY DEF Power, Powers
<1>2. ASSUME NEW k \in Nat PROVE Power(base, k) \in Int /\ Power(base, k + 1) = base * Power(base, k)
  <2>1. k + 1 \in Nat /\ k + 1 # 0 /\ (k + 1) - 1 = k /\ k \in 0..k /\ k + 1 \in 0..(k + 1) /\ k <= k + 1
    OBVIOUS
  <2>2. Powers(base, k + 1)[k + 1] = base * Powers(base, k + 1)[k]
    BY <2>1, PowersAre
  <2>3. Powers(base, k)[k] = Powers(base, k + 1)[k]
    BY <2>1, PowersAgree
  <2>4. Powers(base, k)[k] \in Int
    BY <2>1, PowersAre
  <2> QED BY <1>1, <2>1, <2>2, <2>3, <2>4
<1>3. Power(base, 0) = 1
  BY <1>1, PowersAre
<1> QED BY <1>2, <1>3

-----------------------------------------------------------------------------
(* One digit of a sum or a difference *)
Bases == {HEX, DEC}
One(carry) == IF carry = TRUE THEN 1 ELSE 0

(* A sum below twice the number of hexadecimal digits leaves at most one   *)
(* carry.                                                                  *)
LEMMA ModHEX ==
  ASSUME NEW v \in Int, 0 <= v, v < 2 * HEX
  PROVE  (v < HEX => v % HEX = v) /\ (~(v < HEX) => v % HEX = v - HEX)
<1>0. HEX \in Nat \ {0}
  BY DigitAssumption
<1>1. CASE v < HEX
  <2>1. v \in 0..(HEX - 1) /\ 0 * HEX + v = v
    BY <1>0, <1>1
  <2>2. (0 * HEX + v) % HEX = v
    BY <1>0, <2>1, DivModUnique
  <2> QED BY <1>1, <2>1, <2>2
<1>2. CASE ~(v < HEX)
  <2>1. v - HEX \in 0..(HEX - 1) /\ 1 * HEX + (v - HEX) = v
    BY <1>0, <1>2
  <2>2. (1 * HEX + (v - HEX)) % HEX = v - HEX
    BY <1>0, <2>1, DivModUnique
  <2> QED BY <1>2, <2>1, <2>2
<1> QED BY <1>1, <1>2

Added(minus, x, y, carry) == x + (IF minus THEN HEX - 1 - y ELSE y) + (IF carry # minus THEN 1 ELSE 0)
IsOver(minus, s, base) == s > HEX - 1 \/ (base = DEC /\ ~minus /\ s > DEC - 1)
Correction(minus, over, base) ==
  CASE base = DEC /\ minus /\ ~over -> DEC
    [] base = DEC /\ ~minus /\ over -> HEX - DEC
    [] OTHER                      -> 0

(* The digit and the carry of digit_add_sub, from the sum of the digit.    *)
LEMMA DigitIs ==
  ASSUME NEW minus, NEW x, NEW y, NEW carry, NEW base
  PROVE  LET d == digit_add_sub(minus, x, y, carry, base)
             s == Added(minus, x, y, carry)
         IN  /\ d.digit = (s + Correction(minus, IsOver(minus, s, base), base)) % HEX
             /\ d.carry = (IsOver(minus, s, base) # minus)
             /\ d = [digit |-> d.digit, carry |-> d.carry]
BY DEF digit_add_sub, Added, IsOver, Correction

(* They are a digit of the base and a carry.                               *)
LEMMA DigitTyped ==
  ASSUME NEW minus \in BOOLEAN, NEW x \in Int, NEW y \in Int, NEW carry \in BOOLEAN, NEW base
  PROVE  digit_add_sub(minus, x, y, carry, base) \in [digit : Int, carry : BOOLEAN]
<1> DEFINE s == Added(minus, x, y, carry)
           c == Correction(minus, IsOver(minus, s, base), base)
<1>0. HEX \in Nat \ {0} /\ DEC \in Nat
  BY DigitAssumption
<1>1. s \in Int /\ c \in Int
  BY <1>0 DEF Added, Correction
<1>2. (s + c) % HEX \in Int
  <2> HIDE DEF s, c
  <2>1. s + c \in Int
    BY <1>1
  <2> QED BY <2>1, <1>0, DivMod
<1>3. (IsOver(minus, s, base) # minus) \in BOOLEAN
  OBVIOUS
<1> DEFINE d == digit_add_sub(minus, x, y, carry, base)
<1>4. d.digit = (s + c) % HEX /\ d.carry = (IsOver(minus, s, base) # minus) /\ d = [digit |-> d.digit, carry |-> d.carry]
  BY DigitIs
<1> HIDE DEF s, c, d
<1>5. d.digit \in Int /\ d.carry \in BOOLEAN
  BY <1>2, <1>3, <1>4
<1>6. d \in [digit : Int, carry : BOOLEAN]
  BY <1>4, <1>5
<1> QED BY <1>6 DEF d

(* The digit and the carry of the sum s *)
LEMMA CarryIn ==
  ASSUME NEW carry \in BOOLEAN
  PROVE  /\ (IF carry # FALSE THEN 1 ELSE 0) = One(carry)
         /\ (IF carry # TRUE THEN 1 ELSE 0) = (IF carry = TRUE THEN 0 ELSE 1)
         /\ One(carry) \in {0, 1}
BY Zenon DEF One

LEMMA DigitOfSum ==
  ASSUME NEW base \in Bases, NEW s \in Int, 0 <= s, s < 2 * base
  PROVE  (s + Correction(FALSE, IsOver(FALSE, s, base), base)) % HEX = IF s > base - 1 THEN s - base ELSE s
<1>0. HEX \in Nat /\ DEC \in Nat /\ 1 < DEC /\ DEC < HEX /\ base \in {HEX, DEC}
  BY DigitAssumption DEF Bases
<1> DEFINE c == Correction(FALSE, IsOver(FALSE, s, base), base)
<1>1. c = IF base = DEC /\ s > DEC - 1 THEN HEX - DEC ELSE 0
  BY <1>0 DEF Correction, IsOver
<1> HIDE DEF c
<1>2. s + c \in 0..(2 * HEX - 1)
  BY <1>0, <1>1
<1>3. (s + c < HEX => (s + c) % HEX = s + c) /\ (~(s + c < HEX) => (s + c) % HEX = s + c - HEX)
  <2>1. c \in Int /\ s + c \in Int
    BY <1>0, <1>1
  <2>2. PICK t \in Int : t = s + c
    BY <2>1
  <2>3. 0 <= t /\ t < 2 * HEX
    BY <1>0, <1>2, <2>2
  <2>4. (t < HEX => t % HEX = t) /\ (~(t < HEX) => t % HEX = t - HEX)
    BY <2>3, ModHEX
  <2> QED BY <1>0, <2>1, <2>2, <2>4
<1>5. (s + c) % HEX = IF s > base - 1 THEN s - base ELSE s
  BY <1>0, <1>1, <1>3
<1> QED BY <1>5 DEF c

LEMMA OverOfSum ==
  ASSUME NEW base \in Bases, NEW s \in Int
  PROVE  IsOver(FALSE, s, base) <=> s > base - 1
<1>0. HEX \in Nat /\ DEC \in Nat /\ 1 < DEC /\ DEC < HEX /\ base \in {HEX, DEC}
  BY DigitAssumption DEF Bases
<1> QED BY <1>0 DEF IsOver

LEMMA DigitSum ==
  ASSUME NEW base \in Bases, NEW x \in 0..(base - 1), NEW y \in 0..(base - 1), NEW carry \in BOOLEAN
  PROVE  LET d == digit_add_sub(FALSE, x, y, carry, base)
         IN  d.digit \in 0..(base - 1) /\ d.digit + base * One(d.carry) = x + y + One(carry)
<1> DEFINE s == Added(FALSE, x, y, carry)
           c == Correction(FALSE, IsOver(FALSE, s, base), base)
           over == IsOver(FALSE, s, base)
           d == digit_add_sub(FALSE, x, y, carry, base)
<1> SUFFICES d.digit \in 0..(base - 1) /\ d.digit + base * One(d.carry) = x + y + One(carry)
  OBVIOUS
<1>0. HEX \in Nat /\ DEC \in Nat /\ 1 < DEC /\ DEC < HEX /\ base \in {HEX, DEC}
  BY DigitAssumption DEF Bases
<1>1. s = x + y + One(carry) /\ s \in Int /\ 0 <= s /\ s < 2 * base
  <2>1. s = x + y + (IF carry # FALSE THEN 1 ELSE 0)
    BY DEF Added
  <2>2. (IF carry # FALSE THEN 1 ELSE 0) = One(carry) /\ One(carry) \in {0, 1}
    BY CarryIn
  <2> HIDE DEF s
  <2>3. s = x + y + One(carry)
    BY <2>1, <2>2
  <2> QED BY <1>0, <2>2, <2>3
<1>2. d.digit = (s + c) % HEX /\ d.carry = (over # FALSE)
  BY DEF digit_add_sub, Added, IsOver, Correction
<1>3. (s + c) % HEX = (IF s > base - 1 THEN s - base ELSE s) /\ (over <=> s > base - 1)
  <2> HIDE DEF s
  <2> QED BY <1>1, DigitOfSum, OverOfSum
<1>8. over \in BOOLEAN
  BY DEF IsOver
<1> HIDE DEF c, over, s, d
<1>4. d.digit = (s + c) % HEX /\ (over => One(d.carry) = 1) /\ (~over => One(d.carry) = 0)
  <2>2. (over => d.carry = TRUE) /\ (~over => d.carry = FALSE)
    BY <1>2, <1>8, Zenon
  <2> QED BY <1>2, <2>2 DEF One
<1>5. CASE over
  <2>1. One(d.carry) = 1 /\ base * 1 = base
    BY <1>4, <1>5, <1>0
  <2> QED BY <1>0, <1>1, <1>3, <1>4, <1>5, <2>1
<1>6. CASE ~over
  <2>1. One(d.carry) = 0 /\ base * 0 = 0
    BY <1>4, <1>6, <1>0
  <2> QED BY <1>0, <1>1, <1>3, <1>4, <1>6, <2>1
<1> QED BY <1>5, <1>6

(* The same of the difference: s is the sum with the complement *)
LEMMA DigitOfDifference ==
  ASSUME NEW base \in Bases, NEW s \in Int, HEX - base <= s, s < HEX + base
  PROVE  /\ (s + Correction(TRUE, IsOver(TRUE, s, base), base)) % HEX
              = IF s > HEX - 1 THEN s - HEX ELSE s - HEX + base
         /\ IsOver(TRUE, s, base) <=> s > HEX - 1
<1>0. HEX \in Nat /\ DEC \in Nat /\ 1 < DEC /\ DEC < HEX /\ base \in {HEX, DEC}
  BY DigitAssumption DEF Bases
<1> DEFINE c == Correction(TRUE, IsOver(TRUE, s, base), base)
<1>1. (c = IF base = DEC /\ ~(s > HEX - 1) THEN DEC ELSE 0) /\ (IsOver(TRUE, s, base) <=> s > HEX - 1)
  BY <1>0 DEF Correction, IsOver
<1> HIDE DEF c
<1>2. s + c \in 0..(2 * HEX - 1)
  BY <1>0, <1>1
<1>3. (s + c < HEX => (s + c) % HEX = s + c) /\ (~(s + c < HEX) => (s + c) % HEX = s + c - HEX)
  <2>1. c \in Int /\ s + c \in Int
    BY <1>0, <1>1
  <2>2. PICK t \in Int : t = s + c
    BY <2>1
  <2>3. 0 <= t /\ t < 2 * HEX
    BY <1>0, <1>2, <2>2
  <2>4. (t < HEX => t % HEX = t) /\ (~(t < HEX) => t % HEX = t - HEX)
    BY <2>3, ModHEX
  <2> QED BY <1>0, <2>1, <2>2, <2>4
<1>5. (s + c) % HEX = IF s > HEX - 1 THEN s - HEX ELSE s - HEX + base
  BY <1>0, <1>1, <1>3
<1> QED BY <1>1, <1>5 DEF c

LEMMA DigitDifference ==
  ASSUME NEW base \in Bases, NEW x \in 0..(base - 1), NEW y \in 0..(base - 1), NEW carry \in BOOLEAN
  PROVE  LET d == digit_add_sub(TRUE, x, y, carry, base)
         IN  d.digit \in 0..(base - 1) /\ x + base * One(d.carry) = d.digit + y + One(carry)
<1> DEFINE s == Added(TRUE, x, y, carry)
           c == Correction(TRUE, IsOver(TRUE, s, base), base)
           over == IsOver(TRUE, s, base)
           d == digit_add_sub(TRUE, x, y, carry, base)
<1> SUFFICES d.digit \in 0..(base - 1) /\ x + base * One(d.carry) = d.digit + y + One(carry)
  OBVIOUS
<1>0. HEX \in Nat /\ DEC \in Nat /\ 1 < DEC /\ DEC < HEX /\ base \in {HEX, DEC}
  BY DigitAssumption DEF Bases
<1>1. s = x + HEX - y - One(carry) /\ s \in Int /\ HEX - base <= s /\ s < HEX + base
  <2>1. s = x + (HEX - 1 - y) + (IF carry # TRUE THEN 1 ELSE 0)
    BY DEF Added
  <2>4. (IF carry # TRUE THEN 1 ELSE 0) = (IF carry = TRUE THEN 0 ELSE 1)
    BY CarryIn
  <2>5. (IF carry = TRUE THEN 0 ELSE 1) = 1 - One(carry)
    BY DEF One
  <2>2. (IF carry # TRUE THEN 1 ELSE 0) = 1 - One(carry) /\ One(carry) \in {0, 1}
    BY <2>4, <2>5, CarryIn, Zenon
  <2> HIDE DEF s
  <2>6. s = x + (HEX - 1 - y) + (1 - One(carry))
    BY <2>1, <2>2, Zenon
  <2>3. s = x + HEX - y - One(carry)
    BY <1>0, <2>6, <2>2
  <2> QED BY <1>0, <2>2, <2>3
<1>2. d.digit = (s + c) % HEX /\ d.carry = (over # TRUE)
  BY DEF digit_add_sub, Added, IsOver, Correction
<1>3. (s + c) % HEX = (IF s > HEX - 1 THEN s - HEX ELSE s - HEX + base) /\ (over <=> s > HEX - 1)
  <2> HIDE DEF s
  <2> QED BY <1>1, DigitOfDifference
<1>8. over \in BOOLEAN
  BY DEF IsOver
<1> HIDE DEF c, over, s, d
<1>4. d.digit = (s + c) % HEX /\ (over => One(d.carry) = 0) /\ (~over => One(d.carry) = 1)
  <2>2. (over => d.carry = FALSE) /\ (~over => d.carry = TRUE)
    BY <1>2, <1>8, Zenon
  <2> QED BY <1>2, <2>2 DEF One
<1>7. One(carry) \in {0, 1}
  BY DEF One
<1>5. CASE over
  <2>1. One(d.carry) = 0 /\ base * 0 = 0
    BY <1>4, <1>5, <1>0
  <2> QED BY <1>0, <1>1, <1>3, <1>4, <1>5, <1>7, <2>1
<1>6. CASE ~over
  <2>1. One(d.carry) = 1 /\ base * 1 = base
    BY <1>4, <1>6, <1>0
  <2> QED BY <1>0, <1>1, <1>3, <1>4, <1>6, <1>7, <2>1
<1> QED BY <1>5, <1>6

-----------------------------------------------------------------------------
(* The digits of a sum or difference, one after the other *)
DigitAndCarry == [digit : Int, carry : BOOLEAN]

Rippled(d, minus, x, y, f, l, carry, base) ==
  /\ d \in [f..l -> DigitAndCarry]
  /\ d[f] = digit_add_sub(minus, x[f], y[f], carry, base)
  /\ \A i \in f..l : i # f => d[i] = digit_add_sub(minus, x[i], y[i], d[i - 1].carry, base)

(* The digits and carries of Ripple: each with the carry of the one        *)
(* before.                                                                 *)
LEMMA RippleIs ==
  ASSUME NEW minus \in BOOLEAN, NEW carry \in BOOLEAN, NEW f \in Int, NEW l \in Int, f <= l,
         NEW x, NEW y, \A i \in f..l : x[i] \in Int /\ y[i] \in Int, NEW base
  PROVE  Rippled(Ripple(minus, x, y, f, l, carry, base), minus, x, y, f, l, carry, base)
<1> DEFINE Next1(i, c) == digit_add_sub(minus, x[i], y[i], c, base)
           Step == [i \in f..l |-> [v \in DigitAndCarry |-> Next1(i, v.carry)]]
           a == Next1(f, carry)
<1>1. ASSUME NEW i \in f..l, NEW c \in BOOLEAN PROVE Next1(i, c) \in DigitAndCarry
  BY DigitTyped DEF DigitAndCarry
<1>2. \A v \in DigitAndCarry : v.carry \in BOOLEAN
  BY DEF DigitAndCarry
<1>3. f \in f..l
  OBVIOUS
<1> HIDE DEF Next1
<1>4. a \in DigitAndCarry
  BY <1>1, <1>3
<1>5. Step \in [f..l -> [DigitAndCarry -> DigitAndCarry]]
  BY <1>1, <1>2
<1>6. \A i \in f..l, v \in DigitAndCarry : Step[i][v] = Next1(i, v.carry)
  OBVIOUS
<1> HIDE DEF Step, a
<1>7. PICK g : ByRecursion(g, f, l, DigitAndCarry, a, Step)
  BY <1>4, <1>5, FunctionByRecursion
<1>8. g \in [f..l -> DigitAndCarry] /\ g[f] = a /\ \A i \in f..l : i # f => g[i] = Step[i][g[i - 1]]
  BY <1>7 DEF ByRecursion
<1>9. ASSUME NEW i \in f..l, i # f PROVE g[i] = Next1(i, g[i - 1].carry)
  <2>1. i - 1 \in f..l
    BY <1>9
  <2>2. g[i - 1] \in DigitAndCarry
    BY <1>8, <2>1
  <2> QED BY <1>6, <1>8, <1>9, <2>2
<1>10. g = [i \in f..l |-> digit_add_sub(minus, x[i], y[i], IF i = f THEN carry ELSE g[i - 1].carry, base)]
  <2>1. \A i \in f..l : g[i] = Next1(i, IF i = f THEN carry ELSE g[i - 1].carry)
    BY <1>8, <1>9 DEF a
  <2> QED BY <1>8, <2>1 DEF Next1
<1> DEFINE d == Ripple(minus, x, y, f, l, carry, base)
<1>11. d = [i \in f..l |-> digit_add_sub(minus, x[i], y[i], IF i = f THEN carry ELSE d[i - 1].carry, base)]
  BY <1>10 DEF Ripple
<1> HIDE DEF d
<1>12. d[f] = Next1(f, carry) /\ \A i \in f..l : i # f => d[i] = Next1(i, d[i - 1].carry)
  BY <1>3, <1>11 DEF Next1
<1>13. \A i \in f..l : d[i] \in DigitAndCarry
  <2> DEFINE S == {i \in f..l : d[i] \in DigitAndCarry}
  <2>1. f \in S
    BY <1>3, <1>4, <1>12 DEF a
  <2>2. \A i \in f..(l - 1) : i \in S => i + 1 \in S
    <3>1. ASSUME NEW i \in f..(l - 1), d[i] \in DigitAndCarry PROVE d[i + 1] \in DigitAndCarry
      <4>1. i + 1 \in f..l /\ i + 1 # f /\ (i + 1) - 1 = i
        OBVIOUS
      <4>2. d[i + 1] = Next1(i + 1, d[i].carry)
        BY <4>1, <1>12
      <4>3. d[i].carry \in BOOLEAN
        BY <1>2, <3>1
      <4> QED BY <1>1, <4>1, <4>2, <4>3
    <3> QED BY <3>1
  <2> HIDE DEF S
  <2>3. \A i \in f..l : i \in S
    BY <2>1, <2>2, Upwards
  <2> QED BY <2>3 DEF S
<1>14. d \in [f..l -> DigitAndCarry]
  BY <1>11, <1>13
<1> QED BY <1>12, <1>14 DEF d, Rippled, Next1

-----------------------------------------------------------------------------
(* The numbers of which the first digits, from i on, are left out *)
Numbers(z, f, l, base) ==
  LET n[i \in f..(l + 1)] == IF i = l + 1 THEN 0 ELSE z[i] + base * n[i + 1]
  IN  n

Numbered(n, z, f, l, base) ==
  /\ n \in [f..(l + 1) -> Int]
  /\ n[l + 1] = 0
  /\ \A i \in f..l : n[i] = z[i] + base * n[i + 1]

LEMMA NumbersAre ==
  ASSUME NEW f \in Int, NEW l \in Int, f <= l, NEW z, \A i \in f..l : z[i] \in Int, NEW base \in Nat
  PROVE  Numbered(Numbers(z, f, l, base), z, f, l, base)
<1> DEFINE t == l + 1
           Digit1(i) == IF i \in f..l THEN z[i] ELSE 0
           Step == [j \in f..t |-> [v \in Int |-> Digit1((f + t) - j) + base * v]]
<1>0. 0 \in Int /\ t \in Int /\ f <= t /\ t \notin f..l /\ \A i : i \in f..t <=> i \in f..l \/ i = t
  OBVIOUS
<1>1. \A i : Digit1(i) \in Int
  OBVIOUS
<1> HIDE DEF Digit1
<1>2. Step \in [f..t -> [Int -> Int]]
  BY <1>1
<1>3. \A j \in f..t, v \in Int : Step[j][v] = Digit1((f + t) - j) + base * v
  OBVIOUS
<1> HIDE DEF Step, t
<1>4. PICK g : ByRecursion(g, f, t, Int, 0, Step)
  BY <1>0, <1>2, FunctionByRecursion
<1>5. g \in [f..t -> Int] /\ g[f] = 0 /\ \A i \in f..t : i # f => g[i] = Step[i][g[i - 1]]
  BY <1>4 DEF ByRecursion
<1> DEFINE h == [i \in f..t |-> g[(f + t) - i]]
<1>6. h[t] = 0
  <2>1. t \in f..t /\ (f + t) - t = f
    BY <1>0
  <2> QED BY <1>5, <2>1
<1>7. ASSUME NEW i \in f..l PROVE h[i] = z[i] + base * h[i + 1]
  <2> DEFINE j == (f + t) - i
  <2>1. j \in f..t /\ j # f /\ j - 1 \in f..t /\ i \in f..t /\ i + 1 \in f..t /\ (f + t) - (i + 1) = j - 1 /\ (f + t) - j = i
    BY <1>0
  <2> HIDE DEF j
  <2>2. h[i] = g[j] /\ h[i + 1] = g[j - 1]
    BY <2>1 DEF j
  <2>3. g[j] = Step[j][g[j - 1]] /\ g[j - 1] \in Int
    BY <1>5, <2>1
  <2>4. Step[j][g[j - 1]] = Digit1(i) + base * g[j - 1]
    BY <1>3, <2>1, <2>3
  <2> QED BY <2>2, <2>3, <2>4 DEF Digit1
<1>8. h = [i \in f..t |-> IF i = t THEN 0 ELSE z[i] + base * h[i + 1]]
  <2> HIDE DEF h
  <2>1. \A i \in f..t : h[i] = IF i = t THEN 0 ELSE z[i] + base * h[i + 1]
    BY <1>0, <1>6, <1>7
  <2>2. h = [i \in f..t |-> h[i]]
    BY DEF h
  <2> QED BY <2>1, <2>2
<1> HIDE DEF h
<1> DEFINE n == Numbers(z, f, l, base)
<1>9. n = [i \in f..t |-> IF i = t THEN 0 ELSE z[i] + base * n[i + 1]]
  BY <1>8 DEF Numbers, t
<1> HIDE DEF n
<1>10. n[t] = 0 /\ \A i \in f..l : n[i] = z[i] + base * n[i + 1]
  <2>1. t \in f..t /\ \A i \in f..l : i \in f..t /\ i # t
    BY <1>0
  <2> QED BY <1>9, <2>1
<1>11. \A i \in f..t : n[i] \in Int
  <2> DEFINE S == {i \in f..t : n[i] \in Int}
  <2>1. t \in S
    BY <1>0, <1>10
  <2>2. \A i \in f..(t - 1) : i + 1 \in S => i \in S
    <3>1. ASSUME NEW i \in f..(t - 1), n[i + 1] \in Int PROVE n[i] \in Int /\ i \in f..t
      <4>1. i \in f..l /\ i \in f..t
        BY <1>0 DEF t
      <4>2. n[i] = z[i] + base * n[i + 1] /\ z[i] \in Int
        BY <4>1, <1>10
      <4> QED BY <4>1, <4>2, <3>1
    <3> QED BY <3>1
  <2> HIDE DEF S
  <2>3. \A i \in f..t : i \in S
    BY <1>0, <2>1, <2>2, Downwards
  <2> QED BY <2>3 DEF S
<1>12. n \in [f..t -> Int]
  BY <1>9, <1>11
<1> QED BY <1>10, <1>12 DEF Numbered, n, t

-----------------------------------------------------------------------------
(* The weights of the digits from i on *)
Weights(f, l, base) == [i \in f..(l + 1) |-> Power(base, l + 1 - i)]

Weighted(w, f, l, base) ==
  /\ w \in [f..(l + 1) -> Nat \ {0}]
  /\ w[l + 1] = 1
  /\ \A i \in f..l : w[i] = base * w[i + 1]

LEMMA PositiveProduct ==
  ASSUME NEW a \in Nat \ {0}, NEW b \in Nat \ {0}
  PROVE  a * b \in Nat \ {0}
OBVIOUS

LEMMA WeightsAre ==
  ASSUME NEW f \in Int, NEW l \in Int, f <= l, NEW base \in Nat \ {0}
  PROVE  Weighted(Weights(f, l, base), f, l, base)
<1> DEFINE w == Weights(f, l, base)
           t == l + 1
           S == {i \in f..t : w[i] \in Nat \ {0}}
<1>0. t \in Int /\ f <= t /\ t \in f..t
  OBVIOUS
<1>1. \A i \in f..t : w[i] = Power(base, t - i)
  BY DEF Weights
<1>2. w[t] = 1
  <2>1. t - t = 0
    BY <1>0
  <2>2. w[t] = Power(base, t - t)
    BY <1>0, <1>1
  <2>3. Power(base, t - t) = Power(base, 0)
    BY <2>1
  <2>4. Power(base, 0) = 1
    BY PowerIs
  <2> QED BY <2>2, <2>3, <2>4
<1>3. ASSUME NEW i \in f..l PROVE w[i] = base * w[i + 1]
  <2>1. i \in f..t /\ i + 1 \in f..t /\ t - (i + 1) \in Nat /\ (t - (i + 1)) + 1 = t - i
    OBVIOUS
  <2>2. Power(base, (t - (i + 1)) + 1) = base * Power(base, t - (i + 1))
    BY <2>1, PowerIs
  <2> QED BY <1>1, <2>1, <2>2
<1>4. w = [i \in f..t |-> w[i]]
  BY DEF Weights
<1> HIDE DEF w
<1>5. t \in S
  BY <1>0, <1>2
<1>6. \A i \in f..(t - 1) : i + 1 \in S => i \in S
  <2>1. ASSUME NEW i \in f..(t - 1), w[i + 1] \in Nat \ {0} PROVE w[i] \in Nat \ {0} /\ i \in f..t
    <3>1. i \in f..l /\ i \in f..t
      OBVIOUS
    <3>2. w[i] = base * w[i + 1]
      BY <3>1, <1>3
    <3>3. base * w[i + 1] \in Nat \ {0}
      BY <2>1, PositiveProduct
    <3> QED BY <3>1, <3>2, <3>3
  <2> QED BY <2>1
<1> HIDE DEF t, S
<1>7. \A i \in f..t : i \in S
  BY <1>0, <1>5, <1>6, Downwards
<1>8. w \in [f..t -> Nat \ {0}]
  <2>1. \A i \in f..t : w[i] \in Nat \ {0}
    BY <1>7 DEF S
  <2> QED BY <1>4, <2>1
<1> QED BY <1>2, <1>3, <1>8 DEF Weighted, t, w

(* Numbers and columns: what an addition does, digit by digit *)
LEMMA ColumnStep ==
  ASSUME NEW base \in Int, NEW p \in Int, NEW w \in Int, NEW c \in Int, NEW q \in Int, NEW m \in Int,
         NEW b2 \in Int, NEW z \in Int, NEW x \in Int, NEW y \in Int, NEW b \in Int,
         p + w * c = q + m + b2, z + base * b2 = x + y + b
  PROVE  (z + base * p) + (base * w) * c = (x + base * q) + (y + base * m) + b
<1>1. base * (p + w * c) = base * p + (base * w) * c
  OBVIOUS
<1>2. base * (q + m + b2) = base * q + base * m + base * b2
  OBVIOUS
<1>3. base * (p + w * c) = base * (q + m + b2)
  OBVIOUS
<1>4. base * p \in Int /\ (base * w) * c \in Int /\ base * q \in Int /\ base * m \in Int /\ base * b2 \in Int
  OBVIOUS
<1> QED BY <1>1, <1>2, <1>3, <1>4

Columns(z, x, y, b, f, l, base) ==
  \A i \in f..l : /\ z[i] \in Int /\ x[i] \in Int /\ y[i] \in Int
                  /\ b[i] \in Int /\ b[i + 1] \in Int
                  /\ z[i] + base * b[i + 1] = x[i] + y[i] + b[i]

(* So the numbers of the digits differ by the carries at the ends.         *)
LEMMA ColumnsAdd ==
  ASSUME NEW f \in Int, NEW l \in Int, f <= l, NEW base \in Nat, NEW z, NEW x, NEW y, NEW b,
         Columns(z, x, y, b, f, l, base), NEW w, Weighted(w, f, l, base),
         NEW p, Numbered(p, z, f, l, base), NEW q, Numbered(q, x, f, l, base), NEW m, Numbered(m, y, f, l, base)
  PROVE  p[f] + w[f] * b[l + 1] = q[f] + m[f] + b[f]
<1> DEFINE t == l + 1
           c == b[t]
           S == {i \in f..t : b[i] \in Int /\ p[i] + w[i] * c = q[i] + m[i] + b[i]}
<1>0. t \in Int /\ f <= t /\ t \in f..t /\ l \in f..l /\ f \in f..t
  OBVIOUS
<1>1. c \in Int
  BY <1>0 DEF Columns
<1>2. t \in S
  <2>1. p[t] = 0 /\ q[t] = 0 /\ m[t] = 0 /\ w[t] = 1
    BY DEF Numbered, Weighted
  <2>2. b[t] \in Int /\ 0 + 1 * c = 0 + 0 + b[t]
    BY <1>1
  <2> QED BY <1>0, <2>1, <2>2
<1>3. \A i \in f..(t - 1) : i + 1 \in S => i \in S
  <2>1. ASSUME NEW i \in f..(t - 1), p[i + 1] + w[i + 1] * c = q[i + 1] + m[i + 1] + b[i + 1]
        PROVE  i \in f..t /\ b[i] \in Int /\ p[i] + w[i] * c = q[i] + m[i] + b[i]
    <3>1. i \in f..l /\ i \in f..t /\ i + 1 \in f..(l + 1)
      OBVIOUS
    <3>2. z[i] \in Int /\ x[i] \in Int /\ y[i] \in Int /\ b[i] \in Int /\ b[i + 1] \in Int
          /\ z[i] + base * b[i + 1] = x[i] + y[i] + b[i]
      BY <3>1 DEF Columns
    <3>3. p[i] = z[i] + base * p[i + 1] /\ q[i] = x[i] + base * q[i + 1] /\ m[i] = y[i] + base * m[i + 1]
          /\ w[i] = base * w[i + 1]
      BY <3>1 DEF Numbered, Weighted
    <3>4. p[i + 1] \in Int /\ q[i + 1] \in Int /\ m[i + 1] \in Int /\ w[i + 1] \in Int
      <4>1. p \in [f..(l + 1) -> Int] /\ q \in [f..(l + 1) -> Int] /\ m \in [f..(l + 1) -> Int]
        BY DEF Numbered
      <4>2. w \in [f..(l + 1) -> Nat \ {0}]
        BY DEF Weighted
      <4> QED BY <3>1, <4>1, <4>2
    <3>5. (z[i] + base * p[i + 1]) + (base * w[i + 1]) * c
            = (x[i] + base * q[i + 1]) + (y[i] + base * m[i + 1]) + b[i]
      <4> DEFINE P == p[i + 1]
                 W == w[i + 1]
                 Q == q[i + 1]
                 M == m[i + 1]
                 B == b[i + 1]
                 zi == z[i]
                 xi == x[i]
                 yi == y[i]
                 bi == b[i]
      <4> SUFFICES (zi + base * P) + (base * W) * c = (xi + base * Q) + (yi + base * M) + bi
        OBVIOUS
      <4>1. P + W * c = Q + M + B /\ zi + base * B = xi + yi + bi
        BY <2>1, <3>2
      <4>2. P \in Int /\ W \in Int /\ Q \in Int /\ M \in Int /\ B \in Int /\ zi \in Int /\ xi \in Int /\ yi \in Int
            /\ bi \in Int /\ base \in Int
        BY <3>2, <3>4
      <4> HIDE DEF P, W, Q, M, B, zi, xi, yi, bi, c
      <4> QED BY <1>1, <4>1, <4>2, ColumnStep
    <3> QED BY <3>1, <3>2, <3>3, <3>5
  <2> QED BY <2>1
<1> HIDE DEF t, S, c
<1>4. \A i \in f..t : i \in S
  BY <1>0, <1>2, <1>3, Downwards
<1>5. p[f] + w[f] * c = q[f] + m[f] + b[f]
  BY <1>0, <1>4 DEF S
<1> QED BY <1>5 DEF c, t

(* A number of digits is less than the weight of the digit before them *)
LEMMA NumberFits ==
  ASSUME NEW f \in Int, NEW l \in Int, f <= l, NEW base \in Nat \ {0}, NEW z, \A i \in f..l : z[i] \in 0..(base - 1),
         NEW w, Weighted(w, f, l, base), NEW p, Numbered(p, z, f, l, base)
  PROVE  p[f] \in 0..(w[f] - 1)
<1> DEFINE t == l + 1
           S == {i \in f..t : p[i] \in 0..(w[i] - 1)}
<1>0. t \in Int /\ f <= t /\ t \in f..t /\ f \in f..t
  OBVIOUS
<1>1. t \in S
  <2>1. p[t] = 0 /\ w[t] = 1
    BY DEF Numbered, Weighted
  <2> QED BY <1>0, <2>1
<1>2. \A i \in f..(t - 1) : i + 1 \in S => i \in S
  <2>1. ASSUME NEW i \in f..(t - 1), p[i + 1] \in 0..(w[i + 1] - 1) PROVE i \in f..t /\ p[i] \in 0..(w[i] - 1)
    <3>1. i \in f..l /\ i \in f..t /\ i + 1 \in f..(l + 1)
      OBVIOUS
    <3>2. p[i] = z[i] + base * p[i + 1] /\ w[i] = base * w[i + 1] /\ z[i] \in 0..(base - 1)
      BY <3>1 DEF Numbered, Weighted
    <3>3. w \in [f..(l + 1) -> Nat \ {0}]
      BY DEF Weighted
    <3>4. w[i + 1] \in Nat \ {0}
      BY <3>1, <3>3
    <3> DEFINE P == p[i + 1]
               W == w[i + 1]
               Z == z[i]
    <3>5. P \in 0..(W - 1) /\ W \in Nat \ {0} /\ Z \in 0..(base - 1)
      BY <2>1, <3>2, <3>4
    <3>6. p[i] = Z + base * P /\ w[i] = base * W
      BY <3>2
    <3> HIDE DEF P, W, Z
    <3>7. P * base + Z \in 0..(W * base - 1)
      BY <3>5, InBlocks
    <3>8. P * base + Z = Z + base * P /\ W * base = base * W
      BY <3>5
    <3> QED BY <3>1, <3>6, <3>7, <3>8
  <2> QED BY <2>1
<1> HIDE DEF t, S
<1>3. \A i \in f..t : i \in S
  BY <1>0, <1>1, <1>2, Downwards
<1> QED BY <1>0, <1>3 DEF S

(* Fields with the same digits hold the same number, and the other way *)
LEMMA SameDigits ==
  ASSUME NEW f \in Int, NEW l \in Int, f <= l, NEW base \in Nat, NEW x, NEW y, \A i \in f..l : x[i] = y[i],
         NEW p, Numbered(p, x, f, l, base), NEW q, Numbered(q, y, f, l, base)
  PROVE  p[f] = q[f]
<1> DEFINE t == l + 1
           S == {i \in f..t : p[i] = q[i]}
<1>0. t \in Int /\ f <= t /\ t \in f..t /\ f \in f..t
  OBVIOUS
<1>1. t \in S
  BY <1>0 DEF Numbered
<1>2. \A i \in f..(t - 1) : i + 1 \in S => i \in S
  <2>1. ASSUME NEW i \in f..(t - 1), p[i + 1] = q[i + 1] PROVE i \in f..t /\ p[i] = q[i]
    <3>1. i \in f..l /\ i \in f..t
      OBVIOUS
    <3>2. p[i] = x[i] + base * p[i + 1] /\ q[i] = y[i] + base * q[i + 1] /\ x[i] = y[i]
      BY <3>1 DEF Numbered
    <3> QED BY <2>1, <3>1, <3>2
  <2> QED BY <2>1
<1> HIDE DEF t, S
<1>3. \A i \in f..t : i \in S
  BY <1>0, <1>1, <1>2, Downwards
<1> QED BY <1>0, <1>3 DEF S

LEMMA SameNumber ==
  ASSUME NEW f \in Int, NEW l \in Int, f <= l, NEW base \in Nat \ {0}, NEW x, NEW y,
         \A i \in f..l : x[i] \in 0..(base - 1) /\ y[i] \in 0..(base - 1),
         NEW p, Numbered(p, x, f, l, base), NEW q, Numbered(q, y, f, l, base), p[f] = q[f]
  PROVE  \A i \in f..l : x[i] = y[i]
<1> DEFINE t == l + 1
           S == {i \in f..t : p[i] = q[i]}
<1>0. t \in Int /\ f <= t /\ t \in f..t /\ f \in f..t
  OBVIOUS
<1>1. ASSUME NEW i \in f..l, p[i] = q[i] PROVE x[i] = y[i] /\ p[i + 1] = q[i + 1]
  <2> DEFINE P == p[i + 1]
             Q == q[i + 1]
             X == x[i]
             Y == y[i]
  <2>1. i + 1 \in f..(l + 1)
    OBVIOUS
  <2>2. P \in Int /\ Q \in Int
    <3>1. p \in [f..(l + 1) -> Int] /\ q \in [f..(l + 1) -> Int]
      BY DEF Numbered
    <3> QED BY <2>1, <3>1
  <2>3. p[i] = X + base * P /\ q[i] = Y + base * Q /\ X \in 0..(base - 1) /\ Y \in 0..(base - 1)
    BY DEF Numbered
  <2>4. X + base * P = Y + base * Q
    BY <1>1, <2>3
  <2> SUFFICES X = Y /\ P = Q
    OBVIOUS
  <2> HIDE DEF P, Q, X, Y
  <2>5. P * base + X = Q * base + Y
    BY <2>2, <2>3, <2>4
  <2>6. (P * base + X) \div base = P /\ (P * base + X) % base = X
    BY <2>2, <2>3, DivModUnique
  <2>7. (Q * base + Y) \div base = Q /\ (Q * base + Y) % base = Y
    BY <2>2, <2>3, DivModUnique
  <2> QED BY <2>5, <2>6, <2>7, Zenon
<1>2. f \in S
  BY <1>0
<1>3. \A i \in f..(t - 1) : i \in S => i + 1 \in S
  <2>1. ASSUME NEW i \in f..(t - 1), p[i] = q[i] PROVE i + 1 \in f..t /\ p[i + 1] = q[i + 1]
    <3>1. i \in f..l /\ i + 1 \in f..t
      OBVIOUS
    <3> QED BY <1>1, <2>1, <3>1
  <2> QED BY <2>1
<1>4. \A i \in f..l : i \in f..t
  OBVIOUS
<1> HIDE DEF t, S
<1>5. \A i \in f..t : i \in S
  BY <1>0, <1>2, <1>3, Upwards
<1>6. ASSUME NEW i \in f..l PROVE x[i] = y[i]
  <2>1. p[i] = q[i]
    BY <1>4, <1>5 DEF S
  <2> QED BY <1>1, <2>1
<1> QED BY <1>6

(* Zeros are the number 0.                                                 *)
LEMMA NumberOfZeros ==
  ASSUME NEW f \in Int, NEW l \in Int, f <= l, NEW base \in Nat, NEW x, \A i \in f..l : x[i] = 0,
         NEW p, Numbered(p, x, f, l, base)
  PROVE  p[f] = 0
<1> DEFINE t == l + 1
           S == {i \in f..t : p[i] = 0}
<1>0. t \in Int /\ f <= t /\ t \in f..t /\ f \in f..t
  OBVIOUS
<1>1. t \in S
  BY <1>0 DEF Numbered
<1>2. \A i \in f..(t - 1) : i + 1 \in S => i \in S
  <2>1. ASSUME NEW i \in f..(t - 1), p[i + 1] = 0 PROVE i \in f..t /\ p[i] = 0
    <3>1. i \in f..l /\ i \in f..t /\ base * 0 = 0
      OBVIOUS
    <3>2. p[i] = x[i] + base * p[i + 1] /\ x[i] = 0
      BY <3>1 DEF Numbered
    <3> QED BY <2>1, <3>1, <3>2
  <2> QED BY <2>1
<1> HIDE DEF t, S
<1>3. \A i \in f..t : i \in S
  BY <1>0, <1>1, <1>2, Downwards
<1> QED BY <1>0, <1>3 DEF S

(* A shift to the right divides by the base *)
DigitsIn(x, f, l, base) == \A i \in f..l : x[i] \in 0..(base - 1)
RightOf(z, x, f, l) == \A i \in f..l : z[i] = IF i = l THEN 0 ELSE x[i + 1]
LeftOf(z, x, f, l) == \A i \in f..l : z[i] = IF i = f THEN 0 ELSE x[i - 1]

LEMMA ShiftedRight ==
  ASSUME NEW f \in Int, NEW l \in Int, f <= l, NEW base \in Nat \ {0}, NEW x, NEW z,
         DigitsIn(x, f, l, base), RightOf(z, x, f, l),
         NEW p, Numbered(p, z, f, l, base), NEW q, Numbered(q, x, f, l, base)
  PROVE  p[f] = q[f] \div base
<1> DEFINE S == {i \in f..l : p[i] = q[i + 1]}
<1>0. f \in f..l /\ l \in f..l /\ f + 1 \in f..(l + 1)
  OBVIOUS
<1>1. l \in S
  <2>1. p[l] = z[l] + base * p[l + 1] /\ p[l + 1] = 0 /\ q[l + 1] = 0 /\ base * 0 = 0
    BY <1>0 DEF Numbered
  <2>2. z[l] = 0
    BY <1>0 DEF RightOf
  <2> QED BY <1>0, <2>1, <2>2
<1>2. \A i \in f..(l - 1) : i + 1 \in S => i \in S
  <2>1. ASSUME NEW i \in f..(l - 1), p[i + 1] = q[(i + 1) + 1] PROVE i \in f..l /\ p[i] = q[i + 1]
    <3>1. i \in f..l /\ i + 1 \in f..l /\ i # l
      OBVIOUS
    <3>2. p[i] = x[i + 1] + base * p[i + 1] /\ q[i + 1] = x[i + 1] + base * q[(i + 1) + 1]
      BY <3>1 DEF Numbered, RightOf
    <3> QED BY <2>1, <3>1, <3>2
  <2> QED BY <2>1
<1> HIDE DEF S
<1>3. p[f] = q[f + 1]
  <2>1. \A i \in f..l : i \in S
    BY <1>1, <1>2, Downwards
  <2> QED BY <1>0, <2>1 DEF S
<1> DEFINE Q == q[f + 1]
           X == x[f]
<1>4. q[f] = X + base * Q /\ X \in 0..(base - 1)
  BY <1>0 DEF Numbered, DigitsIn
<1>5. Q \in Int
  <2>1. q \in [f..(l + 1) -> Int]
    BY DEF Numbered
  <2> QED BY <1>0, <2>1
<1>6. p[f] = Q
  BY <1>3
<1> HIDE DEF Q, X
<1>7. q[f] = Q * base + X
  BY <1>4, <1>5
<1>8. (Q * base + X) \div base = Q
  BY <1>4, <1>5, DivModUnique
<1> QED BY <1>6, <1>7, <1>8, Zenon

(* A shift to the left multiplies by the base, modulo the size *)
LEMMA ShiftedLeft ==
  ASSUME NEW f \in Int, NEW l \in Int, f <= l, NEW base \in Nat \ {0}, NEW x, NEW z,
         DigitsIn(x, f, l, base), LeftOf(z, x, f, l),
         NEW w, Weighted(w, f, l, base),
         NEW p, Numbered(p, z, f, l, base), NEW q, Numbered(q, x, f, l, base), p[f] \in 0..(w[f] - 1)
  PROVE  p[f] = (q[f] * base) % w[f]
<1> DEFINE t == l + 1
           X == x[l]
           S == {i \in (f + 1)..t : p[i] + w[i] * X = q[i - 1]}
<1>0. t \in Int /\ f + 1 \in Int /\ f + 1 <= t /\ t \in (f + 1)..t /\ f + 1 \in (f + 1)..t /\ f \in f..l /\ l \in f..l
      /\ t \in f..t /\ f + 1 \in f..(l + 1) /\ f \in f..(l + 1)
  OBVIOUS
<1>1. X \in Int
  BY <1>0 DEF DigitsIn
<1>2. t \in S
  <2>1. p[t] = 0 /\ w[t] = 1 /\ q[l + 1] = 0 /\ q[l] = x[l] + base * q[l + 1] /\ base * 0 = 0 /\ t - 1 = l
    BY <1>0 DEF Numbered, Weighted
  <2>2. 0 + 1 * X = X /\ X + 0 = X
    BY <1>1
  <2> HIDE DEF X
  <2>3. p[t] + w[t] * X = X
    BY <2>1, <2>2, <1>1
  <2>4. q[t - 1] = X
    BY <2>1, <2>2 DEF X
  <2> QED BY <1>0, <2>3, <2>4
<1>3. \A i \in (f + 1)..(t - 1) : i + 1 \in S => i \in S
  <2>1. ASSUME NEW i \in (f + 1)..(t - 1), p[i + 1] + w[i + 1] * X = q[(i + 1) - 1]
        PROVE  i \in (f + 1)..t /\ p[i] + w[i] * X = q[i - 1]
    <3>1. i \in f..l /\ i \in (f + 1)..t /\ i - 1 \in f..l /\ i # f /\ (i + 1) - 1 = i /\ (i - 1) + 1 = i
          /\ i \in f..(l + 1) /\ i + 1 \in f..(l + 1)
      OBVIOUS
    <3> DEFINE P == p[i + 1]
               W == w[i + 1]
               Q == q[i]
               Y == x[i - 1]
    <3>2. p[i] = Y + base * P /\ q[i - 1] = Y + base * Q /\ w[i] = base * W
      <4>1. p[i] = z[i] + base * p[i + 1] /\ z[i] = x[i - 1] /\ w[i] = base * w[i + 1]
        BY <3>1 DEF Numbered, Weighted, LeftOf
      <4>2. q[i - 1] = x[i - 1] + base * q[(i - 1) + 1]
        BY <3>1 DEF Numbered
      <4> QED BY <4>1, <4>2, <3>1
    <3>3. P \in Int /\ Q \in Int /\ W \in Int /\ Y \in Int
      <4>1. p \in [f..(l + 1) -> Int] /\ q \in [f..(l + 1) -> Int]
        BY DEF Numbered
      <4>2. w \in [f..(l + 1) -> Nat \ {0}]
        BY DEF Weighted
      <4>3. Y \in 0..(base - 1)
        <5>1. PICK j \in f..l : j = i - 1
          BY <3>1
        <5>2. x[j] \in 0..(base - 1)
          BY DEF DigitsIn
        <5>3. Y = x[j]
          BY <5>1
        <5> HIDE DEF Y
        <5> QED BY <5>2, <5>3
      <4>4. P \in Int /\ Q \in Int
        BY <3>1, <4>1
      <4>5. W \in Int
        BY <3>1, <4>2
      <4> HIDE DEF P, W, Q, Y
      <4> QED BY <4>3, <4>4, <4>5
    <3>4. P + W * X = Q
      BY <2>1, <3>1
    <3> SUFFICES p[i] + w[i] * X = q[i - 1]
      BY <3>1
    <3> HIDE DEF P, W, Q, Y, X
    <3>5. (Y + base * P) + (base * W) * X = Y + base * (P + W * X)
      BY <1>1, <3>3
    <3> QED BY <3>2, <3>4, <3>5
  <2> QED BY <2>1
<1> HIDE DEF S
<1>4. p[f + 1] + w[f + 1] * X = q[(f + 1) - 1]
  <2>1. \A i \in (f + 1)..t : i \in S
    <3> HIDE DEF t
    <3> QED BY <1>0, <1>2, <1>3, Downwards
  <2> QED BY <1>0, <2>1 DEF S
<1> DEFINE P == p[f + 1]
           W == w[f + 1]
           Q == q[f]
           PF == p[f]
           WF == w[f]
<1>5. PF = base * P /\ WF = base * W
  <2>1. p[f] = z[f] + base * p[f + 1] /\ z[f] = 0 /\ w[f] = base * w[f + 1]
    BY <1>0 DEF Numbered, Weighted, LeftOf
  <2>2. base * p[f + 1] \in Int
    <3>1. p \in [f..(l + 1) -> Int]
      BY DEF Numbered
    <3> QED BY <1>0, <3>1
  <2> QED BY <2>1, <2>2
<1>6. P \in Int /\ Q \in Int /\ W \in Int /\ WF \in Nat \ {0} /\ PF \in 0..(WF - 1)
  <2>1. p \in [f..(l + 1) -> Int] /\ q \in [f..(l + 1) -> Int]
    BY DEF Numbered
  <2>2. w \in [f..(l + 1) -> Nat \ {0}]
    BY DEF Weighted
  <2> QED BY <1>0, <2>1, <2>2
<1>7. P + W * X = Q
  <2>1. (f + 1) - 1 = f
    OBVIOUS
  <2> QED BY <1>4, <2>1
<1> SUFFICES PF = (Q * base) % WF
  OBVIOUS
<1> HIDE DEF P, W, Q, PF, WF, X
<1>8. Q * base = X * WF + PF
  <2>1. Q * base = (P + W * X) * base
    BY <1>7
  <2>2. (P + W * X) * base = X * (base * W) + base * P
    BY <1>1, <1>6
  <2> QED BY <2>1, <2>2, <1>5
<1> DEFINE V == Q * base
<1>9. V = X * WF + PF
  BY <1>8
<1> SUFFICES V % WF = PF
  OBVIOUS
<1> HIDE DEF V
<1>10. Divided(V, X, WF, PF)
  BY <1>1, <1>6, <1>9 DEF Divided
<1> QED BY <1>10, ModUnique

-----------------------------------------------------------------------------
(* What the calls leave *)
Puts(e, regs, d, z) == e.regs = [regs EXCEPT ![d] = z] /\ e.carry = FALSE

LEMMA ExecutedZero ==
  ASSUME NEW regs, NEW f, NEW l, NEW base, NEW d \in Regs
  PROVE  Puts(Execute(zero(d), regs, f, l, base), regs, d, reg_zero(regs[d], f, l))
BY DEF Execute, zero, Call, Puts

LEMMA ExecutedCopy ==
  ASSUME NEW regs, NEW f, NEW l, NEW base, NEW d \in Regs, NEW x
  PROVE  Puts(Execute(copy(d, x), regs, f, l, base), regs, d, reg_copy(regs[d], Source(regs, x), f, l))
BY DEF Execute, copy, Call, Puts

LEMMA ExecutedRight ==
  ASSUME NEW regs, NEW f, NEW l, NEW base, NEW d \in Regs
  PROVE  Puts(Execute(right(d), regs, f, l, base), regs, d, reg_shift_right(regs[d], f, l))
<1>1. d # "NULL"
  BY DEF Regs
<1> QED BY <1>1 DEF Execute, right, Call, Puts, Source

LEMMA ExecutedLeft ==
  ASSUME NEW regs, NEW f, NEW l, NEW base, NEW d \in Regs
  PROVE  Puts(Execute(left(d), regs, f, l, base), regs, d, reg_shift_left(regs[d], f, l))
<1>1. d # "NULL"
  BY DEF Regs
<1> QED BY <1>1 DEF Execute, left, Call, Puts, Source

LEMMA ExecutedEqual ==
  ASSUME NEW regs, NEW f, NEW l, NEW base, NEW x
  PROVE  /\ Execute(equal(x), regs, f, l, base).regs = regs
         /\ Execute(equal(x), regs, f, l, base).carry = reg_test_equal(Source(regs, x), NULL, f, l)
BY DEF Execute, equal, Call, Source

LEMMA ExecutedNonequal ==
  ASSUME NEW regs, NEW f, NEW l, NEW base, NEW x, NEW y
  PROVE  /\ Execute(nonequal(x, y), regs, f, l, base).regs = regs
         /\ Execute(nonequal(x, y), regs, f, l, base).carry = reg_test_nonequal(Source(regs, x), Source(regs, y), f, l)
BY DEF Execute, nonequal, Call
-----------------------------------------------------------------------------
(* The number in a field, the empty one included *)
Size(f, l, base) == IF f > l THEN 1 ELSE Power(base, l - f + 1)
Registers(base) == [Digits -> 0..(base - 1)]

(* What is known of the two bases, and of the digits of a field.           *)
LEMMA BaseIsPositive ==
  ASSUME NEW base \in Bases
  PROVE  base \in Nat \ {0} /\ base - 1 \in Nat /\ base > 1
BY DigitAssumption DEF Bases

LEMMA DigitsOfField ==
  ASSUME NEW f \in Nat, NEW l \in Digits
  PROVE  l \in Int /\ f \in Int /\ \A i \in f..l : i \in Digits
BY DigitAssumption DEF Digits

(* Number and Size, on a field that is not empty, are those of the tables  *)
(* above.                                                                  *)
LEMMA NumberIs ==
  ASSUME NEW f, NEW l, NEW base, NEW reg
  PROVE  /\ f > l => Number(reg, f, l, base) = 0
         /\ ~(f > l) => Number(reg, f, l, base) = Numbers(reg, f, l, base)[f]
BY DEF Number, Numbers

LEMMA FieldIs ==
  ASSUME NEW f \in Nat, NEW l \in Digits, NEW base \in Bases, f <= l
  PROVE  /\ f \in Int /\ l \in Int /\ base \in Nat \ {0} /\ base \in Nat
         /\ Weighted(Weights(f, l, base), f, l, base)
         /\ Size(f, l, base) = Weights(f, l, base)[f]
         /\ \A reg : Number(reg, f, l, base) = Numbers(reg, f, l, base)[f]
<1>1. f \in Int /\ l \in Int /\ base \in Nat \ {0} /\ base \in Nat
  BY BaseIsPositive, DigitsOfField
<1>2. Weighted(Weights(f, l, base), f, l, base)
  BY <1>1, WeightsAre
<1>3. Size(f, l, base) = Weights(f, l, base)[f]
  <2>1. f \in f..(l + 1) /\ l + 1 - f = l - f + 1 /\ ~(f > l)
    BY <1>1
  <2>2. Weights(f, l, base)[f] = Power(base, l + 1 - f)
    BY <2>1 DEF Weights
  <2>3. Size(f, l, base) = Power(base, l - f + 1)
    BY <2>1 DEF Size
  <2> QED BY <2>1, <2>2, <2>3
<1>4. \A reg : Number(reg, f, l, base) = Numbers(reg, f, l, base)[f]
  <2>1. ~(f > l)
    BY <1>1
  <2> QED BY <2>1, NumberIs
<1> QED BY <1>1, <1>2, <1>3, <1>4

(* A field holds at least one number, and a register in it one of as many  *)
(* as it can.                                                              *)
LEMMA SizeIsPositive ==
  ASSUME NEW f \in Nat, NEW l \in Digits, NEW base \in Bases
  PROVE  Size(f, l, base) \in Nat \ {0}
<1>1. CASE f > l
  BY <1>1 DEF Size
<1>2. CASE ~(f > l)
  <2>1. f <= l
    BY <1>2, DigitsOfField
  <2>2. Weighted(Weights(f, l, base), f, l, base) /\ Size(f, l, base) = Weights(f, l, base)[f] /\ f \in Int /\ l \in Int
    BY <2>1, FieldIs
  <2>3. Weights(f, l, base) \in [f..(l + 1) -> Nat \ {0}]
    BY <2>2 DEF Weighted
  <2>4. f \in f..(l + 1)
    BY <2>1, <2>2
  <2> QED BY <2>2, <2>3, <2>4
<1> QED BY <1>1, <1>2

LEMMA NumberIsSmaller ==
  ASSUME NEW f \in Nat, NEW l \in Digits, NEW base \in Bases, NEW reg \in Registers(base)
  PROVE  Number(reg, f, l, base) \in 0..(Size(f, l, base) - 1)
<1>1. CASE f > l
  BY <1>1, NumberIs DEF Size
<1>2. CASE ~(f > l)
  <2>1. f <= l
    BY <1>2, DigitsOfField
  <2>2. \A i \in f..l : reg[i] \in 0..(base - 1)
    BY DigitsOfField DEF Registers
  <2>3. \A i \in f..l : reg[i] \in Int
    BY <2>2, BaseIsPositive
  <2>4. Numbered(Numbers(reg, f, l, base), reg, f, l, base)
    BY <2>1, <2>3, FieldIs, NumbersAre
  <2>5. Numbers(reg, f, l, base)[f] \in 0..(Weights(f, l, base)[f] - 1)
    BY <2>1, <2>2, <2>4, FieldIs, NumberFits
  <2> QED BY <2>1, <2>5, FieldIs
<1> QED BY <1>1, <1>2

IntegersIn(reg, f, l) == \A i \in f..l : reg[i] \in Int

LEMMA RegistersHold ==
  ASSUME NEW f \in Nat, NEW l \in Digits, NEW base \in Bases, NEW reg \in Registers(base)
  PROVE  IntegersIn(reg, f, l) /\ \A i \in f..l : reg[i] \in 0..(base - 1)
BY DigitsOfField, BaseIsPositive DEF Registers, IntegersIn

LEMMA NumberedIn ==
  ASSUME NEW f \in Nat, NEW l \in Digits, NEW base \in Bases, f <= l, NEW reg, IntegersIn(reg, f, l)
  PROVE  Numbered(Numbers(reg, f, l, base), reg, f, l, base)
BY FieldIs, NumbersAre DEF IntegersIn

(* Two registers hold the same number in a field if they have the same     *)
(* digits there, and only then.                                            *)
LEMMA NumberOfSameDigits ==
  ASSUME NEW f \in Nat, NEW l \in Digits, NEW base \in Bases, NEW x, NEW y, IntegersIn(y, f, l),
         \A i \in f..l : x[i] = y[i]
  PROVE  Number(x, f, l, base) = Number(y, f, l, base)
<1>1. CASE f > l
  BY <1>1, NumberIs
<1>2. CASE ~(f > l)
  <2>1. f <= l
    BY <1>2, DigitsOfField
  <2>2. IntegersIn(x, f, l)
    BY DEF IntegersIn
  <2>3. Numbered(Numbers(x, f, l, base), x, f, l, base) /\ Numbered(Numbers(y, f, l, base), y, f, l, base)
    BY <2>1, <2>2, NumberedIn
  <2>4. Numbers(x, f, l, base)[f] = Numbers(y, f, l, base)[f]
    <3>1. f \in Int /\ l \in Int /\ base \in Nat
      BY <2>1, FieldIs
    <3> DEFINE p == Numbers(x, f, l, base)
               q == Numbers(y, f, l, base)
    <3>2. Numbered(p, x, f, l, base) /\ Numbered(q, y, f, l, base)
      BY <2>3
    <3> HIDE DEF p, q
    <3>3. p[f] = q[f]
      BY <2>1, <3>1, <3>2, SameDigits
    <3> QED BY <3>3 DEF p, q
  <2> QED BY <2>1, <2>4, FieldIs
<1> QED BY <1>1, <1>2

LEMMA SameNumberSameDigits ==
  ASSUME NEW f \in Nat, NEW l \in Digits, NEW base \in Bases, NEW x \in Registers(base), NEW y \in Registers(base),
         Number(x, f, l, base) = Number(y, f, l, base)
  PROVE  \A i \in f..l : x[i] = y[i]
<1>1. CASE f > l
  BY <1>1, DigitsOfField
<1>2. CASE ~(f > l)
  <2>1. f <= l
    BY <1>2, DigitsOfField
  <2>2. \A i \in f..l : x[i] \in 0..(base - 1) /\ y[i] \in 0..(base - 1)
    BY RegistersHold
  <2>3. Numbered(Numbers(x, f, l, base), x, f, l, base) /\ Numbered(Numbers(y, f, l, base), y, f, l, base)
    BY <2>1, RegistersHold, NumberedIn
  <2>4. Numbers(x, f, l, base)[f] = Numbers(y, f, l, base)[f]
    BY <2>1, FieldIs
  <2>5. f \in Int /\ l \in Int /\ base \in Nat \ {0}
    BY <2>1, FieldIs
  <2> QED BY <2>1, <2>2, <2>3, <2>4, <2>5, SameNumber, SMTT(30)
<1> QED BY <1>1, <1>2

LEMMA NumberOfZeroDigits ==
  ASSUME NEW f \in Nat, NEW l \in Digits, NEW base \in Bases, NEW x, \A i \in f..l : x[i] = 0
  PROVE  Number(x, f, l, base) = 0
<1>1. CASE f > l
  BY <1>1, NumberIs
<1>2. CASE ~(f > l)
  <2>1. f <= l
    BY <1>2, DigitsOfField
  <2>2. IntegersIn(x, f, l)
    BY DEF IntegersIn
  <2>3. Numbered(Numbers(x, f, l, base), x, f, l, base)
    BY <2>1, <2>2, NumberedIn
  <2>4. Numbers(x, f, l, base)[f] = 0
    BY <2>1, <2>3, FieldIs, NumberOfZeros
  <2> QED BY <2>1, <2>4, FieldIs
<1> QED BY <1>1, <1>2

(* No source is the number 0.                                              *)
LEMMA NullIsZero ==
  ASSUME NEW f \in Nat, NEW l \in Digits, NEW base \in Bases
  PROVE  Number(NULL, f, l, base) = 0 /\ NULL \in Registers(base)
<1>1. \A i \in f..l : NULL[i] = 0
  BY DigitsOfField DEF NULL
<1>2. NULL \in Registers(base)
  BY BaseIsPositive DEF NULL, Registers
<1> QED BY <1>1, <1>2, NumberOfZeroDigits

(* A shift to the right divides the number by the base.                    *)
LEMMA NumberShiftedRight ==
  ASSUME NEW f \in Nat, NEW l \in Digits, NEW base \in Bases, NEW x \in Registers(base)
  PROVE  /\ Number(reg_shift_right(x, f, l), f, l, base) = Number(x, f, l, base) \div base
         /\ reg_shift_right(x, f, l) \in Registers(base)
<1> DEFINE z == reg_shift_right(x, f, l)
<1>1. z \in Registers(base)
  <2>1. ASSUME NEW i \in Digits PROVE z[i] \in 0..(base - 1)
    <3>1. CASE i \notin f..l
      <4>1. z[i] = x[i]
        BY <3>1 DEF reg_shift_right
      <4> HIDE DEF z
      <4> QED BY <4>1 DEF Registers
    <3>2. CASE i \in f..l /\ i = l
      BY <3>2, BaseIsPositive DEF reg_shift_right, Registers
    <3>3. CASE i \in f..l /\ i # l
      <4>1. i + 1 \in Digits
        BY <3>3, DigitAssumption DEF Digits
      <4> QED BY <3>3, <4>1 DEF reg_shift_right, Registers
    <3> QED BY <3>1, <3>2, <3>3
  <2>2. z = [i \in Digits |-> z[i]]
    BY DEF reg_shift_right
  <2> HIDE DEF z
  <2> QED BY <2>1, <2>2 DEF Registers
<1>2. CASE f > l
  <2>1. Number(z, f, l, base) = 0 /\ Number(x, f, l, base) = 0
    BY <1>2, NumberIs
  <2>2. 0 \div base = 0
    <3>1. base \in Nat \ {0} /\ 0 \in 0..(base - 1) /\ 0 * base + 0 = 0
      BY BaseIsPositive
    <3>2. (0 * base + 0) \div base = 0
      BY <3>1, DivModUnique
    <3> QED BY <3>1, <3>2
  <2> QED BY <1>1, <2>1, <2>2
<1>3. CASE ~(f > l)
  <2>1. f <= l
    BY <1>3, DigitsOfField
  <2>2. DigitsIn(x, f, l, base)
    BY RegistersHold DEF DigitsIn
  <2>3. RightOf(z, x, f, l)
    BY DigitsOfField DEF reg_shift_right, RightOf
  <2> HIDE DEF z
  <2>4. Numbered(Numbers(x, f, l, base), x, f, l, base) /\ Numbered(Numbers(z, f, l, base), z, f, l, base)
    BY <1>1, <2>1, RegistersHold, NumberedIn
  <2>5. f \in Int /\ l \in Int /\ base \in Nat \ {0}
    BY <2>1, FieldIs
  <2>6. Numbers(z, f, l, base)[f] = Numbers(x, f, l, base)[f] \div base
    BY <2>1, <2>2, <2>3, <2>4, <2>5, ShiftedRight
  <2>7. Number(z, f, l, base) = Numbers(z, f, l, base)[f] /\ Number(x, f, l, base) = Numbers(x, f, l, base)[f]
    BY <2>1, FieldIs
  <2>8. Number(z, f, l, base) = Number(x, f, l, base) \div base
    BY <2>6, <2>7
  <2> QED BY <1>1, <2>8 DEF z
<1> QED BY <1>2, <1>3

TimesBase(n, size, base) == (n * base) % size

(* A shift to the left multiplies it, modulo the size.                     *)
LEMMA NumberShiftedLeft ==
  ASSUME NEW f \in Nat, NEW l \in Digits, NEW base \in Bases, NEW x \in Registers(base)
  PROVE  /\ Number(reg_shift_left(x, f, l), f, l, base) = TimesBase(Number(x, f, l, base), Size(f, l, base), base)
         /\ reg_shift_left(x, f, l) \in Registers(base)
<1> DEFINE z == reg_shift_left(x, f, l)
<1>1. z \in Registers(base)
  <2>1. ASSUME NEW i \in Digits PROVE z[i] \in 0..(base - 1)
    <3>1. CASE i \notin f..l
      <4>1. z[i] = x[i]
        BY <3>1 DEF reg_shift_left
      <4> HIDE DEF z
      <4> QED BY <4>1 DEF Registers
    <3>2. CASE i \in f..l /\ i = f
      BY <3>2, BaseIsPositive DEF reg_shift_left, Registers
    <3>3. CASE i \in f..l /\ i # f
      <4>1. i - 1 \in Digits
        BY <3>3, DigitAssumption DEF Digits
      <4> QED BY <3>3, <4>1 DEF reg_shift_left, Registers
    <3> QED BY <3>1, <3>2, <3>3
  <2>2. z = [i \in Digits |-> z[i]]
    BY DEF reg_shift_left
  <2> HIDE DEF z
  <2> QED BY <2>1, <2>2 DEF Registers
<1>2. CASE f > l
  <2>1. Number(z, f, l, base) = 0 /\ Number(x, f, l, base) = 0 /\ Size(f, l, base) = 1
    BY <1>2, NumberIs DEF Size
  <2>2. (0 * base) % 1 = 0
    BY BaseIsPositive
  <2>3. TimesBase(0, 1, base) = 0
    BY <2>2 DEF TimesBase
  <2> QED BY <1>1, <2>1, <2>3
<1>3. CASE ~(f > l)
  <2>1. f <= l
    BY <1>3, DigitsOfField
  <2>2. DigitsIn(x, f, l, base)
    BY RegistersHold DEF DigitsIn
  <2>3. LeftOf(z, x, f, l)
    BY DigitsOfField DEF reg_shift_left, LeftOf
  <2> HIDE DEF z
  <2> DEFINE nz == Numbers(z, f, l, base)
             nx == Numbers(x, f, l, base)
             w == Weights(f, l, base)
  <2>4. Numbered(nx, x, f, l, base) /\ Numbered(nz, z, f, l, base)
    BY <1>1, <2>1, RegistersHold, NumberedIn
  <2>5. f \in Int /\ l \in Int /\ base \in Nat \ {0} /\ Weighted(w, f, l, base)
    BY <2>1, FieldIs
  <2>7. Number(z, f, l, base) = nz[f] /\ Number(x, f, l, base) = nx[f] /\ Size(f, l, base) = w[f]
    BY <2>1, FieldIs
  <2>9. nz[f] \in 0..(w[f] - 1)
    BY <1>1, <2>7, NumberIsSmaller
  <2> HIDE DEF nz, nx, w
  <2>6. nz[f] = (nx[f] * base) % w[f]
    BY <2>1, <2>2, <2>3, <2>4, <2>5, <2>9, ShiftedLeft
  <2>10. nz[f] = TimesBase(nx[f], w[f], base)
    BY <2>6 DEF TimesBase
  <2>8. Number(z, f, l, base) = TimesBase(Number(x, f, l, base), Size(f, l, base), base)
    BY <2>7, <2>10
  <2> QED BY <1>1, <2>8 DEF z
<1> QED BY <1>2, <1>3

-----------------------------------------------------------------------------
(* The sum and the difference of two fields *)
Carries(d, f, l, carry) == [i \in f..(l + 1) |-> One(IF i = f THEN carry ELSE d[i - 1].carry)]

DigitByDigit(minus, d, b, x, y, f, l, carry, base) ==
  /\ \A i \in f..l : /\ d[i].digit \in 0..(base - 1)
                     /\ b[i] \in Int /\ b[i + 1] \in Int
                     /\ minus = FALSE => d[i].digit + base * b[i + 1] = x[i] + y[i] + b[i]
                     /\ minus = TRUE => x[i] + base * b[i + 1] = d[i].digit + y[i] + b[i]
  /\ b[f] = One(carry) /\ b[l + 1] = One(d[l].carry)

(* The carries of Ripple as numbers, digit by digit.                       *)
LEMMA RippledDigits ==
  ASSUME NEW minus \in BOOLEAN, NEW carry \in BOOLEAN, NEW f \in Nat, NEW l \in Digits, NEW base \in Bases, f <= l,
         NEW x \in Registers(base), NEW y \in Registers(base), NEW d, Rippled(d, minus, x, y, f, l, carry, base)
  PROVE  DigitByDigit(minus, d, Carries(d, f, l, carry), x, y, f, l, carry, base)
<1> DEFINE C(i) == IF i = f THEN carry ELSE d[i - 1].carry
           b == Carries(d, f, l, carry)
<1>0. f \in Int /\ l \in Int /\ f \in f..(l + 1) /\ l + 1 \in f..(l + 1) /\ l \in f..l /\ l + 1 # f /\ (l + 1) - 1 = l
  BY DigitsOfField
<1>1. ASSUME NEW i \in f..l PROVE C(i) \in BOOLEAN
  <2>1. CASE i = f
    BY <2>1
  <2>2. CASE i # f
    <3>1. i - 1 \in f..l
      BY <1>0, <2>2
    <3>2. d[i - 1] \in DigitAndCarry
      BY <3>1 DEF Rippled
    <3> QED BY <2>2, <3>2 DEF DigitAndCarry
  <2> QED BY <2>1, <2>2
<1>2. ASSUME NEW i \in f..l PROVE d[i] = digit_add_sub(minus, x[i], y[i], C(i), base)
  BY DEF Rippled
<1>7. b = [i \in f..(l + 1) |-> One(C(i))]
  BY DEF Carries
<1> HIDE DEF b
<1>3. ASSUME NEW i \in f..l PROVE b[i] = One(C(i)) /\ b[i + 1] = One(d[i].carry)
  <2>1. i \in f..(l + 1) /\ i + 1 \in f..(l + 1) /\ i + 1 # f /\ (i + 1) - 1 = i
    BY <1>0
  <2>2. C(i + 1) = d[i].carry
    BY <2>1
  <2> HIDE DEF C
  <2> QED BY <1>7, <2>1, <2>2
<1>4. b[f] = One(carry) /\ b[l + 1] = One(d[l].carry)
  <2>1. C(f) = carry /\ C(l + 1) = d[l].carry
    BY <1>0
  <2> HIDE DEF C
  <2> QED BY <1>0, <1>7, <2>1
<1>5. \A c : One(c) \in Int
  BY DEF One
<1> HIDE DEF C
<1>6. ASSUME NEW i \in f..l
      PROVE  /\ d[i].digit \in 0..(base - 1)
             /\ b[i] \in Int /\ b[i + 1] \in Int
             /\ minus = FALSE => d[i].digit + base * b[i + 1] = x[i] + y[i] + b[i]
             /\ minus = TRUE => x[i] + base * b[i + 1] = d[i].digit + y[i] + b[i]
  <2> DEFINE c == C(i)
             X == x[i]
             Y == y[i]
             D == d[i]
  <2>1. X \in 0..(base - 1) /\ Y \in 0..(base - 1)
    BY RegistersHold
  <2>2. c \in BOOLEAN /\ D = digit_add_sub(minus, X, Y, c, base)
    BY <1>1, <1>2
  <2>3. b[i] = One(c) /\ b[i + 1] = One(D.carry)
    BY <1>3
  <2> SUFFICES /\ D.digit \in 0..(base - 1)
               /\ minus = FALSE => D.digit + base * One(D.carry) = X + Y + One(c)
               /\ minus = TRUE => X + base * One(D.carry) = D.digit + Y + One(c)
    BY <1>5, <2>3
  <2> HIDE DEF c, X, Y, D
  <2>4. CASE minus = FALSE
    BY <2>1, <2>2, <2>4, DigitSum
  <2>5. CASE minus = TRUE
    BY <2>1, <2>2, <2>5, DigitDifference
  <2> QED BY <2>4, <2>5
<1> QED BY <1>4, <1>6 DEF b, DigitByDigit

Balance(minus, nz, nx, ny, size, out, in) ==
  /\ minus = FALSE => nz + size * One(out) = nx + ny + One(in)
  /\ minus = TRUE => nx + size * One(out) = nz + ny + One(in)

Summed(s, minus, dest, x, y, f, l, carry, base) ==
  /\ s.dest \in Registers(base)
  /\ s.carry \in BOOLEAN
  /\ \A i \in Digits : i \notin f..l => s.dest[i] = dest[i]
  /\ Balance(minus, Number(s.dest, f, l, base), Number(x, f, l, base), Number(y, f, l, base),
             Size(f, l, base), s.carry, carry)

(* What reg_add_sub leaves: a sum, or a difference, with its carry.        *)
LEMMA NumberOfSum ==
  ASSUME NEW minus \in BOOLEAN, NEW carry \in BOOLEAN, NEW f \in Nat, NEW l \in Digits, NEW base \in Bases,
         NEW dest \in Registers(base), NEW x \in Registers(base), NEW y \in Registers(base)
  PROVE  Summed(reg_add_sub(minus, dest, x, y, f, l, carry, base), minus, dest, x, y, f, l, carry, base)
<1> DEFINE d == Ripple(minus, x, y, f, l, carry, base)
           z == reg_add_sub(minus, dest, x, y, f, l, carry, base).dest
           out == reg_add_sub(minus, dest, x, y, f, l, carry, base).carry
<1> SUFFICES /\ z \in Registers(base) /\ out \in BOOLEAN
             /\ \A i \in Digits : i \notin f..l => z[i] = dest[i]
             /\ Balance(minus, Number(z, f, l, base), Number(x, f, l, base), Number(y, f, l, base),
                        Size(f, l, base), out, carry)
  BY DEF Summed
<1>1. z = [i \in Digits |-> IF i \in f..l THEN d[i].digit ELSE dest[i]]
  BY DEF reg_add_sub
<1>2. (f > l => out = carry) /\ (~(f > l) => out = d[l].carry)
  BY DEF reg_add_sub
<1>3. \A c : One(c) \in Int
  BY DEF One
<1> HIDE DEF z, out, d
<1>4. CASE f > l
  <2>1. ~(\E i : i \in f..l)
    BY <1>4, DigitsOfField
  <2>2. z = [i \in Digits |-> dest[i]]
    BY <1>1, <2>1
  <2>3. z = dest
    BY <2>2 DEF Registers
  <2>4. Number(z, f, l, base) = 0 /\ Number(x, f, l, base) = 0 /\ Number(y, f, l, base) = 0 /\ Size(f, l, base) = 1
    BY <1>4, NumberIs DEF Size
  <2>5. out = carry
    BY <1>2, <1>4
  <2>6. 0 + 1 * One(carry) = 0 + 0 + One(carry)
    BY <1>3
  <2>7. Balance(minus, 0, 0, 0, 1, carry, carry)
    BY <2>6 DEF Balance
  <2> QED BY <2>3, <2>4, <2>5, <2>7
<1>5. CASE ~(f > l)
  <2>1. f <= l /\ f \in Int /\ l \in Int
    BY <1>5, DigitsOfField
  <2>2. Rippled(d, minus, x, y, f, l, carry, base)
    <3>1. \A i \in f..l : x[i] \in Int /\ y[i] \in Int
      BY RegistersHold DEF IntegersIn
    <3> QED BY <2>1, <3>1, RippleIs DEF d
  <2> DEFINE b == Carries(d, f, l, carry)
  <2>14. DigitByDigit(minus, d, b, x, y, f, l, carry, base)
    BY <2>1, <2>2, RippledDigits
  <2> HIDE DEF b
  <2>3. /\ \A i \in f..l : /\ d[i].digit \in 0..(base - 1)
                           /\ b[i] \in Int /\ b[i + 1] \in Int
                           /\ minus = FALSE => d[i].digit + base * b[i + 1] = x[i] + y[i] + b[i]
                           /\ minus = TRUE => x[i] + base * b[i + 1] = d[i].digit + y[i] + b[i]
        /\ b[f] = One(carry) /\ b[l + 1] = One(d[l].carry)
    BY <2>14 DEF DigitByDigit
  <2>4. \A i \in f..l : z[i] = d[i].digit
    BY <1>1, DigitsOfField
  <2>5. z \in Registers(base)
    <3>1. ASSUME NEW i \in Digits PROVE z[i] \in 0..(base - 1)
      <4>1. CASE i \in f..l
        BY <2>3, <2>4, <4>1
      <4>2. CASE i \notin f..l
        <5>1. z[i] = dest[i]
          BY <1>1, <4>2
        <5> QED BY <5>1 DEF Registers
      <4> QED BY <4>1, <4>2
    <3>2. z = [i \in Digits |-> z[i]]
      BY <1>1
    <3> QED BY <3>1, <3>2 DEF Registers
  <2>6. out = d[l].carry /\ out \in BOOLEAN
    <3>1. l \in f..l
      BY <2>1
    <3>2. d[l] \in DigitAndCarry
      BY <2>2, <3>1 DEF Rippled
    <3> QED BY <1>2, <1>5, <3>2 DEF DigitAndCarry
  <2>7. IntegersIn(z, f, l) /\ IntegersIn(x, f, l) /\ IntegersIn(y, f, l)
    BY <2>5, RegistersHold
  <2> DEFINE nz == Numbers(z, f, l, base)
             nx == Numbers(x, f, l, base)
             ny == Numbers(y, f, l, base)
             w == Weights(f, l, base)
  <2>8. Numbered(nz, z, f, l, base) /\ Numbered(nx, x, f, l, base) /\ Numbered(ny, y, f, l, base)
    BY <2>1, <2>7, NumberedIn
  <2>9. Weighted(w, f, l, base) /\ Size(f, l, base) = w[f] /\ base \in Nat
        /\ Number(z, f, l, base) = nz[f] /\ Number(x, f, l, base) = nx[f] /\ Number(y, f, l, base) = ny[f]
    BY <2>1, FieldIs
  <2> HIDE DEF nz, nx, ny, w
  <2>10. ASSUME minus = FALSE PROVE nz[f] + w[f] * b[l + 1] = nx[f] + ny[f] + b[f]
    <3>1. Columns(z, x, y, b, f, l, base)
      BY <2>3, <2>4, <2>7, <2>10 DEF Columns, IntegersIn
    <3> QED BY <2>1, <2>8, <2>9, <3>1, ColumnsAdd
  <2>11. ASSUME minus = TRUE PROVE nx[f] + w[f] * b[l + 1] = nz[f] + ny[f] + b[f]
    <3>1. Columns(x, z, y, b, f, l, base)
      BY <2>3, <2>4, <2>7, <2>11 DEF Columns, IntegersIn
    <3> QED BY <2>1, <2>8, <2>9, <3>1, ColumnsAdd
  <2>12. Balance(minus, nz[f], nx[f], ny[f], w[f], out, carry)
    BY <2>3, <2>6, <2>10, <2>11 DEF Balance
  <2>13. \A i \in Digits : i \notin f..l => z[i] = dest[i]
    BY <1>1
  <2> QED BY <2>5, <2>6, <2>9, <2>12, <2>13
<1> QED BY <1>4, <1>5

Leaves(e, regs, d, s) == e.regs = [regs EXCEPT ![d] = s.dest] /\ e.carry = s.carry

(* A sum or a difference into a register.                                  *)
LEMMA ExecutedSum ==
  ASSUME NEW regs, NEW f, NEW l, NEW base, NEW d \in Regs, NEW x, NEW y, NEW carry
  PROVE  Leaves(Execute(Call("add", d, x, y, carry), regs, f, l, base), regs, d,
                reg_add_sub(FALSE, regs[d], Source(regs, x), Source(regs, y), f, l, carry, base))
<1>1. d # "NULL"
  BY DEF Regs
<1>2. Source(regs, d) = regs[d]
  BY <1>1 DEF Source
<1>3. ("add" = "sub") = FALSE
  OBVIOUS
<1> QED BY <1>1, <1>2, <1>3 DEF Execute, Call, Leaves

LEMMA ExecutedDifference ==
  ASSUME NEW regs, NEW f, NEW l, NEW base, NEW d \in Regs, NEW x, NEW y, NEW carry
  PROVE  Leaves(Execute(Call("sub", d, x, y, carry), regs, f, l, base), regs, d,
                reg_add_sub(TRUE, regs[d], Source(regs, x), Source(regs, y), f, l, carry, base))
<1>1. d # "NULL"
  BY DEF Regs
<1>2. Source(regs, d) = regs[d]
  BY <1>1 DEF Source
<1> QED BY <1>1, <1>2 DEF Execute, Call, Leaves

Compares(e, regs, s) == e.regs = regs /\ e.carry = s.carry

(* A comparison is a difference that is not kept.                          *)
LEMMA ExecutedComparison ==
  ASSUME NEW regs, NEW f, NEW l, NEW base, NEW x, NEW y
  PROVE  Compares(Execute(compare(x, y), regs, f, l, base), regs,
                  reg_add_sub(TRUE, NULL, Source(regs, x), Source(regs, y), f, l, FALSE, base))
<1>2. Source(regs, "NULL") = NULL
  BY DEF Source
<1> QED BY <1>2 DEF Execute, Call, compare, Compares

Exchanges(e, regs, d, x, zd, zx) ==
  e.regs = [[regs EXCEPT ![d] = zd] EXCEPT ![x] = zx] /\ e.carry = FALSE

(* An exchange takes both registers as they were.                          *)
LEMMA ExecutedExchange ==
  ASSUME NEW regs, DOMAIN regs = Regs, NEW f, NEW l, NEW base, NEW d \in Regs, NEW x \in Regs, d # x
  PROVE  Exchanges(Execute(exch(d, x), regs, f, l, base), regs, d, x,
                   reg_copy(regs[d], regs[x], f, l), reg_copy(regs[x], regs[d], f, l))
<1> DEFINE zd == reg_copy(regs[d], regs[x], f, l)
           e == Execute(exch(d, x), regs, f, l, base)
<1>1. x # "NULL"
  BY DEF Regs
<1>2. Source(regs, x) = regs[x]
  BY <1>1 DEF Source
<1>3. /\ e.regs = [[regs EXCEPT ![d] = zd] EXCEPT ![x] = reg_copy(@, regs[d], f, l)]
      /\ e.carry = FALSE
  BY <1>2 DEF Execute, Call, exch
<1>4. [regs EXCEPT ![d] = zd][x] = regs[x]
  OBVIOUS
<1> HIDE DEF e, zd
<1>5. e.regs = [[regs EXCEPT ![d] = zd] EXCEPT ![x] = reg_copy(regs[x], regs[d], f, l)]
  BY <1>3, <1>4
<1> QED BY <1>3, <1>5 DEF Exchanges, e, zd

-----------------------------------------------------------------------------
(* What the statements mean *)
Value(x, regs, f, l, base) ==
  CASE x \in Regs -> Number(regs[x], f, l, base) [] x = "0" -> 0 [] x = "1" -> 1

Total(x, sign, y, k, regs, f, l, base) ==
  Value(x, regs, f, l, base)
    + (IF sign = "+" THEN Value(y, regs, f, l, base) + k ELSE 0 - Value(y, regs, f, l, base) - k)

LEMMA MeaningOfSet ==
  ASSUME NEW d, NEW x, NEW sign, NEW y, NEW k, NEW regs, NEW f, NEW l, NEW base
  PROVE  /\ Meaning(Set(d, x, sign, y, k), regs, f, l, base).d
              = Total(x, sign, y, k, regs, f, l, base) % Size(f, l, base)
         /\ Meaning(Set(d, x, sign, y, k), regs, f, l, base).carry
              = ~(Total(x, sign, y, k, regs, f, l, base) \in 0..(Size(f, l, base) - 1))
<1> DEFINE S == Set(d, x, sign, y, k)
           T == Total(S.x, S.sign, S.y, S.k, regs, f, l, base)
           Z == Size(f, l, base)
<1>1. S.stmt = "set" /\ S.x = x /\ S.sign = sign /\ S.y = y /\ S.k = k
  BY DEF Set
<1> HIDE DEF S
<1>2. Meaning(S, regs, f, l, base)
        = CASE S.stmt = "set"   -> [d |-> T % Z, x |-> Value(S.x, regs, f, l, base), carry |-> ~(T \in 0..(Z - 1))]
            [] S.stmt = "swap"  -> [d |-> Value(S.x, regs, f, l, base), x |-> Value(S.d, regs, f, l, base), carry |-> FALSE]
            [] S.stmt = "right" -> [d |-> Value(S.d, regs, f, l, base) \div base, x |-> 0, carry |-> FALSE]
            [] S.stmt = "left"  -> [d |-> (Value(S.d, regs, f, l, base) * base) % Z, x |-> 0, carry |-> FALSE]
            [] S.stmt = "if"    -> [d |-> 0, x |-> Value(S.x, regs, f, l, base),
                 carry |-> Holds(Value(S.x, regs, f, l, base), S.rel, Value(S.y, regs, f, l, base)) = (machine.arch = "nut")]
  BY DEF Meaning, Total, Value, Size
<1> HIDE DEF T, Z
<1>3. Meaning(S, regs, f, l, base).d = T % Z /\ Meaning(S, regs, f, l, base).carry = ~(T \in 0..(Z - 1))
  BY <1>1, <1>2
<1>4. T = Total(x, sign, y, k, regs, f, l, base)
  BY <1>1 DEF T
<1> QED BY <1>3, <1>4 DEF S, Z

Swaps(m, vd, vx) == m.d = vx /\ m.x = vd /\ m.carry = FALSE

LEMMA MeaningOfSwap ==
  ASSUME NEW d, NEW x, NEW regs, NEW f, NEW l, NEW base
  PROVE  Swaps(Meaning(Swap(d, x), regs, f, l, base), Value(d, regs, f, l, base), Value(x, regs, f, l, base))
BY DEF Meaning, Swap, Value, Swaps

LEMMA MeaningOfRight ==
  ASSUME NEW d, NEW regs, NEW f, NEW l, NEW base
  PROVE  /\ Meaning(Shift(d, "right"), regs, f, l, base).d = Value(d, regs, f, l, base) \div base
         /\ Meaning(Shift(d, "right"), regs, f, l, base).carry = FALSE
BY DEF Meaning, Shift, Value, Size

LEMMA MeaningOfLeft ==
  ASSUME NEW d, NEW regs, NEW f, NEW l, NEW base
  PROVE  /\ Meaning(Shift(d, "left"), regs, f, l, base).d
              = TimesBase(Value(d, regs, f, l, base), Size(f, l, base), base)
         /\ Meaning(Shift(d, "left"), regs, f, l, base).carry = FALSE
BY DEF Meaning, Shift, Value, Size, TimesBase

LEMMA MeaningOfIf ==
  ASSUME NEW x, NEW rel, NEW y, NEW regs, NEW f, NEW l, NEW base
  PROVE  Meaning(If(x, rel, y), regs, f, l, base).carry
           = (Holds(Value(x, regs, f, l, base), rel, Value(y, regs, f, l, base)) = (machine.arch = "nut"))
BY DEF Meaning, If, Value
-----------------------------------------------------------------------------
(* What it is for an instruction to do what it says *)
RegisterFiles(base) == [Regs -> Registers(base)]

(* An instruction does what its statement s means, and leaves digits of    *)
(* the base.                                                               *)
Does(call, s, f, l, base) ==
  LET done == Execute(call, r, f, l, base)
      m == Meaning(s, r, f, l, base)
  IN  /\ done.carry = m.carry
      /\ s.stmt # "if" => Number(done.regs[s.d], f, l, base) = m.d
      /\ s.stmt = "swap" => Number(done.regs[s.x], f, l, base) = m.x
      /\ \A x \in Regs : \A i \in Digits :
           x \notin Written(s) \/ i \notin f..l => done.regs[x][i] = r[x][i]
      /\ done.regs \in RegisterFiles(base)

(* It writes z to the register d.                                          *)
Writes(call, s, d, z, f, l, base) ==
  /\ s.stmt # "if" /\ s.stmt # "swap" /\ s.d = d
  /\ Execute(call, r, f, l, base).regs = [r EXCEPT ![d] = z]
  /\ Execute(call, r, f, l, base).carry = Meaning(s, r, f, l, base).carry
  /\ z \in Registers(base)
  /\ \A i \in Digits : i \notin f..l => z[i] = r[d][i]
  /\ Number(z, f, l, base) = Meaning(s, r, f, l, base).d

LEMMA WritesDoes ==
  ASSUME NEW call, NEW s, NEW d \in Regs, NEW z, NEW f, NEW l, NEW base, r \in RegisterFiles(base),
         Writes(call, s, d, z, f, l, base)
  PROVE  Does(call, s, f, l, base)
<1> DEFINE R1 == Execute(call, r, f, l, base).regs
<1>1. s.stmt # "if" /\ s.stmt # "swap" /\ s.d = d /\ R1 = [r EXCEPT ![d] = z] /\ z \in Registers(base)
      /\ (\A i \in Digits : i \notin f..l => z[i] = r[d][i])
      /\ Number(z, f, l, base) = Meaning(s, r, f, l, base).d
      /\ Execute(call, r, f, l, base).carry = Meaning(s, r, f, l, base).carry
  BY DEF Writes
<1>2. r \in [Regs -> Registers(base)]
  BY DEF RegisterFiles
<1>3. R1[d] = z /\ \A x \in Regs : x # d => R1[x] = r[x]
  BY <1>1, <1>2
<1>4. Written(s) = {d}
  BY <1>1 DEF Written
<1>5. R1 \in RegisterFiles(base)
  BY <1>1, <1>2 DEF RegisterFiles
<1>6. \A x \in Regs : \A i \in Digits : x \notin Written(s) \/ i \notin f..l => R1[x][i] = r[x][i]
  BY <1>1, <1>3, <1>4
<1>7. Number(R1[s.d], f, l, base) = Meaning(s, r, f, l, base).d
  BY <1>1, <1>3
<1> HIDE DEF R1
<1> QED BY <1>1, <1>5, <1>6, <1>7 DEF Does, R1

(* It is a test: it leaves the registers alone.                            *)
LEMMA TestDoes ==
  ASSUME NEW call, NEW s, NEW f, NEW l, NEW base, r \in RegisterFiles(base), s.stmt = "if",
         Execute(call, r, f, l, base).regs = r,
         Execute(call, r, f, l, base).carry = Meaning(s, r, f, l, base).carry
  PROVE  Does(call, s, f, l, base)
<1>1. "if" # "swap"
  OBVIOUS
<1> QED BY <1>1 DEF Does

-----------------------------------------------------------------------------
(* The operands, and what they are called *)
Operand(x, name) == (x \in Regs /\ name = x) \/ (x = "NULL" /\ name = "0")

(* A register stands for itself.                                           *)
LEMMA RegisterValue ==
  ASSUME NEW x \in Regs, NEW f, NEW l, NEW base
  PROVE  Value(x, r, f, l, base) = Number(r[x], f, l, base) /\ Source(r, x) = r[x]
<1>1. x # "0" /\ x # "1" /\ x # "NULL"
  BY DEF Regs
<1> QED BY <1>1 DEF Value, Source

(* An operand is a number, that of its name.                               *)
LEMMA OperandIs ==
  ASSUME NEW f \in Nat, NEW l \in Digits, NEW base \in Bases, r \in RegisterFiles(base),
         NEW x, NEW name, Operand(x, name)
  PROVE  Source(r, x) \in Registers(base) /\ Value(name, r, f, l, base) = Number(Source(r, x), f, l, base)
<1>1. CASE x \in Regs /\ name = x
  <2>1. Value(x, r, f, l, base) = Number(r[x], f, l, base) /\ Source(r, x) = r[x]
    BY <1>1, RegisterValue
  <2> QED BY <1>1, <2>1 DEF RegisterFiles
<1>2. CASE x = "NULL" /\ name = "0"
  <2>1. Source(r, x) = NULL
    BY <1>2 DEF Source
  <2>2. Value(name, r, f, l, base) = 0
    BY <1>2 DEF Value, Regs
  <2> QED BY <2>1, <2>2, NullIsZero
<1> QED BY <1>1, <1>2 DEF Operand

(* And a number is natural.                                                *)
LEMMA FieldHolds ==
  ASSUME NEW f \in Nat, NEW l \in Digits, NEW base \in Bases, NEW x \in Registers(base)
  PROVE  Number(x, f, l, base) \in Nat
<1>1. Number(x, f, l, base) \in 0..(Size(f, l, base) - 1)
  BY NumberIsSmaller
<1> QED BY <1>1, SizeIsPositive

(* A number and a carry are a number modulo the size                       *)
LEMMA CarryAndRest ==
  ASSUME NEW size \in Nat \ {0}, NEW nz \in 0..(size - 1), NEW out \in BOOLEAN, NEW n \in Int,
         n = nz + size * One(out) \/ nz = n + size * One(out)
  PROVE  n % size = nz /\ out = ~(n \in 0..(size - 1))
<1>1. CASE out = TRUE
  <2>1. One(out) = 1 /\ size * 1 = size
    BY <1>1 DEF One
  <2>2. n = nz + size \/ n = nz - size
    BY <2>1
  <2>3. ~(n \in 0..(size - 1))
    BY <2>2
  <2>4. n % size = nz
    <3>1. CASE n = nz + size
      <4>1. Divided(n, 1, size, nz)
        BY <3>1 DEF Divided
      <4> QED BY <4>1, ModUnique
    <3>2. CASE n = nz - size
      <4>1. n = (-1) * size + nz /\ -1 \in Int
        BY <3>2
      <4>2. Divided(n, -1, size, nz)
        BY <4>1 DEF Divided
      <4> QED BY <4>2, ModUnique
    <3> QED BY <2>2, <3>1, <3>2
  <2> QED BY <1>1, <2>3, <2>4
<1>2. CASE out = FALSE
  <2>1. One(out) = 0 /\ size * 0 = 0
    BY <1>2 DEF One
  <2>2. n = nz
    BY <2>1
  <2>3. Divided(n, 0, size, nz)
    BY <2>2 DEF Divided
  <2>4. n % size = nz
    BY <2>3, ModUnique
  <2> QED BY <1>2, <2>2, <2>4
<1> QED BY <1>1, <1>2

-----------------------------------------------------------------------------
(* A register of the file has digits of the base.                          *)
LEMMA InFile ==
  ASSUME NEW base, NEW d \in Regs, r \in RegisterFiles(base)
  PROVE  r[d] \in Registers(base)
BY DEF RegisterFiles

(* The instructions, by their kind: 0 -> d.                                *)
LEMMA ZeroDoes ==
  ASSUME NEW f \in Nat, NEW l \in Digits, NEW base \in Bases, r \in RegisterFiles(base), NEW d \in Regs
  PROVE  Does(zero(d), Clear(d), f, l, base)
<1> DEFINE z == reg_zero(r[d], f, l)
           s == Clear(d)
           m == Meaning(s, r, f, l, base)
           size == Size(f, l, base)
<1>1. z \in Registers(base) /\ \A i \in Digits : i \notin f..l => z[i] = r[d][i]
  BY InFile, BaseIsPositive DEF reg_zero, Registers
<1>2. Number(z, f, l, base) = 0
  <2>1. \A i \in f..l : z[i] = 0
    BY DigitsOfField DEF reg_zero
  <2> HIDE DEF z
  <2> QED BY <2>1, NumberOfZeroDigits
<1>3. size \in Nat \ {0}
  BY SizeIsPositive
<1>4. m.d = 0 /\ m.carry = FALSE
  <2> DEFINE n == Total("0", "+", "0", 0, r, f, l, base)
  <2>1. n = 0
    BY DEF Total, Value, Regs
  <2>2. m.d = n % size /\ m.carry = ~(n \in 0..(size - 1))
    BY MeaningOfSet DEF Clear, Plus
  <2>3. 0 \in 0..(size - 1) /\ 0 = 0 + size * One(FALSE)
    BY <1>3 DEF One
  <2>4. 0 % size = 0
    BY <1>3, <2>3, CarryAndRest
  <2> HIDE DEF n, m, size
  <2> QED BY <2>1, <2>2, <2>3, <2>4
<1>5. s.stmt # "if" /\ s.stmt # "swap" /\ s.d = d
  BY DEF Clear, Plus, Set
<1>6. Puts(Execute(zero(d), r, f, l, base), r, d, z)
  BY ExecutedZero
<1> HIDE DEF z, m, s, size
<1>7. Writes(zero(d), s, d, z, f, l, base)
  BY <1>1, <1>2, <1>4, <1>5, <1>6 DEF Writes, Puts, m
<1> QED BY <1>7, WritesDoes DEF s

(* x -> d.                                                                 *)
LEMMA CopyDoes ==
  ASSUME NEW f \in Nat, NEW l \in Digits, NEW base \in Bases, r \in RegisterFiles(base), NEW d \in Regs, NEW x \in Regs
  PROVE  Does(copy(d, x), Copy(x, d), f, l, base)
<1> DEFINE z == reg_copy(r[d], r[x], f, l)
           s == Copy(x, d)
           m == Meaning(s, r, f, l, base)
           size == Size(f, l, base)
           nx == Number(r[x], f, l, base)
<1>0. r[x] \in Registers(base) /\ r[d] \in Registers(base)
  BY InFile
<1>1. z \in Registers(base) /\ \A i \in Digits : i \notin f..l => z[i] = r[d][i]
  BY <1>0 DEF reg_copy, Registers
<1>2. Number(z, f, l, base) = nx
  <2>1. \A i \in f..l : z[i] = r[x][i]
    BY DigitsOfField DEF reg_copy
  <2>2. IntegersIn(r[x], f, l)
    BY <1>0, RegistersHold
  <2> HIDE DEF z
  <2> QED BY <2>1, <2>2, NumberOfSameDigits
<1>3. size \in Nat \ {0} /\ nx \in 0..(size - 1)
  BY <1>0, SizeIsPositive, NumberIsSmaller
<1>4. m.d = nx /\ m.carry = FALSE
  <2> DEFINE n == Total(x, "+", "0", 0, r, f, l, base)
  <2>1. n = nx
    <3>1. Value(x, r, f, l, base) = nx
      BY RegisterValue
    <3>2. Value("0", r, f, l, base) = 0
      BY DEF Value, Regs
    <3>3. nx + (0 + 0) = nx
      BY <1>3
    <3> HIDE DEF nx
    <3> QED BY <3>1, <3>2, <3>3 DEF Total
  <2>2. m.d = n % size /\ m.carry = ~(n \in 0..(size - 1))
    BY MeaningOfSet DEF Copy, Plus
  <2> HIDE DEF n, m, size, nx
  <2>3. nx = nx + size * One(FALSE)
    BY <1>3 DEF One
  <2>4. nx % size = nx
    BY <1>3, <2>3, CarryAndRest
  <2> QED BY <1>3, <2>1, <2>2, <2>4
<1>5. s.stmt # "if" /\ s.stmt # "swap" /\ s.d = d
  BY DEF Copy, Plus, Set
<1>6. Puts(Execute(copy(d, x), r, f, l, base), r, d, z)
  <2>1. Source(r, x) = r[x]
    BY RegisterValue
  <2> QED BY <2>1, ExecutedCopy
<1> HIDE DEF z, m, s, size, nx
<1>7. Writes(copy(d, x), s, d, z, f, l, base)
  BY <1>1, <1>2, <1>4, <1>5, <1>6 DEF Writes, Puts, m
<1> QED BY <1>7, WritesDoes DEF s

(* d shifted to the right.                                                 *)
LEMMA RightDoes ==
  ASSUME NEW f \in Nat, NEW l \in Digits, NEW base \in Bases, r \in RegisterFiles(base), NEW d \in Regs
  PROVE  Does(right(d), Shift(d, "right"), f, l, base)
<1> DEFINE z == reg_shift_right(r[d], f, l)
           s == Shift(d, "right")
           m == Meaning(s, r, f, l, base)
<1>0. r[d] \in Registers(base)
  BY InFile
<1>1. z \in Registers(base) /\ Number(z, f, l, base) = Number(r[d], f, l, base) \div base
  BY <1>0, NumberShiftedRight
<1>2. \A i \in Digits : i \notin f..l => z[i] = r[d][i]
  BY DEF reg_shift_right
<1>4. m.d = Value(d, r, f, l, base) \div base /\ m.carry = FALSE
  BY MeaningOfRight
<1>3. Value(d, r, f, l, base) = Number(r[d], f, l, base)
  BY RegisterValue
<1>5. s.stmt # "if" /\ s.stmt # "swap" /\ s.d = d
  BY DEF Shift
<1>6. Puts(Execute(right(d), r, f, l, base), r, d, z)
  BY ExecutedRight
<1> HIDE DEF z, m, s
<1>7. Writes(right(d), s, d, z, f, l, base)
  BY <1>1, <1>2, <1>3, <1>4, <1>5, <1>6 DEF Writes, Puts, m
<1> QED BY <1>7, WritesDoes DEF s

(* d shifted to the left.                                                  *)
LEMMA LeftDoes ==
  ASSUME NEW f \in Nat, NEW l \in Digits, NEW base \in Bases, r \in RegisterFiles(base), NEW d \in Regs
  PROVE  Does(left(d), Shift(d, "left"), f, l, base)
<1> DEFINE z == reg_shift_left(r[d], f, l)
           s == Shift(d, "left")
           m == Meaning(s, r, f, l, base)
<1>0. r[d] \in Registers(base)
  BY InFile
<1>1. z \in Registers(base) /\ Number(z, f, l, base) = TimesBase(Number(r[d], f, l, base), Size(f, l, base), base)
  BY <1>0, NumberShiftedLeft
<1>2. \A i \in Digits : i \notin f..l => z[i] = r[d][i]
  BY DEF reg_shift_left
<1>4. m.d = TimesBase(Value(d, r, f, l, base), Size(f, l, base), base) /\ m.carry = FALSE
  BY MeaningOfLeft
<1>3. Value(d, r, f, l, base) = Number(r[d], f, l, base)
  BY RegisterValue
<1>5. s.stmt # "if" /\ s.stmt # "swap" /\ s.d = d
  BY DEF Shift
<1>6. Puts(Execute(left(d), r, f, l, base), r, d, z)
  BY ExecutedLeft
<1> HIDE DEF z, m, s
<1>7. Writes(left(d), s, d, z, f, l, base)
  BY <1>1, <1>2, <1>3, <1>4, <1>5, <1>6 DEF Writes, Puts, m
<1> QED BY <1>7, WritesDoes DEF s

AddOrSub(fn, sign, minus) ==
  IF minus = TRUE THEN fn = "sub" /\ sign = "-" ELSE fn = "add" /\ sign = "+"

(* x + y -> d and x - y -> d, with or without the carry of one more.       *)
LEMMA SumDoes ==
  ASSUME NEW f \in Nat, NEW l \in Digits, NEW base \in Bases, r \in RegisterFiles(base), NEW d \in Regs,
         NEW x, NEW xn, Operand(x, xn), NEW y, NEW yn, Operand(y, yn), NEW carry \in BOOLEAN, NEW k, k = One(carry)
  PROVE  /\ Does(Call("add", d, x, y, carry), Set(d, xn, "+", yn, k), f, l, base)
         /\ Does(Call("sub", d, x, y, carry), Set(d, xn, "-", yn, k), f, l, base)
<1> DEFINE X == Source(r, x)
           Y == Source(r, y)
           nx == Number(X, f, l, base)
           ny == Number(Y, f, l, base)
           size == Size(f, l, base)
<1>1. r[d] \in Registers(base)
  BY InFile
<1>2. X \in Registers(base) /\ Y \in Registers(base) /\ Value(xn, r, f, l, base) = nx /\ Value(yn, r, f, l, base) = ny
  BY OperandIs
<1> HIDE DEF X, Y
<1>3. size \in Nat \ {0} /\ nx \in Nat /\ ny \in Nat
  BY <1>2, SizeIsPositive, FieldHolds
<1>4. k \in Int
  BY DEF One
<1>5. ASSUME NEW fn, NEW sign, NEW minus \in BOOLEAN,
             AddOrSub(fn, sign, minus)
      PROVE  Does(Call(fn, d, x, y, carry), Set(d, xn, sign, yn, k), f, l, base)
  <2> DEFINE a == reg_add_sub(minus, r[d], X, Y, f, l, carry, base)
             z == a.dest
             out == a.carry
             s == Set(d, xn, sign, yn, k)
             m == Meaning(s, r, f, l, base)
             n == Total(xn, sign, yn, k, r, f, l, base)
             call == Call(fn, d, x, y, carry)
             nz == Number(z, f, l, base)
  <2>1. z \in Registers(base) /\ out \in BOOLEAN /\ (\A i \in Digits : i \notin f..l => z[i] = r[d][i])
        /\ Balance(minus, nz, nx, ny, size, out, carry)
    <3>1. Summed(a, minus, r[d], X, Y, f, l, carry, base)
      BY <1>1, <1>2, NumberOfSum
    <3> HIDE DEF a
    <3> QED BY <3>1 DEF Summed
  <2>2. Execute(call, r, f, l, base).regs = [r EXCEPT ![d] = z] /\ Execute(call, r, f, l, base).carry = out
    <3>1. CASE minus = FALSE
      <4>1. fn = "add"
        BY <1>5, <3>1 DEF AddOrSub
      <4>2. Leaves(Execute(Call("add", d, x, y, carry), r, f, l, base), r, d, a)
        BY <3>1, ExecutedSum DEF X, Y
      <4> HIDE DEF a
      <4> QED BY <4>1, <4>2 DEF Leaves
    <3>2. CASE minus = TRUE
      <4>1. fn = "sub"
        BY <1>5, <3>2 DEF AddOrSub
      <4>2. Leaves(Execute(Call("sub", d, x, y, carry), r, f, l, base), r, d, a)
        BY <3>2, ExecutedDifference DEF X, Y
      <4> HIDE DEF a
      <4> QED BY <4>1, <4>2 DEF Leaves
    <3> QED BY <3>1, <3>2
  <2>3. m.d = n % size /\ m.carry = ~(n \in 0..(size - 1))
    BY MeaningOfSet
  <2>4. nz \in 0..(size - 1)
    BY <2>1, NumberIsSmaller
  <2> HIDE DEF z, out, a
  <2>5. n \in Int /\ (n = nz + size * One(out) \/ nz = n + size * One(out))
    <3> HIDE DEF nz, nx, ny, size
    <3>1. One(out) \in Int /\ size * One(out) \in Int
      BY <1>3 DEF One
    <3>2. CASE minus = FALSE
      <4>1. sign = "+"
        BY <1>5, <3>2 DEF AddOrSub
      <4>2. n = nx + (ny + k)
        BY <1>2, <4>1 DEF Total
      <4>3. nz + size * One(out) = nx + ny + k
        BY <2>1, <3>2 DEF Balance
      <4> QED BY <1>3, <1>4, <4>2, <4>3
    <3>3. CASE minus = TRUE
      <4>1. sign = "-"
        BY <1>5, <3>3 DEF AddOrSub
      <4>2. n = nx + (0 - ny - k)
        BY <1>2, <4>1 DEF Total
      <4>3. nx + size * One(out) = nz + ny + k
        BY <2>1, <3>3 DEF Balance
      <4> QED BY <1>3, <1>4, <2>4, <3>1, <4>2, <4>3
    <3> QED BY <3>2, <3>3
  <2> HIDE DEF nz, n, size, m
  <2>6. n % size = nz /\ out = ~(n \in 0..(size - 1))
    BY <1>3, <2>1, <2>4, <2>5, CarryAndRest
  <2>7. m.d = nz /\ m.carry = out
    BY <2>3, <2>6
  <2>8. s.stmt # "if" /\ s.stmt # "swap" /\ s.d = d
    BY DEF Set
  <2> HIDE DEF s, call
  <2>9. Writes(call, s, d, z, f, l, base)
    BY <2>1, <2>2, <2>7, <2>8 DEF Writes, m, nz
  <2>10. Does(call, s, f, l, base)
    BY <2>9, WritesDoes
  <2> QED BY <2>10 DEF s, call
<1>6. Does(Call("add", d, x, y, carry), Set(d, xn, "+", yn, k), f, l, base)
  <2>1. PICK minus \in BOOLEAN : minus # TRUE
    <3>1. FALSE \in BOOLEAN /\ FALSE # TRUE
      OBVIOUS
    <3> QED BY <3>1, Zenon
  <2>2. AddOrSub("add", "+", minus)
    BY <2>1 DEF AddOrSub
  <2> QED BY <1>5, <2>2
<1>7. Does(Call("sub", d, x, y, carry), Set(d, xn, "-", yn, k), f, l, base)
  <2>1. PICK minus \in BOOLEAN : minus = TRUE
    OBVIOUS
  <2>2. AddOrSub("sub", "-", minus)
    BY <2>1 DEF AddOrSub
  <2> QED BY <1>5, <2>2
<1> QED BY <1>6, <1>7

(* x exchanged with d.                                                     *)
LEMMA ExchDoes ==
  ASSUME NEW f \in Nat, NEW l \in Digits, NEW base \in Bases, r \in RegisterFiles(base),
         NEW d \in Regs, NEW x \in Regs, d # x
  PROVE  Does(exch(d, x), Swap(d, x), f, l, base)
<1> DEFINE R1 == Execute(exch(d, x), r, f, l, base).regs
           zd == reg_copy(r[d], r[x], f, l)
           zx == reg_copy(r[x], r[d], f, l)
           s == Swap(d, x)
           m == Meaning(s, r, f, l, base)
<1>1. r \in [Regs -> Registers(base)] /\ r[d] \in Registers(base) /\ r[x] \in Registers(base)
  BY InFile DEF RegisterFiles
<1>2. /\ zd \in Registers(base) /\ \A i \in Digits : i \notin f..l => zd[i] = r[d][i]
      /\ zx \in Registers(base) /\ \A i \in Digits : i \notin f..l => zx[i] = r[x][i]
  BY <1>1 DEF reg_copy, Registers
<1>3. Number(zd, f, l, base) = Number(r[x], f, l, base)
  <2>1. \A i \in f..l : zd[i] = r[x][i]
    BY DigitsOfField DEF reg_copy
  <2>2. IntegersIn(r[x], f, l)
    BY <1>1, RegistersHold
  <2> HIDE DEF zd
  <2> QED BY <2>1, <2>2, NumberOfSameDigits
<1>4. Number(zx, f, l, base) = Number(r[d], f, l, base)
  <2>1. \A i \in f..l : zx[i] = r[d][i]
    BY DigitsOfField DEF reg_copy
  <2>2. IntegersIn(r[d], f, l)
    BY <1>1, RegistersHold
  <2> HIDE DEF zx
  <2> QED BY <2>1, <2>2, NumberOfSameDigits
<1>5. R1 = [[r EXCEPT ![d] = zd] EXCEPT ![x] = zx] /\ Execute(exch(d, x), r, f, l, base).carry = FALSE
  <2>1. DOMAIN r = Regs
    BY <1>1
  <2>2. Exchanges(Execute(exch(d, x), r, f, l, base), r, d, x, zd, zx)
    BY <2>1, ExecutedExchange
  <2> HIDE DEF zd, zx
  <2> QED BY <2>2 DEF Exchanges
<1>6. R1[d] = zd /\ R1[x] = zx /\ \A y \in Regs : y # d /\ y # x => R1[y] = r[y]
  <2> HIDE DEF zd, zx, R1
  <2> QED BY <1>1, <1>2, <1>5
<1>7. R1 \in RegisterFiles(base)
  <2> HIDE DEF zd, zx, R1
  <2> QED BY <1>1, <1>2, <1>5 DEF RegisterFiles
<1>8. m.d = Number(r[x], f, l, base) /\ m.x = Number(r[d], f, l, base) /\ m.carry = FALSE
  <2>1. Value(x, r, f, l, base) = Number(r[x], f, l, base) /\ Value(d, r, f, l, base) = Number(r[d], f, l, base)
    BY RegisterValue
  <2>2. Swaps(m, Value(d, r, f, l, base), Value(x, r, f, l, base))
    BY MeaningOfSwap
  <2> HIDE DEF m
  <2> QED BY <2>1, <2>2 DEF Swaps
<1>9. s.stmt = "swap" /\ s.d = d /\ s.x = x /\ Written(s) = {d, x}
  BY DEF Swap, Written
<1> HIDE DEF R1, zd, zx, s, m
<1>10. \A y \in Regs : \A i \in Digits : y \notin Written(s) \/ i \notin f..l => R1[y][i] = r[y][i]
  BY <1>2, <1>6, <1>9
<1> QED BY <1>3, <1>4, <1>5, <1>6, <1>7, <1>8, <1>9, <1>10 DEF Does, R1, s, m

(* The tests *)
Branches(carry, holds) ==
  /\ carry \in BOOLEAN /\ holds \in BOOLEAN
  /\ machine.arch = "nut" => (carry <=> holds)
  /\ machine.arch # "nut" => (carry <=> ~holds)

(* A test does what it says if its carry is that of the family: on the Nut *)
(* when it holds, on the others when it does not.                          *)
LEMMA IfDoes ==
  ASSUME NEW call, NEW x, NEW rel, NEW y, NEW f, NEW l, NEW base, r \in RegisterFiles(base),
         Execute(call, r, f, l, base).regs = r,
         Branches(Execute(call, r, f, l, base).carry,
                  Holds(Value(x, r, f, l, base), rel, Value(y, r, f, l, base)))
  PROVE  Does(call, If(x, rel, y), f, l, base)
<1> DEFINE c == Execute(call, r, f, l, base).carry
           h == Holds(Value(x, r, f, l, base), rel, Value(y, r, f, l, base))
           s == If(x, rel, y)
<1>1. Meaning(s, r, f, l, base).carry = (h = (machine.arch = "nut"))
  BY MeaningOfIf
<1>2. c \in BOOLEAN /\ h \in BOOLEAN /\ (machine.arch = "nut" => (c <=> h)) /\ (machine.arch # "nut" => (c <=> ~h))
  BY DEF Branches
<1>3. s.stmt = "if"
  BY DEF If
<1> HIDE DEF c, h, s
<1>4. c = (h = (machine.arch = "nut"))
  BY <1>2
<1>5. c = Meaning(s, r, f, l, base).carry
  BY <1>1, <1>4
<1>6. Execute(call, r, f, l, base).carry = Meaning(s, r, f, l, base).carry
  BY <1>5 DEF c
<1>7. Does(call, s, f, l, base)
  BY <1>3, <1>6, TestDoes
<1> QED BY <1>7 DEF s

(* The tests of digits are tests of numbers.                               *)
LEMMA TestIs ==
  ASSUME NEW f \in Nat, NEW l \in Digits, NEW base \in Bases, NEW x \in Registers(base), NEW y \in Registers(base)
  PROVE  /\ reg_test_equal(x, y, f, l) <=> Number(x, f, l, base) = Number(y, f, l, base)
         /\ reg_test_nonequal(x, y, f, l) <=> Number(x, f, l, base) # Number(y, f, l, base)
<1>1. CASE Number(x, f, l, base) = Number(y, f, l, base)
  <2>1. \A i \in f..l : x[i] = y[i]
    BY <1>1, SameNumberSameDigits
  <2> QED BY <1>1, <2>1 DEF reg_test_equal, reg_test_nonequal
<1>2. CASE Number(x, f, l, base) # Number(y, f, l, base)
  <2>1. IntegersIn(y, f, l)
    BY RegistersHold
  <2>2. ~ \A i \in f..l : x[i] = y[i]
    BY <1>2, <2>1, NumberOfSameDigits
  <2> QED BY <1>2, <2>2 DEF reg_test_equal, reg_test_nonequal
<1> QED BY <1>1, <1>2

(* x # y on the Nut, x = y on the others.                                  *)
LEMMA NonequalDoes ==
  ASSUME NEW f \in Nat, NEW l \in Digits, NEW base \in Bases, r \in RegisterFiles(base), NEW x \in Regs,
         NEW y, NEW yn, Operand(y, yn)
  PROVE  /\ machine.arch = "nut" => Does(nonequal(x, y), If(x, "#", yn), f, l, base)
         /\ machine.arch # "nut" => Does(nonequal(x, y), If(x, "=", yn), f, l, base)
<1> DEFINE call == nonequal(x, y)
           c == Execute(call, r, f, l, base).carry
           vx == Value(x, r, f, l, base)
           vy == Value(yn, r, f, l, base)
<1>1. Operand(x, x)
  BY DEF Operand
<1>2. /\ Source(r, x) \in Registers(base) /\ vx = Number(Source(r, x), f, l, base)
      /\ Source(r, y) \in Registers(base) /\ vy = Number(Source(r, y), f, l, base)
  BY <1>1, OperandIs
<1>3. Execute(call, r, f, l, base).regs = r /\ c = reg_test_nonequal(Source(r, x), Source(r, y), f, l)
  BY ExecutedNonequal
<1>4. reg_test_nonequal(Source(r, x), Source(r, y), f, l) <=> vx # vy
  BY <1>2, TestIs
<1>5. c \in BOOLEAN
  BY <1>3 DEF reg_test_nonequal
<1> HIDE DEF c, vx, vy, call
<1>6. c <=> vx # vy
  BY <1>3, <1>4
<1>7. ASSUME machine.arch = "nut" PROVE Does(call, If(x, "#", yn), f, l, base)
  <2>1. Branches(c, Holds(vx, "#", vy))
    BY <1>5, <1>6, <1>7 DEF Branches, Holds
  <2> QED BY <1>3, <2>1, IfDoes DEF c, vx, vy
<1>8. ASSUME machine.arch # "nut" PROVE Does(call, If(x, "=", yn), f, l, base)
  <2>1. Branches(c, Holds(vx, "=", vy))
    BY <1>5, <1>6, <1>8 DEF Branches, Holds
  <2> QED BY <1>3, <2>1, IfDoes DEF c, vx, vy
<1> QED BY <1>7, <1>8 DEF call

(* x # 0, or x >= 1, on the others.                                        *)
LEMMA EqualDoes ==
  ASSUME NEW f \in Nat, NEW l \in Digits, NEW base \in Bases, r \in RegisterFiles(base), NEW x \in Regs,
         machine.arch # "nut"
  PROVE  /\ Does(equal(x), If(x, "#", "0"), f, l, base)
         /\ Does(equal(x), If(x, ">=", "1"), f, l, base)
<1> DEFINE call == equal(x)
           c == Execute(call, r, f, l, base).carry
           vx == Value(x, r, f, l, base)
<1>1. Operand(x, x)
  BY DEF Operand
<1>2. Source(r, x) \in Registers(base) /\ vx = Number(Source(r, x), f, l, base)
  BY <1>1, OperandIs
<1>3. Execute(call, r, f, l, base).regs = r /\ c = reg_test_equal(Source(r, x), NULL, f, l)
  BY ExecutedEqual
<1>4. NULL \in Registers(base) /\ Number(NULL, f, l, base) = 0
  BY NullIsZero
<1>5. reg_test_equal(Source(r, x), NULL, f, l) <=> vx = 0
  BY <1>2, <1>4, TestIs
<1>6. c \in BOOLEAN
  BY <1>3 DEF reg_test_equal
<1>7. vx \in Nat
  BY <1>2, FieldHolds
<1>8. Value("0", r, f, l, base) = 0 /\ Value("1", r, f, l, base) = 1
  BY DEF Value, Regs
<1> HIDE DEF c, vx, call
<1>9. c <=> vx = 0
  BY <1>3, <1>5
<1>10. Does(call, If(x, "#", "0"), f, l, base)
  <2>1. Branches(c, Holds(vx, "#", 0))
    BY <1>6, <1>9 DEF Branches, Holds
  <2>2. Branches(c, Holds(vx, "#", Value("0", r, f, l, base)))
    BY <1>8, <2>1
  <2> QED BY <1>3, <2>2, IfDoes DEF c, vx
<1>11. Does(call, If(x, ">=", "1"), f, l, base)
  <2>1. Holds(vx, ">=", 1) <=> ~(vx = 0)
    BY <1>7 DEF Holds
  <2>2. Holds(vx, ">=", 1) \in BOOLEAN
    BY <1>7 DEF Holds
  <2>3. Branches(c, Holds(vx, ">=", 1))
    BY <1>6, <1>9, <2>1, <2>2 DEF Branches
  <2>4. Branches(c, Holds(vx, ">=", Value("1", r, f, l, base)))
    BY <1>8, <2>3
  <2> QED BY <1>3, <2>4, IfDoes DEF c, vx
<1> QED BY <1>10, <1>11 DEF call

(* x < y on the Nut, x >= y on the others: the borrow of x - y.            *)
LEMMA CompareDoes ==
  ASSUME NEW f \in Nat, NEW l \in Digits, NEW base \in Bases, r \in RegisterFiles(base), NEW x \in Regs, NEW y \in Regs
  PROVE  /\ machine.arch = "nut" => Does(compare(x, y), If(x, "<", y), f, l, base)
         /\ machine.arch # "nut" => Does(compare(x, y), If(x, ">=", y), f, l, base)
<1> DEFINE call == compare(x, y)
           c == Execute(call, r, f, l, base).carry
           vx == Value(x, r, f, l, base)
           vy == Value(y, r, f, l, base)
           size == Size(f, l, base)
           a == reg_add_sub(TRUE, NULL, Source(r, x), Source(r, y), f, l, FALSE, base)
           nz == Number(a.dest, f, l, base)
<1>1. Operand(x, x) /\ Operand(y, y)
  BY DEF Operand
<1>2. /\ Source(r, x) \in Registers(base) /\ vx = Number(Source(r, x), f, l, base)
      /\ Source(r, y) \in Registers(base) /\ vy = Number(Source(r, y), f, l, base)
  BY <1>1, OperandIs
<1>3. Execute(call, r, f, l, base).regs = r /\ c = a.carry
  <2>1. Compares(Execute(call, r, f, l, base), r, a)
    BY ExecutedComparison
  <2> HIDE DEF a, call
  <2> QED BY <2>1 DEF Compares
<1>4. NULL \in Registers(base)
  BY NullIsZero
<1>5. PICK minus \in BOOLEAN : minus = TRUE
  OBVIOUS
<1>6. PICK in \in BOOLEAN : in = FALSE
  OBVIOUS
<1>7. Summed(reg_add_sub(minus, NULL, Source(r, x), Source(r, y), f, l, in, base),
             minus, NULL, Source(r, x), Source(r, y), f, l, in, base)
  BY <1>2, <1>4, NumberOfSum
<1>8. Summed(a, TRUE, NULL, Source(r, x), Source(r, y), f, l, FALSE, base)
  BY <1>5, <1>6, <1>7, Zenon
<1> HIDE DEF a
<1>9. a.dest \in Registers(base) /\ a.carry \in BOOLEAN
      /\ Balance(TRUE, nz, vx, vy, size, a.carry, FALSE)
  BY <1>2, <1>8 DEF Summed
<1>10. size \in Nat \ {0} /\ nz \in 0..(size - 1) /\ vx \in 0..(size - 1) /\ vy \in 0..(size - 1)
  BY <1>2, <1>9, SizeIsPositive, NumberIsSmaller
<1> HIDE DEF nz, size, vx, vy, c, call
<1>11. vx + size * One(c) = nz + vy + One(FALSE)
  BY <1>3, <1>9 DEF Balance
<1>12. c <=> vx < vy
  <2>1. CASE c = TRUE
    <3>1. One(c) = 1 /\ size * 1 = size
      BY <1>10, <2>1 DEF One
    <3>2. vx + size = nz + vy
      BY <1>10, <1>11, <3>1 DEF One
    <3>3. vx < vy
      BY <1>10, <3>2
    <3> QED BY <2>1, <3>3
  <2>2. CASE c = FALSE
    <3>1. One(c) = 0 /\ size * 0 = 0
      BY <1>10, <2>2 DEF One
    <3>2. vx = nz + vy
      BY <1>10, <1>11, <3>1 DEF One
    <3>3. ~(vx < vy)
      BY <1>10, <3>2
    <3> QED BY <2>2, <3>3
  <2> QED BY <1>3, <1>9, <2>1, <2>2
<1>13. c \in BOOLEAN
  BY <1>3, <1>9
<1>14. ASSUME machine.arch = "nut" PROVE Does(call, If(x, "<", y), f, l, base)
  <2>1. Holds(vx, "<", vy) \in BOOLEAN /\ (Holds(vx, "<", vy) <=> vx < vy)
    BY <1>10 DEF Holds
  <2>2. Branches(c, Holds(vx, "<", vy))
    BY <1>12, <1>13, <1>14, <2>1 DEF Branches
  <2> QED BY <1>3, <2>2, IfDoes DEF c, vx, vy
<1>15. ASSUME machine.arch # "nut" PROVE Does(call, If(x, ">=", y), f, l, base)
  <2>1. Holds(vx, ">=", vy) \in BOOLEAN /\ (Holds(vx, ">=", vy) <=> ~(vx < vy))
    BY <1>10 DEF Holds
  <2>2. Branches(c, Holds(vx, ">=", vy))
    BY <1>12, <1>13, <1>15, <2>1 DEF Branches
  <2> QED BY <1>3, <2>2, IfDoes DEF c, vx, vy
<1> QED BY <1>14, <1>15 DEF call

(* The sums and differences that the families have.                        *)
LEMMA SumsDo ==
  ASSUME NEW f \in Nat, NEW l \in Digits, NEW base \in Bases, r \in RegisterFiles(base), NEW d \in Regs,
         NEW x, NEW xn, Operand(x, xn), NEW y, NEW yn, Operand(y, yn)
  PROVE  /\ Does(add(d, x, y), Plus(d, xn, yn), f, l, base)
         /\ Does(sub(d, x, y), Minus(d, xn, yn), f, l, base)
         /\ Does(Call("add", d, x, y, TRUE), Set(d, xn, "+", yn, 1), f, l, base)
         /\ Does(dec(d, x, y), Set(d, xn, "-", yn, 1), f, l, base)
<1>1. PICK no \in BOOLEAN : no = FALSE
  OBVIOUS
<1>2. PICK yes \in BOOLEAN : yes = TRUE
  OBVIOUS
<1>3. 0 = One(no) /\ 1 = One(yes)
  BY <1>1, <1>2 DEF One
<1>4. /\ Does(Call("add", d, x, y, no), Set(d, xn, "+", yn, 0), f, l, base)
      /\ Does(Call("sub", d, x, y, no), Set(d, xn, "-", yn, 0), f, l, base)
  BY <1>3, SumDoes
<1>5. /\ Does(Call("add", d, x, y, yes), Set(d, xn, "+", yn, 1), f, l, base)
      /\ Does(Call("sub", d, x, y, yes), Set(d, xn, "-", yn, 1), f, l, base)
  BY <1>3, SumDoes
<1>6. /\ Does(Call("add", d, x, y, FALSE), Set(d, xn, "+", yn, 0), f, l, base)
      /\ Does(Call("sub", d, x, y, FALSE), Set(d, xn, "-", yn, 0), f, l, base)
  BY <1>1, <1>4, Zenon
<1>7. /\ Does(Call("add", d, x, y, TRUE), Set(d, xn, "+", yn, 1), f, l, base)
      /\ Does(Call("sub", d, x, y, TRUE), Set(d, xn, "-", yn, 1), f, l, base)
  BY <1>2, <1>5, Zenon
<1> QED BY <1>6, <1>7, Zenon DEF add, sub, dec, Plus, Minus

LEMMA AddDoes ==
  ASSUME NEW f \in Nat, NEW l \in Digits, NEW base \in Bases, r \in RegisterFiles(base),
         NEW d \in Regs, NEW x \in Regs, NEW y \in Regs
  PROVE  /\ Does(add(d, x, y), Plus(d, x, y), f, l, base)
         /\ Does(sub(d, x, y), Minus(d, x, y), f, l, base)
         /\ Does(sub(d, "NULL", y), Minus(d, "0", y), f, l, base)
         /\ Does(dec(d, "NULL", y), Set(d, "0", "-", y, 1), f, l, base)
<1>1. Operand(x, x) /\ Operand(y, y) /\ Operand("NULL", "0")
  BY DEF Operand
<1> QED BY <1>1, SumsDo

LEMMA IncDoes ==
  ASSUME NEW f \in Nat, NEW l \in Digits, NEW base \in Bases, r \in RegisterFiles(base), NEW d \in Regs
  PROVE  /\ Does(inc(d), Plus1(d), f, l, base)
         /\ Does(dec(d, d, "NULL"), Minus1(d), f, l, base)
<1>1. Operand(d, d) /\ Operand("NULL", "0")
  BY DEF Operand
<1>2. /\ Does(Call("add", d, d, "NULL", TRUE), Set(d, d, "+", "0", 1), f, l, base)
      /\ Does(dec(d, d, "NULL"), Set(d, d, "-", "0", 1), f, l, base)
  BY <1>1, SumsDo
<1> QED BY <1>2, Zenon DEF inc, Plus1, Minus1

LEMMA OperandsAre ==
  /\ "a" \in Regs /\ "b" \in Regs /\ "c" \in Regs
  /\ Operand("NULL", "0") /\ \A x \in Regs : Operand(x, x)
BY DEF Regs, Operand

(* The 32 instructions of the Nut.                                         *)
LEMMA NutDoes ==
  ASSUME NEW f \in Nat, NEW l \in Digits, NEW base \in Bases, r \in RegisterFiles(base), machine.arch = "nut"
  PROVE  \A op \in 1..32 : Does(nut_op_arith[op], nut_arith_info[op], f, l, base)
<1> DEFINE D(op) == Does(nut_op_arith[op], nut_arith_info[op], f, l, base)
<1>1. \A op \in {1, 2, 3} : D(op)
  BY ZeroDoes, OperandsAre DEF nut_op_arith, nut_arith_info
<1>2. \A op \in {4, 6, 8} : D(op)
  BY ExchDoes, OperandsAre DEF nut_op_arith, nut_arith_info
<1>3. \A op \in {5, 7, 9} : D(op)
  BY CopyDoes, OperandsAre DEF nut_op_arith, nut_arith_info
<1>4. \A op \in {10, 11, 13, 15, 16, 17, 19, 21, 22} : D(op)
  BY AddDoes, OperandsAre DEF nut_op_arith, nut_arith_info
<1>5. \A op \in {12, 14, 18, 20} : D(op)
  BY IncDoes, OperandsAre DEF nut_op_arith, nut_arith_info
<1>6. \A op \in {23, 24, 27, 28} : D(op)
  BY NonequalDoes, OperandsAre DEF nut_op_arith, nut_arith_info
<1>7. \A op \in {25, 26} : D(op)
  BY CompareDoes, OperandsAre DEF nut_op_arith, nut_arith_info
<1>8. \A op \in {29, 30, 31, 32} : D(op)
  BY RightDoes, LeftDoes, OperandsAre DEF nut_op_arith, nut_arith_info
<1> HIDE DEF D
<1>9. \A op \in 1..32 : D(op)
  BY <1>1, <1>2, <1>3, <1>4, <1>5, <1>6, <1>7, <1>8
<1> QED BY <1>9 DEF D
(* The 32 of the Classic.                                                  *)
LEMMA ClassicDoes ==
  ASSUME NEW f \in Nat, NEW l \in Digits, NEW base \in Bases, r \in RegisterFiles(base), machine.arch = "classic"
  PROVE  \A op \in 1..32 : Does(classic_op_arith[op], classic_assembled[op], f, l, base)
<1> DEFINE D(op) == Does(classic_op_arith[op], classic_assembled[op], f, l, base)
<1>0. machine.arch # "nut"
  OBVIOUS
<1>1. \A op \in {2, 7, 24} : D(op)
  BY ZeroDoes, OperandsAre DEF classic_op_arith, classic_assembled
<1>2. \A op \in {18, 26, 30} : D(op)
  BY ExchDoes, OperandsAre DEF classic_op_arith, classic_assembled
<1>3. \A op \in {5, 10, 13} : D(op)
  BY CopyDoes, OperandsAre DEF classic_op_arith, classic_assembled
<1>4. \A op \in {6, 8, 11, 15, 22, 25, 27, 29, 31} : D(op)
  BY AddDoes, OperandsAre DEF classic_op_arith, classic_assembled
<1>5. \A op \in {12, 16, 28, 32} : D(op)
  BY IncDoes, OperandsAre DEF classic_op_arith, classic_assembled
<1>6. \A op \in {1, 14} : D(op)
  BY <1>0, NonequalDoes, OperandsAre DEF classic_op_arith, classic_assembled
<1>7. \A op \in {4, 20} : D(op)
  BY <1>0, EqualDoes, OperandsAre DEF classic_op_arith, classic_assembled
<1>8. \A op \in {3, 17} : D(op)
  BY <1>0, CompareDoes, OperandsAre DEF classic_op_arith, classic_assembled
<1>9. \A op \in {9, 19, 21, 23} : D(op)
  BY RightDoes, LeftDoes, OperandsAre DEF classic_op_arith, classic_assembled
<1> HIDE DEF D
<1>10. \A op \in 1..32 : D(op)
  BY <1>1, <1>2, <1>3, <1>4, <1>5, <1>6, <1>7, <1>8, <1>9
<1> QED BY <1>10 DEF D

(* The 32 of the Woodstock.                                                *)
LEMMA WoodstockDoes ==
  ASSUME NEW f \in Nat, NEW l \in Digits, NEW base \in Bases, r \in RegisterFiles(base), machine.arch = "woodstock"
  PROVE  \A op \in 1..32 : Does(woodstock_op_arith[op], woodstock_arith_info[op], f, l, base)
<1> DEFINE D(op) == Does(woodstock_op_arith[op], woodstock_arith_info[op], f, l, base)
<1>0. machine.arch # "nut"
  OBVIOUS
<1>1. \A op \in {1, 2, 9} : D(op)
  BY ZeroDoes, OperandsAre DEF woodstock_op_arith, woodstock_arith_info
<1>2. \A op \in {3, 5, 8} : D(op)
  BY ExchDoes, OperandsAre DEF woodstock_op_arith, woodstock_arith_info
<1>3. \A op \in {4, 6, 7} : D(op)
  BY CopyDoes, OperandsAre DEF woodstock_op_arith, woodstock_arith_info
<1>4. \A op \in {10, 11, 12, 13, 17, 18, 21, 22, 29} : D(op)
  BY AddDoes, OperandsAre DEF woodstock_op_arith, woodstock_arith_info
<1>5. \A op \in {14, 16, 19, 20} : D(op)
  BY IncDoes, OperandsAre DEF woodstock_op_arith, woodstock_arith_info
<1>6. \A op \in {23, 24} : D(op)
  BY <1>0, NonequalDoes, OperandsAre DEF woodstock_op_arith, woodstock_arith_info
<1>7. \A op \in {27, 28} : D(op)
  BY <1>0, EqualDoes, OperandsAre DEF woodstock_op_arith, woodstock_arith_info
<1>8. \A op \in {25, 26} : D(op)
  BY <1>0, CompareDoes, OperandsAre DEF woodstock_op_arith, woodstock_arith_info
<1>9. \A op \in {15, 30, 31, 32} : D(op)
  BY RightDoes, LeftDoes, OperandsAre DEF woodstock_op_arith, woodstock_arith_info
<1> HIDE DEF D
<1>10. \A op \in 1..32 : D(op)
  BY <1>1, <1>2, <1>3, <1>4, <1>5, <1>6, <1>7, <1>8, <1>9
<1> QED BY <1>10 DEF D

-----------------------------------------------------------------------------
IsField(field) == field[1] \in Nat /\ field[2] \in Digits

(* Every field of an instruction begins at a digit or above the register,  *)
(* and ends at a digit.                                                    *)
LEMMA Places ==
  /\ 0 \in Digits /\ WSIZE - 1 \in Digits /\ WSIZE - 2 \in Digits
  /\ EXPSIZE \in Nat /\ EXPSIZE - 1 \in Nat /\ EXPSIZE - 1 \in Digits
  /\ 0 \in Nat /\ WSIZE - 1 \in Nat
  /\ \A p \in Digits : p \in Nat
  /\ \A p \in 0..WSIZE : p \in Nat /\ (p < WSIZE => p \in Digits)
BY DigitAssumption, FieldAssumption DEF Digits

LEMMA NutFields ==
  ASSUME NEW field \in Fields["nut"]
  PROVE  IsField(field)
<1>1. PICK p \in Digits, q \in Digits : field \in SeqRange(nut_field(p, q))
  BY DEF Fields
<1>2. DOMAIN nut_field(p, q) = 1..8
  BY DEF nut_field
<1>3. PICK i \in 1..8 : field = nut_field(p, q)[i]
  BY <1>1, <1>2 DEF SeqRange
<1> QED BY <1>3, Places DEF nut_field, IsField

LEMMA PointerFields ==
  ASSUME NEW p \in 0..WSIZE
  PROVE  IsField(AtP(p)) /\ IsField(UpToP(p))
BY Places DEF AtP, UpToP, IsField

LEMMA ClassicFields ==
  ASSUME NEW field \in Fields["classic"]
  PROVE  IsField(field)
<1>1. PICK p \in 0..WSIZE : field \in SeqRange(classic_field(p))
  BY DEF Fields
<1>2. DOMAIN classic_field(p) = 1..8
  BY DEF classic_field
<1>3. PICK i \in 1..8 : field = classic_field(p)[i]
  BY <1>1, <1>2 DEF SeqRange
<1> QED BY <1>3, Places, PointerFields DEF classic_field, IsField

LEMMA WoodstockFields ==
  ASSUME NEW field \in Fields["woodstock"]
  PROVE  IsField(field)
<1>1. PICK p \in 0..WSIZE : field \in SeqRange(woodstock_field(p))
  BY DEF Fields
<1>2. DOMAIN woodstock_field(p) = 1..8
  BY DEF woodstock_field
<1>3. PICK i \in 1..8 : field = woodstock_field(p)[i]
  BY <1>1, <1>2 DEF SeqRange
<1> QED BY <1>3, Places, PointerFields DEF woodstock_field, IsField

(* So does every instruction of every family, on every field.              *)
LEMMA EveryInstructionDoes ==
  ASSUME machine.arch \in {"nut", "classic", "woodstock"}, NEW base \in Bases, r \in RegisterFiles(base),
         NEW op \in 1..32, NEW field \in Fields[machine.arch]
  PROVE  Does(op_arith[machine.arch][op], Says[machine.arch][op], field[1], field[2], base)
<1>1. CASE machine.arch = "nut"
  <2>1. field[1] \in Nat /\ field[2] \in Digits
    BY <1>1, NutFields DEF IsField
  <2> QED BY <1>1, <2>1, NutDoes DEF op_arith, Says
<1>2. CASE machine.arch = "classic"
  <2>1. field[1] \in Nat /\ field[2] \in Digits
    BY <1>2, ClassicFields DEF IsField
  <2> QED BY <1>2, <2>1, ClassicDoes DEF op_arith, Says
<1>3. CASE machine.arch = "woodstock"
  <2>1. field[1] \in Nat /\ field[2] \in Digits
    BY <1>3, WoodstockFields DEF IsField
  <2> QED BY <1>3, <2>1, WoodstockDoes DEF op_arith, Says
<1> QED BY <1>1, <1>2, <1>3

-----------------------------------------------------------------------------
(* The inductive invariant: the machine is one of the machines, and its    *)
(* registers hold digits of its base.                                      *)
AInv ==
  /\ machine \in Machines
  /\ r \in RegisterFiles(arithmetic_base(machine.decimal))

(* What is known of a machine.                                             *)
LEMMA MachineIs ==
  ASSUME machine \in Machines
  PROVE  machine.arch \in {"nut", "classic", "woodstock"} /\ arithmetic_base(machine.decimal) \in Bases
BY MachineAssumption DEF arithmetic_base, Bases

(* The invariant holds of a reset register file, is kept by every          *)
(* instruction, and says it.                                               *)
LEMMA AInitInv == AInit => AInv
<1> SUFFICES ASSUME AInit PROVE AInv
  OBVIOUS
<1> DEFINE base == arithmetic_base(machine.decimal)
<1>1. machine \in Machines /\ r = [x \in Regs |-> NULL]
  BY DEF AInit
<1>2. base \in Bases
  BY <1>1, MachineIs
<1>3. NULL \in Registers(base)
  <2> HIDE DEF base
  <2>1. base - 1 \in Nat
    BY <1>2, BaseIsPositive
  <2> QED BY <2>1 DEF NULL, Registers
<1> HIDE DEF base
<1> QED BY <1>1, <1>3 DEF AInv, RegisterFiles, base

LEMMA ANextInv == AInv /\ [ANext]_avars => AInv'
<1> SUFFICES ASSUME AInv, [ANext]_avars PROVE AInv'
  OBVIOUS
<1>1. machine \in Machines /\ r \in RegisterFiles(arithmetic_base(machine.decimal))
  BY DEF AInv
<1>2. machine.arch \in {"nut", "classic", "woodstock"} /\ arithmetic_base(machine.decimal) \in Bases
  BY <1>1, MachineIs
<1>3. ASSUME NEW op \in 1..32, NEW field \in Fields[machine.arch], Instruction(op, field)
      PROVE  AInv'
  <2> DEFINE base == arithmetic_base(machine.decimal)
             done == Execute(op_arith[machine.arch][op], r, field[1], field[2], base)
  <2>1. Does(op_arith[machine.arch][op], Says[machine.arch][op], field[1], field[2], base)
    BY <1>1, <1>2, EveryInstructionDoes
  <2>2. r' = done.regs /\ machine' = machine
    BY <1>3 DEF Instruction
  <2>3. done.regs \in RegisterFiles(base)
    BY <2>1 DEF Does
  <2>4. machine' \in Machines
    BY <1>1, <2>2
  <2>5. arithmetic_base(machine'.decimal) = base
    BY <2>2
  <2>6. r' \in RegisterFiles(arithmetic_base(machine'.decimal))
    <3> HIDE DEF done, base
    <3> QED BY <2>2, <2>3, <2>5
  <2>7. RegisterFiles(arithmetic_base(machine'.decimal)) = RegisterFiles(arithmetic_base(machine.decimal))'
    BY DEF RegisterFiles, Registers, arithmetic_base
  <2> QED BY <2>4, <2>6, <2>7 DEF AInv
<1>4. CASE UNCHANGED avars
  BY <1>4, <1>1 DEF AInv, avars, RegisterFiles, Registers, arithmetic_base
<1> QED BY <1>3, <1>4 DEF ANext

LEMMA AInvSays == AInv => DoesWhatItSays
<1> SUFFICES ASSUME AInv, NEW op \in 1..32, NEW field \in Fields[machine.arch]
             PROVE  Does(op_arith[machine.arch][op], Says[machine.arch][op], field[1], field[2],
                         arithmetic_base(machine.decimal))
  BY ZenonT(30) DEF DoesWhatItSays, Does
<1>1. machine \in Machines /\ r \in RegisterFiles(arithmetic_base(machine.decimal))
  BY DEF AInv
<1> QED BY <1>1, MachineIs, EveryInstructionDoes

(* Every arithmetic instruction of the Nut, the Classic and the Woodstock  *)
(* does what its name in the assembler and the disassembler says, in every *)
(* field, after any program, for a register of any length and digits of    *)
(* any base.                                                               *)
THEOREM DoesWhatItSaysCorrect == ASpec => []DoesWhatItSays
<1>1. AInit => AInv
  BY AInitInv
<1>2. AInv /\ [ANext]_avars => AInv'
  BY ANextInv
<1>3. AInv => DoesWhatItSays
  BY AInvSays
<1> QED BY <1>1, <1>2, <1>3, PTL DEF ASpec
=============================================================================
