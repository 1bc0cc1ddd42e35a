---------------------------- MODULE IntegerLemmas ----------------------------
(***************************************************************************)
(* What the other proofs need of the integers: induction over a range, the *)
(* value of a function that is defined by recursion over one, and division *)
(* with remainder.                                                         *)
(***************************************************************************)
EXTENDS Integers, WellFoundedInduction, TLAPS

-----------------------------------------------------------------------------
(* Induction over a range of integers, for a set, from the well-founded    *)
(* order of the natural numbers.                                           *)
LEMMA LeastElement ==
  ASSUME NEW T, T \subseteq Nat, T # {}
  PROVE  \E n \in T : \A m \in T : n <= m
<1> DEFINE R == OpToRel(<, Nat)
<1>1. IsWellFoundedOn(R, Nat)
  BY NatLessThanWellFounded
<1> HIDE DEF R
<1>2. PICK n \in T : \A m \in T : ~(<<m, n>> \in R)
  BY <1>1, WFMin
<1>3. \A m \in T : ~(m < n)
  BY <1>2 DEF R, OpToRel
<1> QED BY <1>3

(* A set that has a and, with every i below b, also i + 1, has all from a  *)
(* to b.                                                                   *)
LEMMA Upwards ==
  ASSUME NEW f \in Int, NEW t \in Int, f <= t, NEW S, f \in S,
         \A i \in f..(t - 1) : i \in S => i + 1 \in S
  PROVE  \A i \in f..t : i \in S
<1> DEFINE T == {k \in Nat : k <= t - f /\ f + k \notin S}
<1> SUFFICES ASSUME T # {} PROVE FALSE
  <2>1. ASSUME NEW i \in f..t, i \notin S PROVE FALSE
    <3>1. i - f \in Nat /\ i - f <= t - f /\ f + (i - f) = i
      OBVIOUS
    <3>2. i - f \in T
      BY <3>1, <2>1
    <3> QED BY <3>2
  <2> QED BY <2>1
<1>1. T \subseteq Nat
  OBVIOUS
<1> HIDE DEF T
<1>2. PICK n \in T : \A m \in T : n <= m
  BY <1>1, LeastElement
<1>3. n \in Nat /\ n <= t - f /\ f + n \notin S
  BY <1>2 DEF T
<1>4. n # 0
  BY <1>3
<1>5. n - 1 \in Nat /\ n - 1 <= t - f /\ n - 1 \notin T
  BY <1>2, <1>3, <1>4
<1>6. f + (n - 1) \in S
  BY <1>5 DEF T
<1>7. f + (n - 1) \in f..(t - 1) /\ (f + (n - 1)) + 1 = f + n
  BY <1>3, <1>5
<1>8. f + n \in S
  BY <1>6, <1>7
<1> QED BY <1>3, <1>8

(* The same from b down to a.                                              *)
LEMMA Downwards ==
  ASSUME NEW f \in Int, NEW t \in Int, f <= t, NEW S, t \in S,
         \A i \in f..(t - 1) : i + 1 \in S => i \in S
  PROVE  \A i \in f..t : i \in S
<1> DEFINE S2 == {i \in f..t : (f + t) - i \in S}
<1>1. f \in S2
  OBVIOUS
<1>2. ASSUME NEW i \in f..(t - 1), i \in S2 PROVE i + 1 \in S2
  <2>1. (f + t) - (i + 1) \in f..(t - 1) /\ ((f + t) - (i + 1)) + 1 = (f + t) - i
    OBVIOUS
  <2>2. (f + t) - i \in S
    BY <1>2
  <2>3. (f + t) - (i + 1) \in S
    BY <2>1, <2>2
  <2>4. i + 1 \in f..t
    OBVIOUS
  <2> QED BY <2>3, <2>4
<1> HIDE DEF S2
<1>3. \A i \in f..t : i \in S2
  BY <1>1, <1>2, Upwards
<1>4. ASSUME NEW i \in f..t PROVE i \in S
  <2>1. (f + t) - i \in f..t /\ (f + t) - ((f + t) - i) = i
    OBVIOUS
  <2>2. (f + t) - i \in S2
    BY <1>3, <2>1
  <2> QED BY <2>1, <2>2 DEF S2
<1> QED BY <1>4

(* What a recursive definition needs: a function with a given first value  *)
(* and a given step.                                                       *)
ByRecursion(g, f, t, V, a, Step) ==
  g \in [f..t -> V] /\ g[f] = a /\ \A i \in f..t : i # f => g[i] = Step[i][g[i - 1]]

LEMMA FunctionByRecursion ==
  ASSUME NEW V, NEW f \in Int, NEW t \in Int, f <= t, NEW a \in V, NEW Step \in [f..t -> [V -> V]]
  PROVE  \E g : ByRecursion(g, f, t, V, a, Step)
<1> DEFINE Good(g, k) == g \in [f..t -> V] /\ g[f] = a /\ \A i \in f..t : i # f /\ i <= k => g[i] = Step[i][g[i - 1]]
           S == {k \in f..t : \E g \in [f..t -> V] : Good(g, k)}
<1>1. f \in S
  <2>1. [i \in f..t |-> a] \in [f..t -> V]
    OBVIOUS
  <2>2. Good([i \in f..t |-> a], f)
    OBVIOUS
  <2> QED BY <2>1, <2>2
<1>2. ASSUME NEW k \in f..(t - 1), k \in S PROVE k + 1 \in S
  <2>1. PICK g \in [f..t -> V] : Good(g, k)
    BY <1>2
  <2> DEFINE h == [i \in f..t |-> IF i = k + 1 THEN Step[k + 1][g[k]] ELSE g[i]]
  <2>2. k \in f..t /\ k + 1 \in f..t /\ k + 1 # f /\ k # k + 1
    OBVIOUS
  <2>3. Step[k + 1][g[k]] \in V
    BY <2>2
  <2>4. h \in [f..t -> V]
    BY <2>3
  <2>5. h[f] = a
    BY <2>1, <2>2
  <2>6. ASSUME NEW i \in f..t, i # f, i <= k + 1 PROVE h[i] = Step[i][h[i - 1]]
    <3>1. CASE i = k + 1
      <4>1. i - 1 = k /\ h[k] = g[k]
        BY <3>1, <2>2
      <4> QED BY <3>1, <4>1
    <3>2. CASE i # k + 1
      <4>1. i - 1 \in f..t /\ i - 1 # k + 1 /\ i <= k
        BY <3>2, <2>6
      <4>2. h[i - 1] = g[i - 1] /\ h[i] = g[i]
        BY <4>1, <3>2
      <4>3. g[i] = Step[i][g[i - 1]]
        BY <4>1, <2>1, <2>6
      <4> QED BY <4>2, <4>3
    <3> QED BY <3>1, <3>2
  <2> HIDE DEF h
  <2>7. Good(h, k + 1)
    BY <2>4, <2>5, <2>6
  <2> QED BY <2>2, <2>4, <2>7
<1> HIDE DEF S
<1>3. t \in S
  <2>1. t \in f..t
    OBVIOUS
  <2>2. \A i \in f..t : i \in S
    BY <1>1, <1>2, Upwards
  <2> QED BY <2>1, <2>2
<1>4. PICK g \in [f..t -> V] : Good(g, t)
  BY <1>3 DEF S
<1>5. \A i \in f..t : i <= t
  OBVIOUS
<1>6. ByRecursion(g, f, t, V, a, Step)
  BY <1>4, <1>5 DEF ByRecursion
<1> QED BY <1>6

-----------------------------------------------------------------------------
(* Division *)
LEMMA DivMod ==
  ASSUME NEW x \in Int, NEW B \in Nat \ {0}
  PROVE  /\ x = (x \div B) * B + (x % B) /\ x \div B \in Int /\ x % B \in 0..(B - 1)
OBVIOUS

(* Numbers of different blocks of B are ordered as the blocks are.         *)
LEMMA LessByBlocks ==
  ASSUME NEW p \in Int, NEW q \in Int, NEW B \in Nat \ {0}, p < q
  PROVE  p * B + B <= q * B
<1>1. q - p - 1 \in Nat
  OBVIOUS
<1>2. (q - p - 1) * B >= 0
  BY <1>1
<1>3. (q - p - 1) * B = q * B - p * B - B
  OBVIOUS
<1>4. p * B \in Int /\ q * B \in Int
  OBVIOUS
<1> QED BY <1>2, <1>3, <1>4

(* Quotient and remainder are the only numbers that put a number together. *)
LEMMA DivModUnique ==
  ASSUME NEW p \in Int, NEW B \in Nat \ {0}, NEW rest \in 0..(B - 1)
  PROVE  (p * B + rest) \div B = p /\ (p * B + rest) % B = rest
<1> DEFINE x == p * B + rest
           q == x \div B
           m == x % B
<1>1. x \in Int
  OBVIOUS
<1>2. x = q * B + m /\ q \in Int /\ m \in 0..(B - 1)
  BY <1>1, DivMod
<1>3. x = p * B + rest /\ p * B \in Int /\ q * B \in Int
  BY <1>2
<1> HIDE DEF x, q, m
<1>4. ~(p < q)
  <2> SUFFICES ASSUME p < q PROVE FALSE
    OBVIOUS
  <2>1. p * B + B <= q * B
    BY <1>2, LessByBlocks
  <2> QED BY <1>2, <1>3, <2>1
<1>5. ~(q < p)
  <2> SUFFICES ASSUME q < p PROVE FALSE
    OBVIOUS
  <2>1. q * B + B <= p * B
    BY <1>2, LessByBlocks
  <2> QED BY <1>2, <1>3, <2>1
<1>6. p = q
  BY <1>2, <1>4, <1>5
<1>7. m = rest
  BY <1>2, <1>3, <1>6
<1> QED BY <1>6, <1>7 DEF x, q, m


Divided(v, p, B, rest) == p \in Int /\ B \in Nat \ {0} /\ rest \in 0..(B - 1) /\ v = p * B + rest

(* The same with the facts in one predicate.                               *)
LEMMA ModUnique ==
  ASSUME NEW v, NEW p, NEW B, NEW rest, Divided(v, p, B, rest)
  PROVE  v % B = rest
BY DivModUnique DEF Divided

(* A digit on top of a smaller number stays within one more block.         *)
LEMMA InBlocks ==
  ASSUME NEW N \in Nat \ {0}, NEW B \in Nat \ {0}, NEW p \in 0..(N - 1), NEW rest \in 0..(B - 1)
  PROVE  p * B + rest \in 0..(N * B - 1)
<1>1. p * B + B <= N * B
  BY LessByBlocks
<1>2. p * B >= 0 /\ p * B \in Int /\ N * B \in Int
  OBVIOUS
<1> QED BY <1>1, <1>2
==============================================================================
