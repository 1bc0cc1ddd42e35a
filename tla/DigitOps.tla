------------------------------ MODULE DigitOps ------------------------------
(***************************************************************************)
(* The arithmetic on registers of digits that the processors share         *)
(* (digit_ops.c).  A register is a function on its digits, 0 the least     *)
(* significant one; an operation works on the field from first to last,    *)
(* which is empty if first is the larger one.                              *)
(***************************************************************************)
EXTENDS Integers

CONSTANTS WSIZE,    \* 14: digits of a register
          HEX,      \* 16: values of a digit
          DEC       \* 10: values of a decimal digit

ASSUME DigitAssumption ==
  WSIZE \in Nat /\ WSIZE > 2 /\ HEX \in Nat /\ DEC \in Nat /\ 1 < DEC /\ DEC < HEX

Digits == 0..(WSIZE - 1)
Digit == 0..(HEX - 1)
NULL == [i \in Digits |-> 0]         \* a NULL source is taken for zeros

reg_zero(dest, first, last) == [i \in Digits |-> IF i \in first..last THEN 0 ELSE dest[i]]

reg_copy(dest, src, first, last) == [i \in Digits |-> IF i \in first..last THEN src[i] ELSE dest[i]]

(* One digit.  The carry is turned into a borrow and back for a            *)
(* difference, and a decimal digit is corrected.                           *)
digit_add_sub_CarryOfHex(sub, x, y, carry, base) ==     \* mutant: a decimal sum is corrected above 15 only
  LET s == x + (IF sub THEN HEX - 1 - y ELSE y) + (IF carry # sub THEN 1 ELSE 0)
      over == s > HEX - 1
      correction == IF base = DEC /\ over = sub THEN 0 ELSE IF base = DEC THEN DEC ELSE 0
  IN  [digit |-> (s + correction) % HEX, carry |-> over # sub]

digit_add_sub(sub, x, y, carry, base) ==
  LET s == x + (IF sub THEN HEX - 1 - y ELSE y) + (IF carry # sub THEN 1 ELSE 0)
      over == s > HEX - 1 \/ (base = DEC /\ ~sub /\ s > DEC - 1)
      correction == CASE base = DEC /\ sub /\ ~over -> DEC
                      [] base = DEC /\ ~sub /\ over -> HEX - DEC
                      [] OTHER                      -> 0
  IN  [digit |-> (s + correction) % HEX, carry |-> over # sub]

(* reg_add and reg_sub: the digits of the field with the carry of each,    *)
(* and what they leave in dest.                                            *)
Ripple(sub, x, y, first, last, carry, base) ==
  LET d[i \in first..last] ==
        digit_add_sub(sub, x[i], y[i], IF i = first THEN carry ELSE d[i - 1].carry, base)
  IN  d

reg_add_sub(sub, dest, x, y, first, last, carry, base) ==
  LET d == Ripple(sub, x, y, first, last, carry, base)
  IN  [dest  |-> [i \in Digits |-> IF i \in first..last THEN d[i].digit ELSE dest[i]],
       carry |-> IF first > last THEN carry ELSE d[last].carry]

reg_test_equal(x, y, first, last) == \A i \in first..last : x[i] = y[i]
reg_test_nonequal(x, y, first, last) == \E i \in first..last : x[i] # y[i]

reg_shift_right(reg, first, last) ==
  [i \in Digits |-> IF i \notin first..last THEN reg[i] ELSE IF i = last THEN 0 ELSE reg[i + 1]]

reg_shift_left(reg, first, last) ==
  [i \in Digits |-> IF i \notin first..last THEN reg[i] ELSE IF i = first THEN 0 ELSE reg[i - 1]]
=============================================================================
