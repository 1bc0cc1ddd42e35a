--------------------------- MODULE DigitProcessor ---------------------------
(***************************************************************************)
(* What the two processors that scan a display have in common: the         *)
(* arithmetic on their registers, and the positions of the display         *)
(* (sim->display_segments), which they fill from left to right.            *)
(***************************************************************************)
EXTENDS DigitOps, Sequences, TLC

CONSTANTS EXPSIZE,            \* 3
          MAX_DIGIT_POSITION  \* 15: positions of the display

ASSUME DigitProcessorAssumption ==
  EXPSIZE \in 1..(WSIZE - 2) /\ MAX_DIGIT_POSITION \in Nat \ {0}

Arith == INSTANCE Arithmetic
           WITH machine <- [arch |-> "classic", decimal |-> TRUE, uses |-> {}], r <- [x \in {} |-> NULL], Machines <- {}

(* g, where f has no value of its own *)
Over(f, g) == [x \in DOMAIN g |-> IF x \in DOMAIN f THEN f[x] ELSE g[x]]

(* What is shown besides digits *)
Blank == HEX
Minus == HEX + 1
Point == HEX + 2
Comma == HEX + 3

FrameOf(x) == [p \in 0..(MAX_DIGIT_POSITION - 1) |-> x]
Put(segs, at, x) == IF at < MAX_DIGIT_POSITION THEN [segs EXCEPT ![at] = x] ELSE segs
=============================================================================
