------------------------------ MODULE FixedPoint ------------------------------
(***************************************************************************)
(* The fixed-point numbers of include/pg/math.h, with One for Q16_ONE: a   *)
(* coarser fixed point rounds more and hides nothing of the shapes.        *)
(***************************************************************************)
EXTENDS Integers

CONSTANT One  \* Q16_ONE

ASSUME OneAssumption == One \in Nat \ {0}

Milli(n) == (n * One) \div 1000   \* FLOAT_TO_Q16 of n thousandths
Mul(a, b) == (a * b) \div One     \* the shift of q16_mul() rounds down ...
\* ... and the division of q16_div() towards zero; no divisor in use is 0 or below.
Div(a, b) == IF a >= 0 THEN (a * One) \div b ELSE -((-a * One) \div b)
Clamp(v, lo, hi) == IF v < lo THEN lo ELSE IF v > hi THEN hi ELSE v
Abs(v) == IF v < 0 THEN -v ELSE v
Lerp(from, to, v) == from + Mul(to - from, v)
=============================================================================
