------------------------------ MODULE TickMath ------------------------------
(***************************************************************************)
(* internal/amm/tickmath.go: the square root of the price at a tick, in    *)
(* fixed point, and the rounding divisions of the swap mathematics.  The   *)
(* widths are parameters: One is 2^128 in the code, and One \div Low, the  *)
(* scale of prices, is 2^96.                                               *)
(***************************************************************************)
EXTENDS Integers, Sequences, SequencesExt

CONSTANTS One,      \* 1.0 in the format of the table
          Low,      \* what that format has more than that of prices
          Factors   \* sqrtRatioFactors: the factor of bit k - 1 at place k

DivRoundingUp(a, b) == (a + b - 1) \div b

Bit(n, k) == (n \div 2^k) % 2 = 1

\* Tick out of range is left to the callers; the table holds negative powers, and a
\* positive tick takes the reciprocal.
GetSqrtRatioAtTick(tick) ==
  LET abs == IF tick < 0 THEN -tick ELSE tick
      product == FoldLeft(LAMBDA r, k : IF Bit(abs, k - 1) THEN (r * Factors[k]) \div One
                                                           ELSE r,
                          One, [k \in DOMAIN Factors |-> k])
      ratio == IF tick > 0 THEN (One * One - 1) \div product ELSE product
  IN  DivRoundingUp(ratio, Low)
=============================================================================
