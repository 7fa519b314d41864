------------------------------- MODULE AmmV2 -------------------------------
(***************************************************************************)
(* Quoting a constant product pool: SwapV2Into of internal/amm/v2.go, and  *)
(* the orientation of a pool in internal/dex/pool.go.  An error and an     *)
(* output of zero are both 0: every caller treats them alike.              *)
(*                                                                         *)
(* A pool is a record: its address, its two tokens, their reserves and its *)
(* fee.  A reserve of 0 also stands for one that was never loaded.         *)
(***************************************************************************)
EXTENDS Integers

CONSTANT Bps  \* bpsDenominator, 10000 in the code

SwapV2(in, reserveIn, reserveOut, fee) ==
  IF in <= 0 \/ fee >= Bps \/ reserveIn <= 0 \/ reserveOut <= 0
    THEN 0
    ELSE LET inAfterFee == in * (Bps - fee)
         IN  (inAfterFee * reserveOut) \div (reserveIn * Bps + inAfterFee)

\* AmountOutInto: tokenIn decides the direction, and must be one of the pool's two.
AmountOutV2(p, tokenIn, in) ==
  CASE tokenIn = p.t0 -> SwapV2(in, p.r0, p.r1, p.fee)
    [] tokenIn # p.t0 /\ tokenIn = p.t1 -> SwapV2(in, p.r1, p.r0, p.fee)
    [] OTHER -> 0
=============================================================================
