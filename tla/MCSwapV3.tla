------------------------------ MODULE MCSwapV3 ------------------------------
(***************************************************************************)
(* Model checking SwapV3 over simulated pools and over pools as a chain    *)
(* may have them: a price between two ticks or just come down to one,      *)
(* liquidity that grows away from the price, a gap without any.            *)
(***************************************************************************)
EXTENDS SwapV3

CONSTANTS One, Low, Fees, MaxTick

\* sqrt(2^-0.3) per tick rather than sqrt(1.0001^-1): the window spans a factor of 2.
MCFactors == <<29491, 26542, 21499>>

TM == INSTANCE TickMath WITH Factors <- MCFactors

MCRatio(tick) == TM!GetSqrtRatioAtTick(tick)

Sim == INSTANCE SimPools WITH Ratio <- MCRatio, MinTick <- -MaxTick,
                              Spacing <- 2, Steps <- 2, Stride <- 1

SimV3 == {Sim!FillV3(raw, y, f) : raw \in {-9, -3, 0, 5}, y \in {8, 20}, f \in Fees}

Tick(i, n) == [index |-> i, net |-> n]

ChainV3 ==
  {[price |-> p[1], tick |-> p[2], liquidity |-> 12, fee |-> f,
    ticks |-> Sim!PrepareTicks(w)] :
     p \in {<<MCRatio(1) + 2, 1>>, <<MCRatio(0) + 1, 0>>, <<MCRatio(0), -1>>},
     w \in {<<Tick(-4, 5), Tick(-1, -6), Tick(2, 9), Tick(4, -21)>>,
            <<Tick(3, -12), Tick(0, 2), Tick(-2, 10), Tick(4, 15), Tick(6, -15)>>,
            <<Tick(-3, 12)>>, <<>>},
     f \in Fees}

MCPools == SimV3 \cup ChainV3
=============================================================================
