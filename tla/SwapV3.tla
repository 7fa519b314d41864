------------------------------- MODULE SwapV3 -------------------------------
(***************************************************************************)
(* Quoting a concentrated liquidity pool: SwapV3Into of internal/amm/v3.go *)
(* with its Scratch (scratch.go).  The price walks from one initialised    *)
(* tick to the next, and one turn of the loop is a step: it uses up the    *)
(* input within the range, or crosses the tick, where the liquidity        *)
(* changes, and goes on.                                                   *)
(*                                                                         *)
(* The integers are those of the code, which are unbounded; the scale of   *)
(* prices (2^96), the scale of fees and the prices at ticks are            *)
(* parameters.  A quote leaves the pool alone.  The model may ask for a    *)
(* second one, the other way, of the pool as the trade would leave it.     *)
(***************************************************************************)
EXTENDS Integers, Sequences, FiniteSets

CONSTANTS Q,            \* q96, 2^96 in the code
          Bps,          \* bpsDenominator
          PipsPerBp,    \* pips in a basis point, 100 in the code
          Ratio(_),     \* GetSqrtRatioAtTick
          Pools,        \* the pools of a snapshot, their ticks prepared
          Inputs        \* bound: what a caller may sell

Pips == Bps * PipsPerBp

\* What a snapshot holds (snapshot.go:92-106, PrepareTicks): the price is that of the
\* tick, a little above it, or, when it has just come down to it, at the next one;
\* the ticks of the window are in order, and no index comes twice: windowTicks
\* (uniswapv3.go:238-260) and buildTicks step from one to the next.
WellFormed(p) ==
  /\ p \in [price : Nat \ {0}, liquidity : Nat \ {0}, tick : Int, fee : Nat,
             ticks : Seq([index : Int, net : Int])]
  /\ \A i, j \in DOMAIN p.ticks : i < j => p.ticks[i].index < p.ticks[j].index
  /\ \A i \in DOMAIN p.ticks :
       /\ p.ticks[i].index <= p.tick => Ratio(p.ticks[i].index) <= p.price
       /\ p.ticks[i].index > p.tick => p.price <= Ratio(p.ticks[i].index)

ASSUME SwapAssumption ==
  /\ Q \in Nat \ {0} /\ Bps \in Nat \ {0} /\ PipsPerBp \in Nat \ {0}
  /\ Inputs \subseteq Int
  /\ \A p \in Pools : WellFormed(p)

\* GetSqrtRatioAtTick grows with the tick, at every tick of a window.
ASSUME RatioAssumption ==
  \A p \in Pools : \A i, j \in DOMAIN p.ticks :
    /\ Ratio(p.ticks[i].index) \in Nat \ {0}
    /\ p.ticks[i].index <= p.ticks[j].index
         => Ratio(p.ticks[i].index) <= Ratio(p.ticks[j].index)

VARIABLES pool,        \* the pool quoted
          zeroForOne,  \* the direction: token0 is sold, and the price falls
          amountIn,    \* the input
          remaining, out, sqrtPrice, liquidity,  \* the loop's part of Scratch
          currentTick,
          crossed,     \* the loop counter: ticks crossed so far
          status,      \* "idle", "walk", or how the quote ended
          spent        \* bookkeeping: on the way back, what was sold on the way out

scratch == <<remaining, out, sqrtPrice, liquidity>>
vars == <<pool, zeroForOne, amountIn, scratch, currentTick, crossed, status, spent>>

Ticks == pool.ticks

Init == /\ pool \in Pools
        /\ zeroForOne \in BOOLEAN
        /\ amountIn = 0 /\ remaining = 0 /\ out = 0
        /\ sqrtPrice = pool.price /\ liquidity = pool.liquidity
        /\ currentTick = pool.tick
        /\ crossed = 0 /\ spent = 0
        /\ status = "idle"

----------------------------------------------------------------------------
(* Amounts and prices (scratch.go, v3.go:244-304).                         *)

CeilDiv(a, b) == (a + b - 1) \div b

\* Token0 between prices lo and hi: L (hi - lo) Q / (lo hi).
Amount0Up(lo, hi) == CeilDiv(CeilDiv(liquidity * Q * (hi - lo), hi), lo)
Amount0Down(lo, hi) == ((liquidity * Q * (hi - lo)) \div hi) \div lo

\* Token1 between prices lo and hi: L (hi - lo) / Q.
Amount1Up(lo, hi) == CeilDiv(liquidity * (hi - lo), Q)
Amount1Down(lo, hi) == (liquidity * (hi - lo)) \div Q

\* getNextSqrtPriceFromInput: rounded so that the pool is never worse off.
NextPrice(amount) ==
  IF amount = 0 THEN sqrtPrice
  ELSE IF zeroForOne
         THEN CeilDiv(liquidity * Q * sqrtPrice, liquidity * Q + amount * sqrtPrice)
         ELSE sqrtPrice + (amount * Q) \div liquidity

----------------------------------------------------------------------------
(* The next tick (v3.go:332-353).                                          *)

\* Mutant: a tick at the price itself is passed over on the way down.
InReachBelow == {i \in DOMAIN Ticks : IF zeroForOne THEN Ticks[i].index < currentTick
                                                    ELSE Ticks[i].index > currentTick}

InReach == {i \in DOMAIN Ticks : IF zeroForOne THEN Ticks[i].index <= currentTick
                                               ELSE Ticks[i].index > currentTick}

\* The first in the direction of the walk.
NextTick ==
  Ticks[CHOOSE i \in InReach : \A j \in InReach : IF zeroForOne THEN j <= i ELSE i <= j]

----------------------------------------------------------------------------
(* computeSwapStep (v3.go:189-242), towards the next tick.                 *)

Target == Ratio(NextTick.index)

\* Mutant: the fee is not taken off before the input moves the price.
LessFeeWhole == remaining

LessFee == (remaining * (Pips - pool.fee * PipsPerBp)) \div Pips

InToTarget == IF zeroForOne THEN Amount0Up(Target, sqrtPrice)
                            ELSE Amount1Up(sqrtPrice, Target)

ReachesTarget == LessFee >= InToTarget

\* Where the price ends up.
StepNext == IF ReachesTarget THEN Target ELSE NextPrice(LessFee)

\* The input that takes it there, without the fee.
NetIn == IF ReachesTarget THEN InToTarget
         ELSE IF zeroForOne THEN Amount0Up(StepNext, sqrtPrice)
                            ELSE Amount1Up(sqrtPrice, StepNext)

\* The fee: at a boundary that of the input used, otherwise all that is left.
StepFee == IF ReachesTarget
             THEN CeilDiv(NetIn * (pool.fee * PipsPerBp), Pips - pool.fee * PipsPerBp)
             ELSE IF remaining >= NetIn THEN remaining - NetIn ELSE 0

StepIn == NetIn + StepFee

\* Mutant: what the pool pays is rounded up.
StepOutUp == IF zeroForOne THEN Amount1Up(StepNext, sqrtPrice)
                           ELSE Amount0Up(sqrtPrice, StepNext)

StepOut == IF zeroForOne THEN Amount1Down(StepNext, sqrtPrice)
                         ELSE Amount0Down(sqrtPrice, StepNext)

----------------------------------------------------------------------------
(* SwapV3Into.                                                             *)

\* The checks before the loop.
Servable(a) == a > 0 /\ pool.fee < Bps /\ pool.liquidity > 0 /\ pool.price > 0

Ask(a, direction) ==
  /\ status = "idle"
  /\ Servable(a)
  /\ zeroForOne' = direction
  /\ amountIn' = a /\ remaining' = a /\ out' = 0
  /\ sqrtPrice' = pool.price /\ liquidity' = pool.liquidity
  /\ currentTick' = pool.tick /\ crossed' = 0
  /\ status' = "walk"
  /\ UNCHANGED <<pool, spent>>

Refuse(a) == /\ status = "idle"
             /\ ~Servable(a)
             /\ status' = "refused"
             /\ UNCHANGED <<pool, zeroForOne, amountIn, scratch, currentTick, crossed, spent>>

\* Another turn of the loop is possible.
CanStep == crossed <= Len(Ticks) /\ liquidity > 0 /\ InReach # {}

TakeStep == /\ out' = out + StepOut
            /\ remaining' = remaining - StepIn
            /\ sqrtPrice' = StepNext

\* The input is used up.
Quoted == /\ status = "walk" /\ CanStep
          /\ remaining - StepIn <= 0
          /\ TakeStep
          /\ status' = "quoted"
          /\ UNCHANGED <<pool, zeroForOne, amountIn, liquidity, currentTick, crossed, spent>>

\* Mutant: the walk down stays at the tick it has crossed.
CrossStays == /\ status = "walk" /\ CanStep
              /\ remaining - StepIn > 0 /\ ReachesTarget
              /\ TakeStep
              /\ liquidity' = IF zeroForOne THEN liquidity - NextTick.net
                                            ELSE liquidity + NextTick.net
              /\ currentTick' = NextTick.index
              /\ crossed' = crossed + 1
              /\ UNCHANGED <<pool, zeroForOne, amountIn, status, spent>>

\* Mutant: the liquidity changes the same way in both directions.
CrossUnsigned == /\ status = "walk" /\ CanStep
                 /\ remaining - StepIn > 0 /\ ReachesTarget
                 /\ TakeStep
                 /\ liquidity' = liquidity + NextTick.net
                 /\ currentTick' = IF zeroForOne THEN NextTick.index - 1 ELSE NextTick.index
                 /\ crossed' = crossed + 1
                 /\ UNCHANGED <<pool, zeroForOne, amountIn, status, spent>>

\* The boundary is reached with input to spare: the tick is crossed.
Cross == /\ status = "walk" /\ CanStep
         /\ remaining - StepIn > 0 /\ ReachesTarget
         /\ TakeStep
         /\ liquidity' = IF zeroForOne THEN liquidity - NextTick.net
                                       ELSE liquidity + NextTick.net
         /\ currentTick' = IF zeroForOne THEN NextTick.index - 1 ELSE NextTick.index
         /\ crossed' = crossed + 1
         /\ UNCHANGED <<pool, zeroForOne, amountIn, status, spent>>

\* No liquidity, no further tick, no progress, or no turn of the loop left.
GiveUp == /\ status = "walk"
          /\ CanStep => remaining - StepIn > 0 /\ ~ReachesTarget
          /\ status' = "insufficient"
          /\ UNCHANGED <<pool, zeroForOne, amountIn, scratch, currentTick, crossed, spent>>

\* The output is offered back to the pool as the trade would leave it.  The tick may
\* lag behind the price, but no initialised tick lies between.
AskBack == /\ status = "quoted" /\ spent = 0 /\ out > 0
           /\ pool' = [pool EXCEPT !.price = sqrtPrice, !.liquidity = liquidity,
                                   !.tick = currentTick]
           /\ zeroForOne' = ~zeroForOne
           /\ spent' = amountIn
           /\ amountIn' = out /\ remaining' = out /\ out' = 0
           /\ crossed' = 0
           /\ status' = "walk"
           /\ UNCHANGED <<sqrtPrice, liquidity, currentTick>>

Walk == Quoted \/ Cross \/ GiveUp

Next == \/ \E a \in Inputs : Refuse(a) \/ \E d \in BOOLEAN : Ask(a, d)
        \/ Walk
        \/ AskBack

Spec == Init /\ [][Next]_vars

----------------------------------------------------------------------------
(* Properties.                                                             *)

\* Every variable has its type.
TypeOK == /\ WellFormed(pool)
          /\ zeroForOne \in BOOLEAN
          /\ amountIn \in Int /\ remaining \in Int /\ out \in Nat
          /\ sqrtPrice \in Nat \ {0} /\ liquidity \in Int
          /\ currentTick \in Int
          /\ crossed \in Nat
          /\ status \in {"idle", "refused", "walk", "quoted", "insufficient"}
          /\ spent \in Int

\* The price never runs past a tick that has not been crossed, nor back over one that
\* has (v3.go:151-174): whatever is rounded, every step trades within one range.
NeverOvershoots ==
  \A i \in DOMAIN Ticks :
    /\ Ticks[i].index <= currentTick => Ratio(Ticks[i].index) <= sqrtPrice
    /\ Ticks[i].index > currentTick => sqrtPrice <= Ratio(Ticks[i].index)

\* The input is used exactly: a quote consumes all of it and never more, and no step
\* takes more than is left (v3.go:227-240, "would leave a dust remainder").
InputAccounted == /\ status = "walk" => remaining > 0
                  /\ status = "quoted" => remaining = 0

\* The net liquidity of the first n ticks, for every n.
NetOfFirst ==
  LET Net[n \in 0..Len(Ticks)] == IF n = 0 THEN 0 ELSE Net[n - 1] + Ticks[n].net
  IN  Net

\* The net liquidity of all ticks up to and including t.
NetUpTo(t) == NetOfFirst[Cardinality({i \in DOMAIN Ticks : Ticks[i].index <= t})]

\* However many ticks a trade crosses, and whichever way, it is priced with the
\* liquidity in force there: that of the pool, and the net of every tick between, each
\* counted once and with the sign of the direction (v3.go:168-174).
LiquidityIsInForce ==
  liquidity - pool.liquidity = NetUpTo(currentTick) - NetUpTo(pool.tick)

\* A trade is turned down only where the window ends or is empty of liquidity: the
\* loop's bound (v3.go:127-129, "bounded by the size of the tick window") never cuts
\* one short, and a step that stops within a range has used up the input.
RefusedOnlyAtWindowEnd == status = "insufficient" => liquidity <= 0 \/ InReach = {}

\* Nobody gains by selling and buying back: over any number of ranges, every rounding
\* of amounts and prices is in the pool's favour (v3.go:244-304).
RoundTripLoses == spent > 0 /\ status = "quoted" => out <= spent
=============================================================================
