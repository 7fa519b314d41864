------------------------------ MODULE SimPools ------------------------------
(***************************************************************************)
(* The concentrated liquidity pools of the simulator (internal/dex/sim/    *)
(* source.go), as the snapshot holds them: fillV3 sets price, tick and     *)
(* liquidity, buildTicks lays out the window, PrepareTicks (amm/v3.go)     *)
(* puts it in order.  What comes out of floating point, the tick of the    *)
(* price and the amount of token1, is given.                               *)
(***************************************************************************)
EXTENDS Integers, Sequences, SequencesExt

CONSTANTS Q, Ratio(_),
          MinTick, MaxTick,
          Spacing, Steps, Stride

\* Go's remainder has the sign of the dividend.
Rem(a, b) == IF a < 0 THEN -((-a) % b) ELSE a % b

\* Onto a multiple of the spacing, and into the range of ticks.
Snap(raw) ==
  LET tick == raw - Rem(raw, Spacing)
  IN  CASE tick < MinTick -> MinTick - Rem(MinTick, Spacing)
        [] tick > MaxTick -> MaxTick - Rem(MaxTick, Spacing)
        [] OTHER -> tick

AtLeastOne(n) == IF n <= 0 THEN 1 ELSE n

Portion(liquidity, distance) == AtLeastOne(liquidity \div (distance * 4))

\* Below the price a tick adds liquidity, above it takes some away.
BuildTicks(current, liquidity) ==
  LET Tick(i) == [index |-> current + i * Stride * Spacing,
                  net |-> IF i < 0 THEN Portion(liquidity, -i) ELSE -Portion(liquidity, i)]
      InRange(t) == MinTick <= t.index /\ t.index <= MaxTick
  IN  SelectSeq([i \in 1..(2 * Steps) |-> Tick(IF i <= Steps THEN i - Steps - 1
                                                             ELSE i - Steps)], InRange)

PrepareTicks(ticks) == SortSeq(ticks, LAMBDA s, t : s.index < t.index)

FillV3(raw, token1, fee) ==
  LET tick == Snap(raw)
      liquidity == AtLeastOne((token1 * Q) \div Ratio(tick))
  IN  [price |-> Ratio(tick), liquidity |-> liquidity, tick |-> tick, fee |-> fee,
       ticks |-> PrepareTicks(BuildTicks(tick, liquidity))]
=============================================================================
