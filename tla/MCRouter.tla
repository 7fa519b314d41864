------------------------------ MODULE MCRouter ------------------------------
(***************************************************************************)
(* Model checking Router over snapshots of constant product pools.         *)
(***************************************************************************)
EXTENDS Router, Snapshot

Amm == INSTANCE AmmV2

MCAmountOut(p, tokenIn, in) == Amm!AmountOutV2(p, tokenIn, in)

MCTokens == {"weth", "usdc", "dai", "wbtc"}

Pool(a, s, t, r) == [addr |-> a, t0 |-> s, t1 |-> t, r0 |-> r[1], r1 |-> r[2], fee |-> 1]

\* Constant product pools satisfy what the theorems about the searches assume.
ASSUME PoolAssumption == PaysMoreForMore /\ RoundTripsLose

\* Two pools on one pair and a square with a diagonal around it; shallow, deep,
\* mispriced and empty ones.
MCGraphs ==
  {BuildSnapshot(<<Pool(1, "weth", "usdc", r1), Pool(2, "weth", "usdc", r2),
                   Pool(3, "usdc", "dai", r3), Pool(4, "dai", "weth", r4),
                   Pool(5, "wbtc", "dai", r5)>>) :
     r1 \in {<<10, 20>>, <<40, 60>>},
     r2 \in {<<20, 10>>, <<40, 80>>},
     r3 \in {<<20, 20>>, <<10, 40>>},
     r4 \in {<<20, 40>>, <<10, 0>>},
     r5 \in {<<30, 20>>, <<0, 20>>}}

\* Every hub token at one size; one token alone; sizes that are skipped.
MCProbeSets ==
  {{[token |-> t, size |-> 3] : t \in MCTokens \ {"wbtc"}},
   {[token |-> "weth", size |-> 12], [token |-> "usdc", size |-> 0]},
   {}}
=============================================================================
