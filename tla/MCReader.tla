------------------------------ MODULE MCReader ------------------------------
(***************************************************************************)
(* Model checking Reader.  In three blocks a price crosses ticks, pools    *)
(* are deployed, filled and emptied, and a pool near the lowest tick has   *)
(* a window with one side only.                                            *)
(***************************************************************************)
EXTENDS Reader, TLC

MCMinTick == -7

MCFeeTiers == <<5, 30>>

V3(price, tick, liquidity, spacing, nets) ==
  [price |-> price, tick |-> tick, liquidity |-> liquidity, spacing |-> spacing, nets |-> nets]

V2(r0, r1) == [r0 |-> r0, r1 |-> r1]

\* A pool that trades down and is left with other liquidity and ticks.
A1 == V3(20, 1, 5, 1, (-1 :> 3) @@ (3 :> -5))
A2 == V3(18, -1, 5, 1, (-3 :> 2) @@ (1 :> -2))
A3 == V3(18, -1, 4, 1, (-3 :> 2))

\* One with a wider spacing, at the edge of the range.
B1 == V3(9, -5, 6, 2, (0 :> 6))
B2 == V3(9, -5, 6, 2, (0 :> 4))

A == <<"v3", 1, 2, 30>>
B == <<"v3", 1, 3, 5>>
C == <<"v3", 2, 3, 30>>
P == <<"v2", 1, 3>>
R == <<"v2", 2, 3>>

C1 == V3(7, 2, 0, 0, <<>>)
C2 == V3(7, 2, 3, 0, <<>>)

MCChains ==
  {<<(A :> A1) @@ (B :> B1) @@ (P :> V2(5, 6)) @@ (R :> V2(0, 0)),
     (A :> A2) @@ (B :> B2) @@ (C :> C1) @@ (P :> V2(6, 5)) @@ (R :> V2(4, 4)),
     (A :> A3) @@ (B :> B2) @@ (C :> C2) @@ (P :> V2(6, 5)) @@ (R :> V2(3, 6))>>,
   <<(C :> C2), (C :> C2) @@ (A :> A2), (C :> C1) @@ (A :> A1)>>}
=============================================================================
