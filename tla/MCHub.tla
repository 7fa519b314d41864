------------------------------- MODULE MCHub -------------------------------
(***************************************************************************)
(* Model checking Hub.                                                     *)
(***************************************************************************)
EXTENDS Hub

MCPairs == <<"weth/usdc">>
=============================================================================
