------------------------------- MODULE MCPage -------------------------------
(***************************************************************************)
(* Model checking the hooks of the page: the quote panel (UseQuote) and    *)
(* the status and price stream (Web).  The two share no variable and no    *)
(* step of one reads the other, so what a page does is a shuffle of what   *)
(* each of them does.  A behaviour here moves one of them, in full; the    *)
(* other stands still, not mounted yet or with nothing under way.          *)
(***************************************************************************)
EXTENDS Web, UseQuote

V2(a, sim, r) == [address |-> a, protocol |-> "v2", simulated |-> sim,
                  reserves |-> r, liquidity |-> <<>>, ticks |-> <<>>]

V3(a, sim, l) == [address |-> a, protocol |-> "v3", simulated |-> sim,
                  reserves |-> <<<<>>, <<>>>>, liquidity |-> l,
                  ticks |-> <<[index |-> 2, net |-> <<-3>>]>>]

MCAmounts == -3..5

MCSourced ==
  [live |-> {V3("l1", FALSE, <<5>>), V2("l2", FALSE, <<<<4>>, <<2>>>>)},
   simulated |-> {V3("s1", TRUE, <<0>>), V2("s2", TRUE, <<<<1>>, <<1>>>>)}]

\* A V3 pool is a direct route; with two hops the route uses every pool.
MCRoute(pools, pair, hops) ==
  {p.address : p \in {q \in pools : hops > 1 \/ q.protocol = "v3"}}

In(pair, num, places, hops) ==
  [pair |-> pair, amount |-> [num |-> num, places |-> places], hops |-> hops]

MCOpening == In(<<"a", "b">>, 2, 0, 2)

MCInputs == {In(<<"a", "b">>, 0, 0, 1),
             In(<<"a", "b">>, 2, 0, 1), In(<<"a", "b">>, 2, 0, 2),
             In(<<"a", "b">>, 1, 2, 1),
             In(<<"a", "a">>, 2, 0, 1)}

----------------------------------------------------------------------------
VARIABLE moving   \* the part that moves in this behaviour

pageVars == <<vars, quoteVars, moving>>

\* The panel after its first requests were all lost.
PanelAtRest == /\ ServiceInit /\ mode = "live"
               /\ inputs = Opening
               /\ shown = [Blank EXCEPT !.error = TRUE]
               /\ reqs = <<[NewRequest(Opening) EXCEPT !.phase = "over"]>>
               /\ edits = 0

PageInit == \/ moving = "panel" /\ QuoteInit /\ Init /\ ~up
            \/ moving = "stream" /\ PanelAtRest /\ Init

PageNext == \/ moving = "panel" /\ QuoteNext /\ UNCHANGED <<vars, moving>>
            \/ moving = "stream" /\ Next /\ UNCHANGED <<quoteVars, moving>>

\* The fairness of both; of the part that stands still no fair step is enabled.
PageSpec == PageInit /\ [][PageNext]_pageVars /\ WF_quoteVars(Flow) /\ Fairness
=============================================================================
