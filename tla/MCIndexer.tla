----------------------------- MODULE MCIndexer -----------------------------
(***************************************************************************)
(* Model checking Indexer.  The property below is what a comment of the    *)
(* repository says of it; it is checked in a run of its own and fails.     *)
(***************************************************************************)
EXTENDS Indexer

\* handlers.go:238-242, on the limit of three intervals: past it "a load balancer
\* should stop sending traffic here".  An instance that answers "ok" serves data no
\* older than the limit, give or take the refresh that read it.
OkMeansFresh ==
  serving /\ Health = "ok" => \A s \in snap.pools : snap.read[s] <= StaleAfter + snap.spent
=============================================================================
