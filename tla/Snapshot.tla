------------------------------ MODULE Snapshot ------------------------------
(***************************************************************************)
(* BuildSnapshot of internal/graph/snapshot.go: a list of pools becomes    *)
(* the list of edges the router walks.  Tokens are numbered in the order   *)
(* in which they first appear; the router goes through the tokens by       *)
(* number, and through a token's edges in the order of the pools.          *)
(***************************************************************************)
EXTENDS Integers, Sequences, TLC

\* Two tokens, both reserves loaded and positive (the constant product case; Service has
\* the other one).
Usable(p) == p.t0 # p.t1 /\ p.r0 > 0 /\ p.r1 > 0

\* The number intern gives to token t: where t first appears.
Interned(pools, t) ==
  LET Named(i) == t = pools[i].t0 \/ t = pools[i].t1
      first == CHOOSE i \in DOMAIN pools : Named(i) /\ \A j \in 1..(i - 1) : ~Named(j)
  IN  2 * first + (IF t = pools[first].t0 THEN 0 ELSE 1)

\* Both directions of every pool, in the order of the pools.
BothWays(pools) ==
  [i \in 1..(2 * Len(pools)) |->
     LET p == pools[(i + 1) \div 2]
     IN  IF i % 2 = 1 THEN [pool |-> p, from |-> p.t0, to |-> p.t1, at |-> i]
                      ELSE [pool |-> p, from |-> p.t1, to |-> p.t0, at |-> i]]

BuildSnapshot(raw) ==
  LET pools == SelectSeq(raw, Usable)
      Before(e, f) == \/ Interned(pools, e.from) < Interned(pools, f.from)
                      \/ e.from = f.from /\ e.at < f.at
  IN  SortSeq(BothWays(pools), Before)
=============================================================================
