------------------------------- MODULE Router -------------------------------
(***************************************************************************)
(* The two searches of internal/graph over one immutable snapshot:         *)
(* FindBestRoute (router.go), the best simple path between two tokens, and *)
(* FindArbitrage (arbitrage.go), the closed loops that gain.  Both run the *)
(* same relaxation, a Bellman-Ford indexed by the number of hops, which    *)
(* carries amounts: row j of the table holds the largest amount of every   *)
(* token found in exactly j hops, and the edge it came over.               *)
(*                                                                         *)
(* One step handles one edge of one round.  What a pool pays is the        *)
(* constant operator AmountOut; it is 0 when the pool cannot quote.  An    *)
(* amount of 0 in the table is an entry not yet seen.  Requests share      *)
(* nothing but the snapshot, so one at a time is enough, and nothing of    *)
(* one is left when the next begins.                                       *)
(***************************************************************************)
EXTENDS Integers, Sequences, SequencesExt

CONSTANTS Tokens,        \* every token a request may name
          Graphs,        \* the snapshots to search: lists of edges
          AmountOut(_, _, _),  \* AmountOut(pool, tokenIn, amountIn)
          MaxAmount,     \* bound: no pool pays more, no request sells more
          MaxHops,       \* bound: hops a request may ask for
          Sizes,         \* bound: amounts a request may sell
          ProbeSets,     \* bound: what FindArbitrage may be asked to probe
          Bps,           \* bpsScale, 10000 in the code
          ProbeDivisor   \* priceImpact's probe is this fraction of the trade

Amount == 0..MaxAmount

EdgesOf(g) == {g[i] : i \in DOMAIN g}

Probe == [token : Tokens, size : Sizes]

\* An edge is one of the two directions of a pool.
ASSUME RouterAssumption ==
  /\ Tokens # {} /\ MaxAmount \in Nat /\ MaxHops \in Nat
  /\ Sizes \subseteq Int /\ \A a \in Sizes : a <= MaxAmount
  /\ Bps \in Nat \ {0} /\ ProbeDivisor \in Nat \ {0}
  /\ \A P \in ProbeSets : P \subseteq Probe
  /\ \A g \in Graphs :
       /\ g \in Seq(EdgesOf(g))
       /\ \A e \in EdgesOf(g) :
            /\ e.from \in Tokens /\ e.to \in Tokens /\ e.from # e.to
            /\ {e.from, e.to} = {e.pool.t0, e.pool.t1}
            /\ \A a \in Amount : AmountOut(e.pool, e.from, a) \in Amount

NoEdge == [pool |-> 0, from |-> 0, to |-> 0]

VARIABLES edges,   \* the snapshot
          pc,      \* "idle", "probe" (FindArbitrage between tokens) or "relax"
          mode,    \* relaxMode
          src, dst, amountIn, rounds,  \* the arguments of the search under way
          amount,  \* relaxTable.amount; seen is amount > 0
          from,    \* relaxTable.from
          k, pos,  \* the loops of relax: the round, and the edge of the round
          todo,    \* probes FindArbitrage has yet to try
          found,   \* the cycles it has found
          result   \* what the last request was answered

request == <<mode, src, dst, amountIn, rounds>>
table == <<amount, from, k, pos>>
vars == <<edges, pc, request, table, todo, found, result>>

Nothing == [kind |-> "none"]

EmptyTable(s, a) ==
  [j \in 0..MaxHops |-> [t \in Tokens |-> IF j = 0 /\ t = s THEN a ELSE 0]]

EmptyFrom == [j \in 1..MaxHops |-> [t \in Tokens |-> NoEdge]]

AnyToken == CHOOSE t \in Tokens : TRUE

Init == /\ edges \in Graphs
        /\ pc = "idle"
        /\ mode = "simplePaths"
        /\ src = AnyToken /\ dst = AnyToken
        /\ amountIn = 0 /\ rounds = 0
        /\ amount = EmptyTable(AnyToken, 0)
        /\ from = EmptyFrom
        /\ k = 1 /\ pos = 1
        /\ todo = {} /\ found = {}
        /\ result = Nothing

\* The caller has its answer, and the request is gone.
Return == /\ result # Nothing
          /\ pc' = "idle"
          /\ mode' = "simplePaths"
          /\ src' = AnyToken /\ dst' = AnyToken
          /\ amountIn' = 0 /\ rounds' = 0
          /\ amount' = EmptyTable(AnyToken, 0)
          /\ from' = EmptyFrom
          /\ k' = 1 /\ pos' = 1
          /\ todo' = {} /\ found' = {}
          /\ result' = Nothing
          /\ UNCHANGED edges

Idle == pc = "idle" /\ result = Nothing

\* tokenIndex finds the token.
Indexed(t) == \E i \in DOMAIN edges : edges[i].from = t

\* relax begins: a fresh table, with all there is to sell at the source.
Begin(s, a) == /\ src' = s
               /\ amountIn' = a
               /\ amount' = EmptyTable(s, a)
               /\ from' = EmptyFrom
               /\ k' = 1 /\ pos' = 1
               /\ pc' = "relax"

----------------------------------------------------------------------------
(* The relaxation.                                                         *)

\* The path that reached token t in j hops, as its tokens 0 to j.
Paths(j, t) == {w \in [0..j -> Tokens] :
                  /\ w[j] = t
                  /\ \A i \in 1..j : from[i][w[i]] # NoEdge /\ w[i - 1] = from[i][w[i]].from}

\* Mutant: the chain of predecessors is not walked.
MayVisitUnwalked(hops, token, next) ==
  \/ mode = "closedLoops" /\ next = src
  \/ next # src /\ next # token

\* mayVisit: a path may close at its source in the mode that wants it, and
\* otherwise lands on no token it has been to.
MayVisit(hops, token, next) ==
  \/ mode = "closedLoops" /\ next = src
  \/ /\ next # src /\ next # token
     /\ \A w \in Paths(hops, token) : \A i \in 0..hops : w[i] # next

\* Mutant: one row for all rounds, the search reads what it has just written.
OfferedInPlace(e) ==
  AmountOut(e.pool, e.from,
            IF amount[k][e.from] > 0 THEN amount[k][e.from] ELSE amount[k - 1][e.from])

\* What edge e pays for the best amount of the round before.
Offered(e) == AmountOut(e.pool, e.from, amount[k - 1][e.from])

Improves(e) == Offered(e) > amount[k][e.to]

Worthwhile(e) == /\ amount[k - 1][e.from] > 0
                 /\ Offered(e) > 0
                 /\ MayVisit(k - 1, e.from, e.to)
                 /\ Improves(e)

RoundsLeft == k <= rounds

Advance == IF pos < Len(edges) THEN pos' = pos + 1 /\ UNCHANGED k
                               ELSE pos' = 1 /\ k' = k + 1

RelaxTakes == /\ pc = "relax" /\ RoundsLeft
              /\ LET e == edges[pos]
                 IN  /\ Worthwhile(e)
                     /\ amount' = [amount EXCEPT ![k][e.to] = Offered(e)]
                     /\ from' = [from EXCEPT ![k][e.to] = e]
              /\ Advance
              /\ UNCHANGED <<edges, pc, request, todo, found, result>>

RelaxSkips == /\ pc = "relax" /\ RoundsLeft
              /\ ~Worthwhile(edges[pos])
              /\ Advance
              /\ UNCHANGED <<edges, pc, request, amount, from, todo, found, result>>

\* reconstruct: the hops of the path that reached t in j hops.
Hops(j, t) ==
  LET w == CHOOSE w \in Paths(j, t) : TRUE
  IN  [i \in 1..j |-> [pool |-> from[i][w[i]].pool,
                       from |-> w[i - 1], to |-> w[i],
                       in |-> amount[i - 1][w[i - 1]], out |-> amount[i][w[i]]]]

----------------------------------------------------------------------------
(* FindBestRoute.                                                          *)

AskRoute(tokenIn, tokenOut, a, hops) ==
  /\ Idle
  /\ a > 0 /\ hops >= 1
  /\ Indexed(tokenIn) /\ Indexed(tokenOut) /\ tokenIn # tokenOut
  /\ mode' = "simplePaths"
  /\ dst' = tokenOut /\ rounds' = hops
  /\ Begin(tokenIn, a)
  /\ UNCHANGED <<edges, todo, found, result>>

\* The early returns, in the order of the code.
RefuseRoute(tokenIn, tokenOut, a, hops) ==
  /\ Idle
  /\ \/ /\ a <= 0 \/ hops < 1
        /\ result' = [kind |-> "bad-request"]
     \/ /\ a > 0 /\ hops >= 1
        /\ ~(Indexed(tokenIn) /\ Indexed(tokenOut))
        /\ result' = [kind |-> "unknown-token"]
     \/ /\ a > 0 /\ hops >= 1
        /\ Indexed(tokenIn) /\ Indexed(tokenOut) /\ tokenIn = tokenOut
        /\ result' = [kind |-> "bad-request"]
  /\ UNCHANGED <<edges, pc, request, table, todo, found>>

Searched == pc = "relax" /\ ~RoundsLeft

Reached(t) == {j \in 1..rounds : amount[j][t] > 0}

\* Mutant: the shortest route is taken for the best one.
BestRoundShortest(t) == CHOOSE j \in Reached(t) : \A i \in Reached(t) : j <= i

\* bestRoundFor: the fewest hops among those that deliver the most.
BestRound(t) ==
  CHOOSE j \in Reached(t) : \A i \in Reached(t) : \/ amount[i][t] < amount[j][t]
                                                  \/ amount[i][t] = amount[j][t] /\ j <= i

\* priceImpact: the shortfall against the rate of a small probe over the same hops.  A
\* shortfall is at most what was expected, so the cap on what does not fit 64 bits is idle.
Impact(hops, in, out) ==
  LET probeIn == IF in \div ProbeDivisor > 0 THEN in \div ProbeDivisor ELSE 1
      probeOut == FoldLeft(LAMBDA a, h : AmountOut(h.pool, h.from, a), probeIn, hops)
      expected == (probeOut * in) \div probeIn
  IN  IF probeOut <= 0 \/ expected <= 0 \/ expected - out <= 0 THEN 0
      ELSE ((expected - out) * Bps) \div expected

AnswerRoute ==
  /\ Searched /\ mode = "simplePaths"
  /\ Reached(dst) # {}
  /\ LET j == BestRound(dst)
         hops == Hops(j, dst)
     IN  result' = [kind |-> "route", hops |-> hops, out |-> amount[j][dst],
                    impact |-> Impact(hops, amountIn, amount[j][dst])]
  /\ pc' = "idle"
  /\ UNCHANGED <<edges, request, table, todo, found>>

AnswerNoRoute == /\ Searched /\ mode = "simplePaths"
                 /\ Reached(dst) = {}
                 /\ result' = [kind |-> "no-route"]
                 /\ pc' = "idle"
                 /\ UNCHANGED <<edges, request, table, todo, found>>

----------------------------------------------------------------------------
(* FindArbitrage.                                                          *)

\* probes maps tokens to the size to test.
AskArbitrage(probes, hops) ==
  /\ Idle
  /\ mode' = "closedLoops"
  /\ rounds' = hops
  /\ IF probes = {} \/ hops < 2
       THEN result' = [kind |-> "cycles", cycles |-> <<>>] /\ UNCHANGED <<pc, todo>>
       ELSE pc' = "probe" /\ todo' = probes /\ UNCHANGED result
  /\ UNCHANGED <<edges, src, dst, amountIn, table, found>>

\* The range over the map comes to its tokens in any order.
ProbeNext(p) == /\ pc = "probe" /\ p \in todo
                /\ todo' = todo \ {p}
                /\ IF p.size > 0 /\ Indexed(p.token)
                     THEN Begin(p.token, p.size)
                     ELSE UNCHANGED <<src, amountIn, table, pc>>
                /\ UNCHANGED <<edges, mode, dst, rounds, found, result>>

\* buildCycle.
Cycle(j) ==
  LET hops == Hops(j, src)
      out == amount[j][src]
  IN  [hops |-> hops, pools |-> [i \in 1..j |-> hops[i].pool.addr],
       in |-> amountIn, out |-> out, profit |-> ((out - amountIn) * Bps) \div amountIn]

\* cycleKey: the pools of a cycle, in the order of their addresses.
CycleKey(c) ==
  LET Below(a) == {j \in DOMAIN c.pools : c.pools[j] < a}
      UpTo(a) == {j \in DOMAIN c.pools : c.pools[j] <= a}
  IN  [i \in DOMAIN c.pools |->
         CHOOSE a \in Range(c.pools) : Cardinality(Below(a)) < i /\ i <= Cardinality(UpTo(a))]

\* Mutant: a loop that breaks even, or loses, is reported as well.
GainsAnything(j) == amount[j][src] > 0

Gains(j) == amount[j][src] > amountIn

NewCycle(c) == \A d \in found : CycleKey(d) # CycleKey(c)

HarvestCycles ==
  /\ Searched /\ mode = "closedLoops"
  /\ found' = found \cup {c \in {Cycle(j) : j \in {i \in 2..rounds : Gains(i)}} : NewCycle(c)}
  /\ pc' = "probe"
  /\ UNCHANGED <<edges, request, table, todo, result>>

\* The order of two lists of addresses.
KeyBefore(s, t) ==
  \E i \in 1..Len(t) : /\ \A j \in 1..(i - 1) : j <= Len(s) /\ s[j] = t[j]
                       /\ i > Len(s) \/ s[i] < t[i]

MoreProfitable(c, d) ==
  \/ c.profit > d.profit
  \/ c.profit = d.profit /\ KeyBefore(CycleKey(c), CycleKey(d))

\* The cycles found, the most profitable first.
Sorted(cycles) == \A i, j \in DOMAIN cycles : i < j => MoreProfitable(cycles[i], cycles[j])

AnswerArbitrage ==
  /\ pc = "probe" /\ todo = {}
  /\ \E cycles \in SetToSeqs(found) :
       Sorted(cycles) /\ result' = [kind |-> "cycles", cycles |-> cycles]
  /\ found' = {}
  /\ pc' = "idle"
  /\ UNCHANGED <<edges, request, table, todo>>

----------------------------------------------------------------------------
Ask == \/ \E s, t \in Tokens : \E a \in Sizes : \E h \in 0..MaxHops :
            AskRoute(s, t, a, h) \/ RefuseRoute(s, t, a, h)
       \/ \E P \in ProbeSets : \E h \in 1..MaxHops : AskArbitrage(P, h)

Next == \/ Ask
        \/ RelaxTakes \/ RelaxSkips
        \/ AnswerRoute \/ AnswerNoRoute
        \/ \E p \in todo : ProbeNext(p)
        \/ HarvestCycles \/ AnswerArbitrage
        \/ Return

Spec == Init /\ [][Next]_vars

----------------------------------------------------------------------------
(* Properties.                                                             *)

\* Every entry of the table is what a swap of the entry it came from pays
\* (router.go:226-263), in every state of the search: no entry is overwritten once
\* another has been computed from it.
TableIsExecutable ==
  \A j \in 1..MaxHops : \A t \in Tokens :
    amount[j][t] > 0 =>
      LET e == from[j][t]
      IN  /\ e \in EdgesOf(edges) /\ e.to = t
          /\ amount[j - 1][e.from] > 0
          /\ amount[j][t] = AmountOut(e.pool, e.from, amount[j - 1][e.from])

\* hops can be executed one after the other: each sells what the one before bought,
\* and pays what its pool quotes.
Executes(hops, first, last, in, out) ==
  /\ Len(hops) >= 1
  /\ hops[1].from = first /\ hops[1].in = in
  /\ hops[Len(hops)].to = last /\ hops[Len(hops)].out = out
  /\ \A i \in DOMAIN hops :
       /\ hops[i].out = AmountOut(hops[i].pool, hops[i].from, hops[i].in)
       /\ i > 1 => hops[i].from = hops[i - 1].to /\ hops[i].in = hops[i - 1].out

PoolsOnce(hops) == \A i, j \in DOMAIN hops : hops[i].pool = hops[j].pool => i = j

VisitsOnce(hops) ==
  \A i, j \in DOMAIN hops : /\ hops[i].from = hops[j].from => i = j
                            /\ hops[i].from # hops[j].to \/ i = j + 1

\* A route is a path from tokenIn to tokenOut that executes at the quoted amounts and
\* comes to no token, and so to no pool, twice (router.go:190-197): no hop meets a
\* price that an earlier one has moved.
RouteExecutes ==
  result.kind = "route" => /\ Executes(result.hops, src, dst, amountIn, result.out)
                           /\ VisitsOnce(result.hops)

Pays(e, a) == AmountOut(e.pool, e.from, a)

\* More is never paid for less, and nothing for nothing.
PaysMoreForMore ==
  \A g \in Graphs : \A e \in EdgesOf(g) :
    /\ Pays(e, 0) = 0
    /\ \A a, b \in Amount : a <= b => Pays(e, a) <= Pays(e, b)

\* What a pool pays buys no more back from it at the same price.
RoundTripsLose ==
  \A g \in Graphs : \A e, f \in EdgesOf(g) :
    e.pool = f.pool /\ e.to = f.from => \A a \in Amount : Pays(f, Pays(e, a)) <= a

\* No path of one or two hops pays more than the answer, and none exists when the
\* answer is that there is no route (router.go:50-51, 73-78): for these the best
\* amount per token is always worth keeping.
BestOfTwoHops ==
  result.kind \in {"route", "no-route"} =>
    LET best == IF result.kind = "route" THEN result.out ELSE 0
    IN  \A e \in {f \in EdgesOf(edges) : f.from = src} :
          /\ e.to = dst => Pays(e, amountIn) <= best
          /\ rounds >= 2 =>
               \A f \in {g \in EdgesOf(edges) : g.from = e.to /\ g.to = dst} :
                 Pays(f, Pays(e, amountIn)) <= best

\* Every reported cycle is a loop through its starting token that executes at the
\* quoted amounts and returns more than it consumed (arbitrage.go:30-45, 72-83).
CyclesGain ==
  result.kind = "cycles" =>
    \A i \in DOMAIN result.cycles :
      LET c == result.cycles[i]
          start == c.hops[1].from
      IN  Executes(c.hops, start, start, c.in, c.out) /\ c.out > c.in

\* No cycle uses a pool twice (router.go:192-197: "the second pass would meet the
\* price the first pass just moved"), up to the hop limit of this run, and no two
\* cycles are the same pools entered at another token or size (arbitrage.go:40-42).
CyclesUsePoolsOnce ==
  result.kind = "cycles" =>
    \A i \in DOMAIN result.cycles :
      /\ PoolsOnce(result.cycles[i].hops)
      /\ \A j \in DOMAIN result.cycles :
           CycleKey(result.cycles[i]) = CycleKey(result.cycles[j]) => i = j
=============================================================================
