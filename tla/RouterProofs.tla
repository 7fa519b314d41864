---------------------------- MODULE RouterProofs ----------------------------
(***************************************************************************)
(* What the searches answer can be executed, for every snapshot, every     *)
(* hop limit and whatever the pools pay: nothing is assumed of AmountOut   *)
(* but that it is an amount.  The route is the best of two hops where      *)
(* pools pay more for more, and no loop of three hops repeats a pool where *)
(* round trips lose; the pools of AmmV2 do both.                           *)
(***************************************************************************)
EXTENDS Router, WellFoundedInduction, TLAPS

----------------------------------------------------------------------------
(* The inductive invariant.                                                *)

\* The types of what the searches read and write.
RouterTypes ==
  /\ edges \in Graphs
  /\ pc \in {"idle", "probe", "relax"}
  /\ mode \in {"simplePaths", "closedLoops"}
  /\ src \in Tokens /\ dst \in Tokens
  /\ amountIn \in Amount /\ rounds \in 0..MaxHops
  /\ amount \in [0..MaxHops -> [Tokens -> Amount]]
  /\ from \in [1..MaxHops -> [Tokens -> EdgesOf(edges) \cup {NoEdge}]]
  /\ k \in Nat \ {0} /\ pos \in Nat \ {0}
  /\ pc = "relax" => pos <= Len(edges)
  /\ todo \subseteq Probe

\* Row 0 is what there is to sell, at the source.
StartRow == \A t \in Tokens : amount[0][t] = IF t = src THEN amountIn ELSE 0

\* The rows of rounds to come are empty: nothing has been computed from row k.
LaterRowsEmpty == \A j \in 1..MaxHops : j > k => \A t \in Tokens : amount[j][t] = 0

\* Walking back from an entry leads to the source over entries that are all there,
\* and in simplePaths mode to no token twice.
GoodPath(w, j) == /\ w[0] = src
                  /\ \A i \in 0..j : amount[i][w[i]] > 0
                  /\ mode = "simplePaths" => \A a, b \in 0..j : w[a] = w[b] => a = b

GoodPaths == \A j \in 0..MaxHops : \A t \in Tokens :
               amount[j][t] > 0 => /\ Paths(j, t) # {}
                                   /\ \A w \in Paths(j, t) : GoodPath(w, j)

\* What the search under way has put together can be executed.
FoundExecute ==
  \A c \in found : /\ Executes(c.hops, c.hops[1].from, c.hops[1].from, c.in, c.out)
                   /\ c.out > c.in

\* No loop is kept twice, and none is reported twice.
FoundOnce == \A c, d \in found : CycleKey(c) = CycleKey(d) => c = d

ReportedOnce ==
  result.kind = "cycles" =>
    \A i, j \in DOMAIN result.cycles :
      CycleKey(result.cycles[i]) = CycleKey(result.cycles[j]) => i = j

AnswerStands == /\ result # Nothing => pc = "idle"
                /\ RouteExecutes /\ CyclesGain /\ ReportedOnce

SearchInv == /\ RouterTypes /\ StartRow /\ LaterRowsEmpty
             /\ TableIsExecutable /\ GoodPaths

RouterInv == SearchInv /\ FoundExecute /\ FoundOnce /\ AnswerStands

----------------------------------------------------------------------------
(* Lemmas.                                                                 *)

\* A set of numbers that is not empty has a least one.
LEMMA Least ==
  ASSUME NEW T, T \subseteq Nat, T # {}
  PROVE  \E x \in T : \A y \in T : x <= y
<1>1. PICK x \in T : \A y \in T : ~(<<y, x>> \in OpToRel(<, Nat))
  BY WFMin, NatLessThanWellFounded
<1>2. ASSUME NEW y \in T PROVE x <= y
  <2>1. ~(<<y, x>> \in OpToRel(<, Nat))
    BY <1>1
  <2>2. ~(y < x)
    BY <2>1 DEF OpToRel
  <2>3. QED
    BY <2>2
<1>3. QED
  BY <1>2

\* What is assumed of an edge of the snapshot.
LEMMA EdgeFacts ==
  ASSUME RouterTypes, NEW e \in EdgesOf(edges)
  PROVE  /\ e.from \in Tokens /\ e.to \in Tokens /\ e.from # e.to
         /\ e # NoEdge
         /\ \A a \in Amount : AmountOut(e.pool, e.from, a) \in Amount
<1>1. /\ e.from \in Tokens /\ e.to \in Tokens /\ e.from # e.to
      /\ \A a \in Amount : AmountOut(e.pool, e.from, a) \in Amount
  BY RouterAssumption DEF RouterTypes
<1>2. e # NoEdge
  <2>1. NoEdge.from = NoEdge.to
    BY DEF NoEdge
  <2>2. QED
    BY <1>1, <2>1
<1>3. QED
  BY <1>1, <1>2

\* The edge the loop has come to.
LEMMA EdgeHere ==
  ASSUME RouterTypes, pc = "relax"
  PROVE  edges[pos] \in EdgesOf(edges)
<1>1. edges \in Seq(EdgesOf(edges))
  BY RouterAssumption DEF RouterTypes
<1>2. pos \in DOMAIN edges
  BY <1>1 DEF RouterTypes
<1>3. QED
  BY <1>2 DEF EdgesOf

\* bestRoundFor finds a round whenever one has reached the token, and no other
\* delivers more.
LEMMA BestRoundReached ==
  ASSUME RouterTypes, NEW t \in Tokens, Reached(t) # {}
  PROVE  /\ BestRound(t) \in Reached(t)
         /\ \A i \in 1..rounds : amount[i][t] <= amount[BestRound(t)][t]
<1> DEFINE R == Reached(t)
           Short(j) == MaxAmount - amount[j][t]
           S == {Short(j) : j \in R}
<1>0. MaxAmount \in Nat /\ MaxHops \in Nat
  BY RouterAssumption
<1>1. \A j \in R : j \in Nat /\ amount[j][t] \in 0..MaxAmount
  BY <1>0 DEF RouterTypes, Reached, Amount
<1>2. \A j \in R : j \in Nat /\ amount[j][t] \in Int /\ Short(j) \in Nat
  BY <1>0, <1>1
<1>3. R # {}
  OBVIOUS
<1> HIDE DEF R
<1>4. S \subseteq Nat /\ S # {}
  BY <1>2, <1>3
<1>5. PICK m \in S : \A y \in S : m <= y
  <2> HIDE DEF S
  <2> QED BY <1>4, Least
<1> DEFINE B == {j \in R : Short(j) = m}
<1>6. B \subseteq Nat /\ B # {}
  BY <1>2, <1>5
<1>7. PICK b \in B : \A y \in B : b <= y
  <2> HIDE DEF B
  <2> QED BY <1>6, Least
<1>8. b \in R /\ Short(b) = m
  BY <1>7
<1>9. ASSUME NEW i \in R
      PROVE  amount[i][t] < amount[b][t] \/ (amount[i][t] = amount[b][t] /\ b <= i)
  <2>1. m <= Short(i)
    BY <1>5, <1>9
  <2>2. Short(i) = m => b <= i
    BY <1>7, <1>9
  <2>3. QED
    BY <2>1, <2>2, <1>0, <1>2, <1>8
<1> DEFINE best == BestRound(t)
<1>10. /\ best \in R
       /\ \A i \in R : \/ amount[i][t] < amount[best][t]
                       \/ amount[i][t] = amount[best][t] /\ best <= i
  BY <1>8, <1>9 DEF BestRound, R
<1> HIDE DEF best
<1>11. ASSUME NEW i \in 1..rounds PROVE amount[i][t] <= amount[best][t]
  <2>1. amount[best][t] \in Nat /\ amount[i][t] \in Nat
    BY <1>0, <1>1, <1>10, SMTT(30) DEF RouterTypes, Amount
  <2>2. CASE i \in R
    BY <1>10, <2>1, <2>2
  <2>3. CASE i \notin R
    BY <2>1, <2>3 DEF R, Reached
  <2>4. QED
    BY <2>2, <2>3
<1>12. QED
  BY <1>10, <1>11 DEF R, best

\* The hops that reconstruct reads off the table run from the source to the token, at
\* the amounts of the table.
LEMMA HopsExecute ==
  ASSUME SearchInv, NEW j \in 1..MaxHops, NEW t \in Tokens, amount[j][t] > 0
  PROVE  /\ Executes(Hops(j, t), src, t, amountIn, amount[j][t])
         /\ mode = "simplePaths" => VisitsOnce(Hops(j, t))
<1> DEFINE w == CHOOSE v \in Paths(j, t) : TRUE
           hops == [i \in 1..j |-> [pool |-> from[i][w[i]].pool,
                                    from |-> w[i - 1], to |-> w[i],
                                    in |-> amount[i - 1][w[i - 1]], out |-> amount[i][w[i]]]]
<1>0. j \in Nat /\ j >= 1 /\ j <= MaxHops /\ MaxHops \in Nat
  BY RouterAssumption
<1>1. w \in Paths(j, t) /\ GoodPath(w, j)
  BY <1>0 DEF SearchInv, GoodPaths
<1>2. Hops(j, t) = hops
  BY DEF Hops
<1>3. /\ w \in [0..j -> Tokens] /\ w[j] = t /\ w[0] = src
      /\ \A i \in 1..j : w[i - 1] = from[i][w[i]].from
      /\ \A i \in 0..j : amount[i][w[i]] > 0
      /\ mode = "simplePaths" => \A a, b \in 0..j : w[a] = w[b] => a = b
  BY <1>1 DEF Paths, GoodPath
<1> HIDE DEF w
<1>4. DOMAIN hops = 1..j /\ Len(hops) = j
  BY <1>0
<1>5. ASSUME NEW i \in 1..j
      PROVE  amount[i][w[i]] = AmountOut(from[i][w[i]].pool, w[i - 1], amount[i - 1][w[i - 1]])
  <2>1. i \in 1..MaxHops /\ i \in 0..j /\ w[i] \in Tokens
    BY <1>0, <1>3
  <2>2. QED
    BY <2>1, <1>3 DEF SearchInv, TableIsExecutable
<1>6. amount[0][src] = amountIn
  BY DEF SearchInv, StartRow, RouterTypes
<1>7. Executes(hops, src, t, amountIn, amount[j][t])
  <2>1. hops[1].from = src /\ hops[1].in = amountIn
    BY <1>0, <1>3, <1>6
  <2>2. hops[j].to = t /\ hops[j].out = amount[j][t]
    BY <1>0, <1>3
  <2>3. ASSUME NEW i \in 1..j
        PROVE  /\ hops[i].out = AmountOut(hops[i].pool, hops[i].from, hops[i].in)
               /\ i > 1 => hops[i].from = hops[i - 1].to /\ hops[i].in = hops[i - 1].out
    BY <1>0, <1>5
  <2>4. QED
    BY <1>0, <1>4, <2>1, <2>2, <2>3 DEF Executes
<1>8. ASSUME mode = "simplePaths" PROVE VisitsOnce(hops)
  <2>1. ASSUME NEW i \in 1..j, NEW h \in 1..j
        PROVE  /\ hops[i].from = hops[h].from => i = h
               /\ hops[i].from # hops[h].to \/ i = h + 1
    <3>1. i - 1 \in 0..j /\ h - 1 \in 0..j /\ h \in 0..j
      BY <1>0
    <3>2. w[i - 1] = w[h - 1] => i - 1 = h - 1
      BY <1>3, <1>8, <3>1
    <3>3. w[i - 1] = w[h] => i - 1 = h
      BY <1>3, <1>8, <3>1
    <3>4. QED
      BY <3>2, <3>3
  <2>2. QED
    BY <2>1, <1>4 DEF VisitsOnce
<1>9. QED
  BY <1>2, <1>7, <1>8

\* A fresh table satisfies everything the search keeps true.
LEMMA FreshTable ==
  ASSUME NEW s \in Tokens, NEW a \in Amount,
         RouterTypes', src' = s, amountIn' = a,
         amount' = EmptyTable(s, a)
  PROVE  SearchInv'
<1>0. MaxHops \in Nat /\ MaxAmount \in Nat
  BY RouterAssumption
<1>1. \A j \in 0..MaxHops : \A t \in Tokens :
        amount'[j][t] = IF j = 0 /\ t = s THEN a ELSE 0
  BY <1>0 DEF EmptyTable
<1>2. StartRow' /\ LaterRowsEmpty' /\ TableIsExecutable'
  BY <1>0, <1>1 DEF StartRow, LaterRowsEmpty, TableIsExecutable
<1>3. GoodPaths'
  <2>1. SUFFICES ASSUME NEW j \in 0..MaxHops, NEW t \in Tokens, amount'[j][t] > 0
                 PROVE  /\ Paths(j, t)' # {}
                        /\ \A w \in Paths(j, t)' : GoodPath(w, j)'
    BY DEF GoodPaths
  <2>2. j = 0 /\ t = s
    BY <2>1, <1>1
  <2>3. [i \in 0..0 |-> s] \in Paths(j, t)'
    BY <2>2 DEF Paths
  <2>4. ASSUME NEW w \in Paths(j, t)' PROVE GoodPath(w, j)'
    <3>1. w[0] = s
      BY <2>2 DEF Paths
    <3>2. \A i \in 0..j : i = 0
      BY <2>2
    <3>3. QED
      BY <2>1, <2>2, <3>1, <3>2 DEF GoodPath
  <2>5. QED
    BY <2>3, <2>4
<1>4. QED
  BY <1>2, <1>3 DEF SearchInv

\* Whichever way the loops of relax advance, they stay inside the list of edges.
LEMMA AdvanceTypes ==
  ASSUME RouterTypes, pc = "relax", Advance
  PROVE  /\ k' \in Nat \ {0} /\ pos' \in Nat \ {0}
         /\ k' \in {k, k + 1} /\ pos' <= Len(edges)
<1>1. Len(edges) \in Nat
  BY RouterAssumption DEF RouterTypes
<1>2. k \in Nat \ {0} /\ pos \in Nat \ {0} /\ pos <= Len(edges)
  BY DEF RouterTypes
<1>3. QED
  BY <1>1, <1>2 DEF Advance

\* An edge that is taken changes one entry of the row under way, and the entry is what
\* the edge pays for one of the row before: rows that are done are not touched.
LEMMA TakesEntry ==
  ASSUME SearchInv, RelaxTakes
  PROVE  LET e == edges[pos]
         IN  /\ e \in EdgesOf(edges) /\ e.from \in Tokens /\ e.to \in Tokens /\ e # NoEdge
             /\ k \in 1..MaxHops /\ k - 1 \in 0..MaxHops
             /\ amount[k - 1][e.from] > 0
             /\ Offered(e) \in Amount /\ Offered(e) > 0
             /\ MayVisit(k - 1, e.from, e.to)
             /\ amount' \in [0..MaxHops -> [Tokens -> Amount]]
             /\ from' \in [1..MaxHops -> [Tokens -> EdgesOf(edges) \cup {NoEdge}]]
             /\ amount'[k][e.to] = Offered(e) /\ from'[k][e.to] = e
             /\ \A j \in 0..MaxHops : \A t \in Tokens :
                  j # k \/ t # e.to => amount'[j][t] = amount[j][t]
             /\ \A j \in 1..MaxHops : \A t \in Tokens :
                  j # k \/ t # e.to => from'[j][t] = from[j][t]
<1> DEFINE e == edges[pos]
<1>0. RouterTypes /\ pc = "relax" /\ k <= rounds
  BY DEF SearchInv, RelaxTakes, RoundsLeft
<1>1. k \in 1..MaxHops /\ k - 1 \in 0..MaxHops
  BY <1>0, RouterAssumption DEF RouterTypes
<1>2. e \in EdgesOf(edges)
  BY <1>0, EdgeHere
<1>3. /\ e.from \in Tokens /\ e.to \in Tokens /\ e # NoEdge
      /\ \A a \in Amount : AmountOut(e.pool, e.from, a) \in Amount
  BY <1>0, <1>2, EdgeFacts
<1>4. /\ Worthwhile(e)
      /\ amount' = [amount EXCEPT ![k][e.to] = Offered(e)]
      /\ from' = [from EXCEPT ![k][e.to] = e]
  BY DEF RelaxTakes
<1> HIDE DEF e
<1>5. Offered(e) \in Amount
  BY <1>0, <1>1, <1>3 DEF Offered, RouterTypes
<1>6. amount[k - 1][e.from] > 0 /\ Offered(e) > 0 /\ MayVisit(k - 1, e.from, e.to)
  BY <1>4 DEF Worthwhile
<1>7. /\ amount' \in [0..MaxHops -> [Tokens -> Amount]]
      /\ amount'[k][e.to] = Offered(e)
      /\ \A j \in 0..MaxHops : \A t \in Tokens :
           j # k \/ t # e.to => amount'[j][t] = amount[j][t]
  <2>1. amount \in [0..MaxHops -> [Tokens -> Amount]] /\ k \in 0..MaxHops
    BY <1>0, <1>1 DEF RouterTypes
  <2>2. QED
    BY <2>1, <1>3, <1>4, <1>5
<1>8. /\ from' \in [1..MaxHops -> [Tokens -> EdgesOf(edges) \cup {NoEdge}]]
      /\ from'[k][e.to] = e
      /\ \A j \in 1..MaxHops : \A t \in Tokens :
           j # k \/ t # e.to => from'[j][t] = from[j][t]
  <2>1. from \in [1..MaxHops -> [Tokens -> EdgesOf(edges) \cup {NoEdge}]]
    BY <1>0 DEF RouterTypes
  <2>2. QED
    BY <2>1, <1>1, <1>2, <1>3, <1>4
<1>9. QED
  BY <1>1, <1>2, <1>3, <1>5, <1>6, <1>7, <1>8 DEF e

\* Taking an edge keeps the invariant of the search.
LEMMA TakesKeeps ==
  ASSUME SearchInv, RelaxTakes
  PROVE  SearchInv'
<1> DEFINE e == edges[pos]
<1>0. RouterTypes /\ pc = "relax" /\ MaxHops \in Nat /\ MaxAmount \in Nat
  BY RouterAssumption DEF SearchInv, RelaxTakes
<1>1. /\ e \in EdgesOf(edges) /\ e.from \in Tokens /\ e.to \in Tokens /\ e # NoEdge
      /\ k \in 1..MaxHops /\ k - 1 \in 0..MaxHops
      /\ amount[k - 1][e.from] > 0
      /\ Offered(e) \in Amount /\ Offered(e) > 0
      /\ MayVisit(k - 1, e.from, e.to)
      /\ amount' \in [0..MaxHops -> [Tokens -> Amount]]
      /\ from' \in [1..MaxHops -> [Tokens -> EdgesOf(edges) \cup {NoEdge}]]
      /\ amount'[k][e.to] = Offered(e) /\ from'[k][e.to] = e
  BY TakesEntry
<1>2. /\ \A j \in 0..MaxHops : \A t \in Tokens :
           j # k \/ t # e.to => amount'[j][t] = amount[j][t]
      /\ \A j \in 1..MaxHops : \A t \in Tokens :
           j # k \/ t # e.to => from'[j][t] = from[j][t]
  BY TakesEntry
<1>3. /\ UNCHANGED <<edges, pc, mode, src, dst, amountIn, rounds, todo, found, result>>
      /\ Advance
  BY DEF RelaxTakes, request
<1>4. /\ k' \in Nat \ {0} /\ pos' \in Nat \ {0}
      /\ k' \in {k, k + 1} /\ pos' <= Len(edges)
  BY <1>0, <1>3, AdvanceTypes
<1> HIDE DEF e
<1>5. RouterTypes'
  BY <1>0, <1>1, <1>3, <1>4 DEF RouterTypes
<1>6. StartRow'
  BY <1>0, <1>1, <1>2, <1>3 DEF SearchInv, StartRow
<1>7. LaterRowsEmpty'
  <2>1. SUFFICES ASSUME NEW j \in 1..MaxHops, j > k', NEW t \in Tokens
                 PROVE  amount'[j][t] = 0
    BY DEF LaterRowsEmpty
  <2>2. j > k /\ j # k /\ j \in 0..MaxHops
    BY <2>1, <1>0, <1>1, <1>4
  <2>3. QED
    BY <2>2, <1>2 DEF SearchInv, LaterRowsEmpty
<1>8. TableIsExecutable'
  <2>1. SUFFICES ASSUME NEW j \in 1..MaxHops, NEW t \in Tokens, amount'[j][t] > 0
                 PROVE  LET f == from'[j][t]
                        IN  /\ f \in EdgesOf(edges) /\ f.to = t
                            /\ amount'[j - 1][f.from] > 0
                            /\ amount'[j][t] = AmountOut(f.pool, f.from, amount'[j - 1][f.from])
    BY <1>3 DEF TableIsExecutable
  <2>2. CASE j = k /\ t = e.to
    <3>1. amount'[k - 1][e.from] = amount[k - 1][e.from]
      BY <1>1, <1>2
    <3>2. QED
      BY <2>2, <3>1, <1>1 DEF Offered
  <2>3. CASE j # k \/ t # e.to
    <3>1. amount'[j][t] = amount[j][t] /\ from'[j][t] = from[j][t] /\ j \in 0..MaxHops
      BY <2>3, <1>2, <1>0
    <3>2. j <= k
      BY <2>1, <3>1, <1>1 DEF SearchInv, LaterRowsEmpty
    <3>3. LET f == from[j][t]
          IN  /\ f \in EdgesOf(edges) /\ f.to = t
              /\ amount[j - 1][f.from] > 0
              /\ amount[j][t] = AmountOut(f.pool, f.from, amount[j - 1][f.from])
      BY <2>1, <3>1 DEF SearchInv, TableIsExecutable
    <3>4. from[j][t].from \in Tokens
      BY <3>3, <1>0, EdgeFacts
    <3>5. amount'[j - 1][from[j][t].from] = amount[j - 1][from[j][t].from]
      BY <3>2, <3>4, <1>0, <1>1, <1>2
    <3>6. QED
      BY <3>1, <3>3, <3>5
  <2>4. QED
    BY <2>2, <2>3
<1>9. GoodPaths'
  <2>1. SUFFICES ASSUME NEW j \in 0..MaxHops, NEW t \in Tokens, amount'[j][t] > 0
                 PROVE  /\ Paths(j, t)' # {}
                        /\ \A w \in Paths(j, t)' : GoodPath(w, j)'
    BY DEF GoodPaths
  <2>2. CASE j # k \/ t # e.to
    <3>1. amount[j][t] > 0
      BY <2>1, <2>2, <1>2
    <3>2. j <= k
      <4>1. j = 0 \/ j \in 1..MaxHops
        BY <1>0
      <4>2. QED
        BY <3>1, <4>1, <1>0, <1>1 DEF SearchInv, LaterRowsEmpty
    <3>3. ASSUME NEW w \in [0..j -> Tokens], w[j] = t
          PROVE  /\ \A i \in 1..j : from'[i][w[i]] = from[i][w[i]]
                 /\ \A i \in 0..j : amount'[i][w[i]] = amount[i][w[i]]
      <4>1. \A i \in 0..j : w[i] \in Tokens /\ i \in 0..MaxHops /\ (i # k \/ w[i] # e.to)
        BY <2>2, <3>2, <3>3, <1>0, <1>1
      <4>2. \A i \in 1..j : i \in 0..j /\ i \in 1..MaxHops
        BY <1>0
      <4>3. QED
        BY <4>1, <4>2, <1>2
    <3>4. Paths(j, t)' = Paths(j, t)
      <4>1. ASSUME NEW w \in [0..j -> Tokens], w[j] = t
            PROVE  w \in Paths(j, t)' <=> w \in Paths(j, t)
        BY <3>3, <4>1 DEF Paths
      <4>2. /\ \A w \in Paths(j, t) : w \in [0..j -> Tokens] /\ w[j] = t
            /\ \A w \in Paths(j, t)' : w \in [0..j -> Tokens] /\ w[j] = t
        BY DEF Paths
      <4>3. QED
        BY <4>1, <4>2
    <3>5. /\ Paths(j, t) # {}
          /\ \A w \in Paths(j, t) : GoodPath(w, j)
      BY <3>1 DEF SearchInv, GoodPaths
    <3>6. ASSUME NEW w \in Paths(j, t) PROVE GoodPath(w, j)'
      <4>1. w \in [0..j -> Tokens] /\ w[j] = t
        BY DEF Paths
      <4>2. \A i \in 0..j : amount'[i][w[i]] = amount[i][w[i]]
        BY <3>3, <4>1
      <4>3. GoodPath(w, j)
        BY <3>5
      <4>4. QED
        BY <4>2, <4>3, <1>3 DEF GoodPath
    <3>7. QED
      BY <3>4, <3>5, <3>6
  <2>3. CASE j = k /\ t = e.to
    <3>1. /\ Paths(k - 1, e.from) # {}
          /\ \A v \in Paths(k - 1, e.from) : GoodPath(v, k - 1)
      BY <1>1 DEF SearchInv, GoodPaths
    <3>2. Paths(j, t)' # {}
      <4>1. PICK v \in Paths(k - 1, e.from) : TRUE
        BY <3>1
      <4>2. /\ v \in [0..(k - 1) -> Tokens] /\ v[k - 1] = e.from
            /\ \A i \in 1..(k - 1) : from[i][v[i]] # NoEdge /\ v[i - 1] = from[i][v[i]].from
        BY <4>1 DEF Paths
      <4> DEFINE w == [i \in 0..k |-> IF i = k THEN e.to ELSE v[i]]
      <4>3. w \in [0..k -> Tokens] /\ w[k] = e.to /\ \A i \in 0..(k - 1) : w[i] = v[i]
        BY <4>2, <1>1
      <4> HIDE DEF w
      <4>4. ASSUME NEW i \in 1..k
            PROVE  from'[i][w[i]] # NoEdge /\ w[i - 1] = from'[i][w[i]].from
        <5>1. CASE i = k
          BY <5>1, <4>2, <4>3, <1>1
        <5>2. CASE i # k
          <6>1. i \in 1..(k - 1) /\ i \in 0..(k - 1) /\ i - 1 \in 0..(k - 1) /\ i \in 1..MaxHops
            BY <5>2, <1>0, <1>1
          <6>2. from'[i][w[i]] = from[i][v[i]]
            BY <5>2, <6>1, <4>2, <4>3, <1>2
          <6>3. QED
            BY <6>1, <6>2, <4>2, <4>3
        <5>3. QED
          BY <5>1, <5>2
      <4>5. w \in Paths(j, t)'
        BY <2>3, <4>3, <4>4 DEF Paths
      <4>6. QED
        BY <4>5
    <3>3. ASSUME NEW w \in Paths(j, t)' PROVE GoodPath(w, j)'
      <4>1. /\ w \in [0..k -> Tokens] /\ w[k] = e.to
            /\ \A i \in 1..k : from'[i][w[i]] # NoEdge /\ w[i - 1] = from'[i][w[i]].from
        BY <2>3 DEF Paths
      <4> DEFINE v == [i \in 0..(k - 1) |-> w[i]]
      <4>2. v \in [0..(k - 1) -> Tokens] /\ \A i \in 0..(k - 1) : v[i] = w[i]
        BY <4>1, <1>1
      <4> HIDE DEF v
      <4>3. w[k - 1] = e.from
        BY <4>1, <1>1
      <4>4. v \in Paths(k - 1, e.from)
        <5>1. v[k - 1] = e.from
          BY <4>2, <4>3, <1>1
        <5>2. ASSUME NEW i \in 1..(k - 1)
              PROVE  from[i][v[i]] # NoEdge /\ v[i - 1] = from[i][v[i]].from
          <6>1. i \in 1..k /\ i \in 0..(k - 1) /\ i - 1 \in 0..(k - 1) /\ i \in 1..MaxHops /\ i # k
            BY <1>0, <1>1
          <6>2. from'[i][w[i]] = from[i][v[i]]
            BY <6>1, <4>1, <4>2, <1>2
          <6>3. QED
            BY <6>1, <6>2, <4>1, <4>2
        <5>3. QED
          BY <5>1, <5>2, <4>2 DEF Paths
      <4>5. GoodPath(v, k - 1)
        BY <3>1, <4>4
      <4>6. w[0] = src'
        BY <4>2, <4>5, <1>1, <1>3 DEF GoodPath
      <4>7. ASSUME NEW i \in 0..k PROVE amount'[i][w[i]] > 0
        <5>1. CASE i = k
          BY <5>1, <4>1, <1>1
        <5>2. CASE i # k
          <6>1. i \in 0..(k - 1) /\ i \in 0..MaxHops /\ w[i] \in Tokens
            BY <5>2, <4>1, <1>0, <1>1
          <6>2. QED
            BY <5>2, <6>1, <4>2, <4>5, <1>2 DEF GoodPath
        <5>3. QED
          BY <5>1, <5>2
      <4>8. ASSUME mode = "simplePaths" PROVE \A a, b \in 0..k : w[a] = w[b] => a = b
        <5>1. \A a, b \in 0..(k - 1) : w[a] = w[b] => a = b
          BY <4>2, <4>5, <4>8 DEF GoodPath
        <5>2. \A i \in 0..(k - 1) : w[i] # e.to
          BY <1>1, <4>2, <4>4, <4>8 DEF MayVisit
        <5>3. \A i \in 0..k : i = k \/ i \in 0..(k - 1)
          BY <1>1
        <5>4. QED
          BY <5>1, <5>2, <5>3, <4>1
      <4>9. QED
        BY <2>3, <4>6, <4>7, <4>8, <1>3 DEF GoodPath
    <3>4. QED
      BY <2>3, <3>2, <3>3
  <2>4. QED
    BY <2>2, <2>3
<1>10. QED
  BY <1>5, <1>6, <1>7, <1>8, <1>9 DEF SearchInv

\* A step that leaves the table alone keeps the invariant of the search.
LEMMA TableKept ==
  ASSUME SearchInv, RouterTypes',
         UNCHANGED <<edges, src, amountIn, amount, from>>,
         k' >= k, mode' \in {mode, "closedLoops"}
  PROVE  SearchInv'
<1>1. StartRow' /\ TableIsExecutable'
  BY DEF SearchInv, StartRow, TableIsExecutable
<1>2. LaterRowsEmpty'
  <2>1. k \in Nat /\ k' \in Nat /\ MaxHops \in Nat
    BY RouterAssumption DEF SearchInv, RouterTypes
  <2>2. \A j \in 1..MaxHops : j > k' => j > k
    BY <2>1
  <2>3. QED
    BY <2>2 DEF SearchInv, LaterRowsEmpty
<1>3. GoodPaths'
  <2>1. SUFFICES ASSUME NEW j \in 0..MaxHops, NEW t \in Tokens, amount'[j][t] > 0
                 PROVE  /\ Paths(j, t)' # {}
                        /\ \A w \in Paths(j, t)' : GoodPath(w, j)'
    BY DEF GoodPaths
  <2>2. Paths(j, t)' = Paths(j, t)
    BY DEF Paths
  <2>3. /\ Paths(j, t) # {}
        /\ \A w \in Paths(j, t) : GoodPath(w, j)
    BY <2>1 DEF SearchInv, GoodPaths
  <2>4. ASSUME NEW w \in Paths(j, t) PROVE GoodPath(w, j)'
    <3>1. GoodPath(w, j)
      BY <2>3
    <3>2. mode' = "simplePaths" => mode = "simplePaths"
      OBVIOUS
    <3>3. QED
      BY <3>1, <3>2 DEF GoodPath
  <2>5. QED
    BY <2>2, <2>3, <2>4
<1>4. QED
  BY <1>1, <1>2, <1>3 DEF SearchInv

\* A search that begins has a table and a list of edges to go through.
LEMMA BeginKeeps ==
  ASSUME SearchInv, NEW s \in Tokens, NEW a \in Sizes, a > 0, Indexed(s), Begin(s, a),
         edges' = edges, mode' \in {"simplePaths", "closedLoops"},
         dst' \in Tokens, rounds' \in 0..MaxHops, todo' \subseteq Probe
  PROVE  SearchInv'
<1>1. a \in Amount
  BY RouterAssumption DEF Amount
<1>2. EmptyTable(s, a) \in [0..MaxHops -> [Tokens -> Amount]]
  BY <1>1, RouterAssumption DEF EmptyTable, Amount
<1>3. EmptyFrom \in [1..MaxHops -> [Tokens -> EdgesOf(edges) \cup {NoEdge}]]
  BY DEF EmptyFrom
<1>4. 1 <= Len(edges)
  <2>1. edges \in Seq(EdgesOf(edges))
    BY RouterAssumption DEF SearchInv, RouterTypes
  <2>2. PICK i \in DOMAIN edges : TRUE
    BY DEF Indexed
  <2>3. QED
    BY <2>1, <2>2
<1>5. RouterTypes'
  BY <1>1, <1>2, <1>3, <1>4 DEF SearchInv, RouterTypes, Begin
<1>6. QED
  BY <1>1, <1>5, FreshTable DEF Begin

\* The table is clean when no search is under way.
LEMMA CleanTable ==
  ASSUME edges' \in Graphs, pc' = "idle", mode' = "simplePaths",
         src' = AnyToken, dst' = AnyToken, amountIn' = 0, rounds' = 0,
         amount' = EmptyTable(AnyToken, 0), from' = EmptyFrom,
         k' = 1, pos' = 1, todo' = {}
  PROVE  SearchInv'
<1>1. AnyToken \in Tokens /\ 0 \in Amount /\ 0 \in 0..MaxHops
  BY RouterAssumption DEF AnyToken, Amount
<1>2. EmptyTable(AnyToken, 0) \in [0..MaxHops -> [Tokens -> Amount]]
  BY <1>1 DEF EmptyTable
<1>3. EmptyFrom \in [1..MaxHops -> [Tokens -> EdgesOf(edges') \cup {NoEdge}]]
  BY DEF EmptyFrom
<1>4. RouterTypes'
  BY <1>1, <1>2, <1>3 DEF RouterTypes
<1>5. QED
  BY <1>1, <1>4, FreshTable

\* An answer other than a route or a list of cycles says nothing about either.
LEMMA OtherAnswer ==
  ASSUME result' = Nothing \/ (pc' = "idle" /\ result'.kind \notin {"route", "cycles"})
  PROVE  AnswerStands'
  BY DEF AnswerStands, RouteExecutes, CyclesGain, ReportedOnce, Nothing

\* A list of cycles that were found, each of them once, is a good answer.
LEMMA CyclesAnswer ==
  ASSUME FoundExecute, FoundOnce, NEW cycles \in SetToSeqs(found), pc' = "idle",
         result' = [kind |-> "cycles", cycles |-> cycles]
  PROVE  AnswerStands'
<1>1. /\ \A i \in DOMAIN cycles : cycles[i] \in found
      /\ \A i, j \in DOMAIN cycles : cycles[i] = cycles[j] => i = j
  BY DEF SetToSeqs
<1>2. result'.kind = "cycles" /\ result'.cycles = cycles
  OBVIOUS
<1>3. CyclesGain'
  <2>1. ASSUME NEW i \in DOMAIN cycles
        PROVE  LET c == cycles[i]
                   start == c.hops[1].from
               IN  Executes(c.hops, start, start, c.in, c.out) /\ c.out > c.in
    BY <1>1 DEF FoundExecute
  <2>2. QED
    BY <1>2, <2>1 DEF CyclesGain, Executes
<1>4. ReportedOnce'
  <2>1. \A i, j \in DOMAIN cycles : CycleKey(cycles[i]) = CycleKey(cycles[j]) => i = j
    BY <1>1 DEF FoundOnce
  <2>2. QED
    BY <1>2, <2>1 DEF ReportedOnce
<1>5. RouteExecutes'
  BY <1>2 DEF RouteExecutes
<1>6. QED
  BY <1>3, <1>4, <1>5 DEF AnswerStands

\* What Ask may do.
LEMMA AskKeeps ==
  ASSUME RouterInv, Ask
  PROVE  RouterInv'
<1>0. MaxHops \in Nat
  BY RouterAssumption
<1>1. ASSUME NEW s \in Tokens, NEW t \in Tokens, NEW a \in Sizes, NEW h \in 0..MaxHops,
             AskRoute(s, t, a, h)
      PROVE  RouterInv'
  <2>1. SearchInv'
    <3>1. /\ a > 0 /\ Indexed(s) /\ Begin(s, a) /\ edges' = edges
          /\ mode' = "simplePaths" /\ dst' = t /\ rounds' = h /\ todo' = todo
      BY <1>1 DEF AskRoute
    <3>2. QED
      BY <3>1, BeginKeeps DEF RouterInv, SearchInv, RouterTypes
  <2>2. found' = found /\ result' = Nothing
    BY <1>1 DEF AskRoute, Idle
  <2>3. QED
    BY <2>1, <2>2, OtherAnswer DEF RouterInv, FoundExecute, FoundOnce
<1>2. ASSUME NEW s \in Tokens, NEW t \in Tokens, NEW a \in Sizes, NEW h \in 0..MaxHops,
             RefuseRoute(s, t, a, h)
      PROVE  RouterInv'
  <2>1. /\ UNCHANGED <<edges, pc, mode, src, dst, amountIn, rounds>>
        /\ UNCHANGED <<amount, from, k, pos, todo, found>>
        /\ pc = "idle"
    BY <1>2 DEF RefuseRoute, request, table, Idle
  <2>2. result'.kind \notin {"route", "cycles"}
    <3>1. \/ result' = [kind |-> "bad-request"]
          \/ result' = [kind |-> "unknown-token"]
      BY <1>2 DEF RefuseRoute
    <3>2. result'.kind = "bad-request" \/ result'.kind = "unknown-token"
      BY <3>1
    <3>3. QED
      BY <3>2
  <2>3. RouterTypes' /\ k \in Nat
    BY <2>1 DEF RouterInv, SearchInv, RouterTypes
  <2>4. SearchInv'
    BY <2>1, <2>3, TableKept DEF RouterInv
  <2>5. QED
    BY <2>1, <2>2, <2>4, OtherAnswer DEF RouterInv, FoundExecute, FoundOnce
<1>3. ASSUME NEW P \in ProbeSets, NEW h \in 1..MaxHops, AskArbitrage(P, h)
      PROVE  RouterInv'
  <2>1. /\ UNCHANGED <<edges, src, dst, amountIn, amount, from, k, pos, found>>
        /\ mode' = "closedLoops" /\ rounds' = h /\ pc = "idle" /\ result = Nothing
        /\ pc' \in {"idle", "probe"} /\ todo' \in {todo, P}
    BY <1>3 DEF AskArbitrage, table, Idle
  <2>2. AnswerStands'
    <3>1. CASE P = {} \/ h < 2
      <4>1. result' = [kind |-> "cycles", cycles |-> <<>>] /\ pc' = "idle"
        BY <1>3, <2>1, <3>1 DEF AskArbitrage
      <4>2. DOMAIN result'.cycles = {} /\ result'.kind = "cycles"
        BY <4>1
      <4>3. QED
        BY <4>1, <4>2 DEF AnswerStands, RouteExecutes, CyclesGain, ReportedOnce
    <3>2. CASE ~(P = {} \/ h < 2)
      BY <1>3, <2>1, <3>2, OtherAnswer DEF AskArbitrage
    <3>3. QED
      BY <3>1, <3>2
  <2>3. P \subseteq Probe
    BY RouterAssumption
  <2>4. RouterTypes' /\ k \in Nat
    BY <1>0, <2>1, <2>3 DEF RouterInv, SearchInv, RouterTypes
  <2>5. SearchInv'
    BY <2>1, <2>4, TableKept DEF RouterInv
  <2>6. QED
    BY <2>1, <2>2, <2>5 DEF RouterInv, FoundExecute, FoundOnce
<1>4. QED
  BY <1>1, <1>2, <1>3 DEF Ask

\* Every step keeps the invariant.
LEMMA RouterStep == RouterInv /\ [Next]_vars => RouterInv'
<1>1. SUFFICES ASSUME RouterInv, [Next]_vars PROVE RouterInv'
  OBVIOUS
<1>2. CASE Ask
  BY <1>1, <1>2, AskKeeps
<1>3. CASE RelaxTakes
  <2>1. found' = found /\ result' = Nothing
    BY <1>1, <1>3 DEF RelaxTakes, RouterInv, AnswerStands
  <2>2. QED
    BY <1>1, <1>3, <2>1, TakesKeeps, OtherAnswer DEF RouterInv, FoundExecute, FoundOnce
<1>4. CASE RelaxSkips
  <2>1. /\ UNCHANGED <<edges, pc, mode, src, dst, amountIn, rounds>>
        /\ UNCHANGED <<amount, from, todo, found, result>>
        /\ pc = "relax" /\ Advance
    BY <1>4 DEF RelaxSkips, request
  <2>2. RouterTypes /\ result' = Nothing
    BY <1>1, <2>1 DEF RouterInv, SearchInv, AnswerStands
  <2>3. /\ k' \in Nat \ {0} /\ pos' \in Nat \ {0}
        /\ k' \in {k, k + 1} /\ pos' <= Len(edges)
    BY <2>1, <2>2, AdvanceTypes
  <2>4. RouterTypes' /\ k' >= k
    BY <2>1, <2>2, <2>3 DEF RouterTypes
  <2>5. SearchInv'
    BY <1>1, <2>1, <2>4, TableKept DEF RouterInv
  <2>6. QED
    BY <1>1, <2>1, <2>2, <2>5, OtherAnswer DEF RouterInv, FoundExecute, FoundOnce
<1>5. CASE AnswerRoute
  <2>1. /\ UNCHANGED <<edges, mode, src, dst, amountIn, rounds>>
        /\ UNCHANGED <<amount, from, k, pos, todo, found>>
        /\ pc' = "idle" /\ mode = "simplePaths" /\ Reached(dst) # {}
    BY <1>5 DEF AnswerRoute, request, table
  <2>2. RouterTypes' /\ k' >= k
    BY <1>1, <2>1 DEF RouterInv, SearchInv, RouterTypes
  <2>3. SearchInv'
    BY <1>1, <2>1, <2>2, TableKept DEF RouterInv
  <2> DEFINE j == BestRound(dst)
  <2>4. j \in Reached(dst) /\ dst \in Tokens
    BY <1>1, <2>1, BestRoundReached DEF RouterInv, SearchInv, RouterTypes
  <2>5. j \in 1..MaxHops /\ amount[j][dst] > 0
    BY <1>1, <2>4, RouterAssumption DEF Reached, RouterInv, SearchInv, RouterTypes
  <2>6. /\ Executes(Hops(j, dst), src, dst, amountIn, amount[j][dst])
        /\ VisitsOnce(Hops(j, dst))
    BY <1>1, <2>1, <2>4, <2>5, HopsExecute DEF RouterInv
  <2>7. result'.hops = Hops(j, dst) /\ result'.out = amount[j][dst]
    BY <1>5 DEF AnswerRoute
  <2>8. AnswerStands'
    <3>1. result'.kind = "route"
      BY <1>5 DEF AnswerRoute
    <3>2. CyclesGain' /\ ReportedOnce'
      BY <3>1 DEF CyclesGain, ReportedOnce
    <3>3. QED
      BY <2>1, <2>6, <2>7, <3>2 DEF AnswerStands, RouteExecutes
  <2>9. QED
    BY <1>1, <2>1, <2>3, <2>8 DEF RouterInv, FoundExecute, FoundOnce
<1>6. CASE AnswerNoRoute \/ AnswerArbitrage
  <2>1. /\ UNCHANGED <<edges, mode, src, dst, amountIn, rounds>>
        /\ UNCHANGED <<amount, from, k, pos, todo>>
        /\ pc' = "idle" /\ found' \subseteq found
    BY <1>6 DEF AnswerNoRoute, AnswerArbitrage, request, table
  <2>2. AnswerStands'
    <3>1. CASE AnswerNoRoute
      <4>1. result'.kind = "no-route"
        BY <3>1 DEF AnswerNoRoute
      <4>2. QED
        BY <2>1, <4>1, OtherAnswer
    <3>2. CASE AnswerArbitrage
      <4>1. PICK cycles \in SetToSeqs(found) :
              result' = [kind |-> "cycles", cycles |-> cycles]
        BY <3>2 DEF AnswerArbitrage
      <4>2. QED
        BY <1>1, <2>1, <4>1, CyclesAnswer DEF RouterInv
    <3>3. QED
      BY <1>6, <3>1, <3>2
  <2>3. RouterTypes' /\ k' >= k
    BY <1>1, <2>1 DEF RouterInv, SearchInv, RouterTypes
  <2>4. SearchInv'
    BY <1>1, <2>1, <2>3, TableKept DEF RouterInv
  <2>5. FoundExecute' /\ FoundOnce'
    BY <1>1, <2>1 DEF RouterInv, FoundExecute, FoundOnce
  <2>6. QED
    BY <2>2, <2>4, <2>5 DEF RouterInv
<1>7. ASSUME NEW p \in todo, ProbeNext(p) PROVE RouterInv'
  <2>1. /\ UNCHANGED <<edges, mode, dst, rounds, found, result>>
        /\ todo' = todo \ {p} /\ pc = "probe"
    BY <1>7 DEF ProbeNext
  <2>2. p.token \in Tokens /\ p.size \in Sizes
    BY <1>1 DEF RouterInv, SearchInv, RouterTypes, Probe
  <2>3. result' = Nothing
    BY <1>1, <2>1 DEF RouterInv, AnswerStands
  <2>4. SearchInv'
    <3>1. CASE p.size > 0 /\ Indexed(p.token)
      <4>1. Begin(p.token, p.size)
        BY <1>7, <3>1 DEF ProbeNext
      <4>2. /\ mode' \in {"simplePaths", "closedLoops"} /\ dst' \in Tokens
            /\ rounds' \in 0..MaxHops /\ todo' \subseteq Probe
        BY <1>1, <2>1 DEF RouterInv, SearchInv, RouterTypes
      <4>3. QED
        BY <1>1, <2>1, <2>2, <3>1, <4>1, <4>2, BeginKeeps DEF RouterInv
    <3>2. CASE ~(p.size > 0 /\ Indexed(p.token))
      <4>1. UNCHANGED <<src, amountIn, amount, from, k, pos, pc>>
        BY <1>7, <3>2 DEF ProbeNext, table
      <4>2. RouterTypes' /\ k' >= k
        BY <1>1, <2>1, <4>1 DEF RouterInv, SearchInv, RouterTypes
      <4>3. QED
        BY <1>1, <2>1, <4>1, <4>2, TableKept DEF RouterInv
    <3>3. QED
      BY <3>1, <3>2
  <2>5. QED
    BY <1>1, <2>1, <2>3, <2>4, OtherAnswer DEF RouterInv, FoundExecute, FoundOnce
<1>8. CASE HarvestCycles
  <2>1. /\ UNCHANGED <<edges, mode, src, dst, amountIn, rounds>>
        /\ UNCHANGED <<amount, from, k, pos, todo, result>>
        /\ pc = "relax" /\ pc' = "probe"
        /\ found' \subseteq found \cup {Cycle(j) : j \in {i \in 2..rounds : Gains(i)}}
        /\ \A c \in found' : c \in found \/ NewCycle(c)
    BY <1>8 DEF HarvestCycles, Searched, request, table
  <2>2. RouterTypes' /\ k' >= k
    BY <1>1, <2>1 DEF RouterInv, SearchInv, RouterTypes
  <2>3. SearchInv'
    BY <1>1, <2>1, <2>2, TableKept DEF RouterInv
  <2>4. result' = Nothing
    BY <1>1, <2>1 DEF RouterInv, AnswerStands
  <2>5. ASSUME NEW j \in 2..rounds, Gains(j)
        PROVE  LET c == Cycle(j)
               IN  /\ Executes(c.hops, c.hops[1].from, c.hops[1].from, c.in, c.out)
                   /\ c.out > c.in
    <3>1. src \in Tokens /\ j \in 1..MaxHops /\ amountIn \in Amount
      BY <1>1, RouterAssumption DEF RouterInv, SearchInv, RouterTypes
    <3>2. amount[j][src] \in Amount /\ amount[j][src] > amountIn
      BY <1>1, <2>5, <3>1 DEF Gains, RouterInv, SearchInv, RouterTypes
    <3>3. amount[j][src] > 0
      BY <3>1, <3>2, RouterAssumption DEF Amount
    <3>4. Executes(Hops(j, src), src, src, amountIn, amount[j][src])
      BY <1>1, <3>1, <3>3, HopsExecute DEF RouterInv
    <3>5. Hops(j, src)[1].from = src
      BY <3>4 DEF Executes
    <3>6. /\ Cycle(j).hops = Hops(j, src)
          /\ Cycle(j).in = amountIn /\ Cycle(j).out = amount[j][src]
      BY DEF Cycle
    <3>7. QED
      BY <3>2, <3>4, <3>5, <3>6
  <2>6. FoundExecute'
    BY <1>1, <2>1, <2>5 DEF RouterInv, FoundExecute
  <2>7. FoundOnce'
    <3>1. SUFFICES ASSUME NEW c \in found', NEW d \in found', CycleKey(c) = CycleKey(d)
                   PROVE  c = d
      BY DEF FoundOnce
    <3>2. CASE c \in found \/ d \in found
      BY <1>1, <2>1, <3>1, <3>2 DEF NewCycle, RouterInv, FoundOnce
    <3>3. CASE c \notin found /\ d \notin found
      <4>1. PICK i \in 2..rounds : c = Cycle(i)
        BY <2>1, <3>3
      <4>2. PICK j \in 2..rounds : d = Cycle(j)
        BY <2>1, <3>3
      <4>3. DOMAIN c.pools = 1..i /\ DOMAIN d.pools = 1..j
        BY <4>1, <4>2 DEF Cycle
      <4>4. DOMAIN CycleKey(c) = 1..i /\ DOMAIN CycleKey(d) = 1..j
        BY <4>3 DEF CycleKey
      <4>5. i \in 1..j /\ j \in 1..i
        BY <3>1, <4>4
      <4>6. i = j
        BY <4>5
      <4>7. QED
        BY <4>1, <4>2, <4>6
    <3>4. QED
      BY <3>2, <3>3
  <2>8. QED
    BY <2>3, <2>4, <2>6, <2>7, OtherAnswer DEF RouterInv
<1>9. CASE Return
  <2>1. SearchInv'
    BY <1>1, <1>9, CleanTable DEF Return, RouterInv, SearchInv, RouterTypes
  <2>2. found' = {} /\ result' = Nothing
    BY <1>9 DEF Return
  <2>3. QED
    BY <2>1, <2>2, OtherAnswer DEF RouterInv, FoundExecute, FoundOnce
<1>10. CASE UNCHANGED vars
  <2>1. /\ UNCHANGED <<edges, pc, mode, src, dst, amountIn, rounds>>
        /\ UNCHANGED <<amount, from, k, pos, todo, found, result>>
    BY <1>10 DEF vars, request, table
  <2>2. RouterTypes' /\ k' >= k
    BY <1>1, <2>1 DEF RouterInv, SearchInv, RouterTypes
  <2>3. SearchInv'
    BY <1>1, <2>1, <2>2, TableKept DEF RouterInv
  <2>4. QED
    BY <1>1, <2>1, <2>3 DEF RouterInv, FoundExecute, FoundOnce, AnswerStands, RouteExecutes, CyclesGain, ReportedOnce
<1>11. QED
  BY <1>1, <1>2, <1>3, <1>4, <1>5, <1>6, <1>7, <1>8, <1>9, <1>10 DEF Next

----------------------------------------------------------------------------
(* The theorems.                                                           *)

\* The inductive invariant of the two searches (router.go:50-263, arbitrage.go:47-138).
THEOREM RouterInvariant == Spec => []RouterInv
<1>1. Init => RouterInv
  <2>1. SUFFICES ASSUME Init PROVE RouterInv
    OBVIOUS
  <2>2. AnyToken \in Tokens /\ 0 \in Amount /\ 0 \in 0..MaxHops /\ MaxHops \in Nat
    BY RouterAssumption DEF AnyToken, Amount
  <2>3. EmptyTable(AnyToken, 0) \in [0..MaxHops -> [Tokens -> Amount]]
    BY <2>2 DEF EmptyTable
  <2>4. EmptyFrom \in [1..MaxHops -> [Tokens -> EdgesOf(edges) \cup {NoEdge}]]
    BY DEF EmptyFrom
  <2>5. RouterTypes
    BY <2>1, <2>2, <2>3, <2>4 DEF Init, RouterTypes
  <2>6. \A j \in 0..MaxHops : \A t \in Tokens : amount[j][t] = 0
    BY <2>1, <2>2 DEF Init, EmptyTable
  <2>7. StartRow /\ LaterRowsEmpty /\ TableIsExecutable /\ GoodPaths
    BY <2>1, <2>2, <2>6 DEF Init, StartRow, LaterRowsEmpty, TableIsExecutable, GoodPaths
  <2>8. FoundExecute /\ FoundOnce /\ AnswerStands
    BY <2>1 DEF Init, FoundExecute, FoundOnce, AnswerStands, RouteExecutes, CyclesGain,
                ReportedOnce, Nothing
  <2>9. QED
    BY <2>5, <2>7, <2>8 DEF RouterInv, SearchInv
<1>2. QED
  BY <1>1, RouterStep, PTL DEF Spec

\* Every entry of the table is what a swap of the entry it came from pays
\* (router.go:226-263), for every graph, hop limit and kind of pool.
THEOREM TableAlwaysExecutable == Spec => []TableIsExecutable
<1>1. RouterInv => TableIsExecutable
  BY DEF RouterInv, SearchInv
<1>2. QED
  BY <1>1, RouterInvariant, PTL

\* Every route FindBestRoute returns is a simple path that executes at the quoted
\* amounts (router.go:50-125), for every graph, hop limit and kind of pool.
THEOREM RoutesAlwaysExecute == Spec => []RouteExecutes
<1>1. RouterInv => RouteExecutes
  BY DEF RouterInv, AnswerStands
<1>2. QED
  BY <1>1, RouterInvariant, PTL

\* Every cycle FindArbitrage reports executes at its amounts and gains
\* (arbitrage.go:66-98), for every graph, hop limit and kind of pool.
THEOREM CyclesAlwaysGain == Spec => []CyclesGain
<1>1. RouterInv => CyclesGain
  BY DEF RouterInv, AnswerStands
<1>2. QED
  BY <1>1, RouterInvariant, PTL

\* No two cycles that FindArbitrage reports are the same pools entered at another token
\* or size (arbitrage.go:74-83), for every graph, hop limit and kind of pool.
THEOREM CyclesNeverRepeat == Spec => []ReportedOnce
<1>1. RouterInv => ReportedOnce
  BY DEF RouterInv, AnswerStands
<1>2. QED
  BY <1>1, RouterInvariant, PTL

----------------------------------------------------------------------------
(* The best of two hops, where pools pay more for more.                    *)

\* The loops of relax have been past edge i of round j.
Past(j, i) == j < k \/ (j = k /\ i < pos)

\* What the edges of the first two rounds offered is in the table, or something better.
BestSoFar ==
  pc = "relax" /\ mode = "simplePaths" =>
    /\ src # dst /\ rounds >= 1
    /\ \A i \in DOMAIN edges :
         /\ Past(1, i) /\ edges[i].from = src
              => Pays(edges[i], amountIn) <= amount[1][edges[i].to]
         /\ Past(2, i) /\ rounds >= 2 /\ edges[i].to = dst
              => Pays(edges[i], amount[1][edges[i].from]) <= amount[2][dst]

\* Only a search for loops goes from token to token.
ProbesLoop == pc = "probe" => mode = "closedLoops"

BestInv == ProbesLoop /\ BestSoFar /\ BestOfTwoHops

\* An edge that has been handled leaves at least what it offered, and no entry
\* shrinks; the row before is left alone.
LEMMA EdgeHandled ==
  ASSUME SearchInv, PaysMoreForMore, RelaxTakes \/ RelaxSkips
  PROVE  LET e == edges[pos]
         IN  /\ \A j \in 0..MaxHops : \A t \in Tokens : amount[j][t] <= amount'[j][t]
             /\ \A j \in 0..MaxHops : j # k => amount'[j] = amount[j]
             /\ (amount[k - 1][e.from] > 0 => MayVisit(k - 1, e.from, e.to))
                  => Pays(e, amount[k - 1][e.from]) <= amount'[k][e.to]
<1> DEFINE e == edges[pos]
<1>0. /\ RouterTypes /\ pc = "relax" /\ k <= rounds
      /\ MaxHops \in Nat /\ MaxAmount \in Nat
  BY RouterAssumption DEF SearchInv, RelaxTakes, RelaxSkips, RoundsLeft
<1>1. k \in 1..MaxHops /\ k \in 0..MaxHops /\ k - 1 \in 0..MaxHops
  BY <1>0 DEF RouterTypes
<1>2. \A j \in 0..MaxHops : \A t \in Tokens : amount[j][t] \in Nat
  BY <1>0 DEF RouterTypes, Amount
<1>3. e \in EdgesOf(edges) /\ e.from \in Tokens /\ e.to \in Tokens
  BY <1>0, EdgeHere, EdgeFacts
<1>4. /\ Offered(e) = Pays(e, amount[k - 1][e.from]) /\ Offered(e) \in Nat
      /\ Pays(e, 0) = 0
  <2>1. \A a \in Amount : AmountOut(e.pool, e.from, a) \in Amount
    BY <1>0, <1>3, EdgeFacts
  <2>2. Offered(e) = Pays(e, amount[k - 1][e.from])
    BY DEF Offered, Pays
  <2>3. Offered(e) \in Amount
    BY <2>1, <1>0, <1>1, <1>3 DEF Offered, RouterTypes
  <2>4. QED
    BY <2>2, <2>3, <1>0, <1>3 DEF Amount, PaysMoreForMore, RouterTypes
<1>5. CASE RelaxTakes
  <2>1. /\ Improves(e)
        /\ amount' = [amount EXCEPT ![k][e.to] = Offered(e)]
    BY <1>5 DEF RelaxTakes, Worthwhile
  <2>2. amount \in [0..MaxHops -> [Tokens -> Amount]]
    BY <1>0 DEF RouterTypes
  <2> HIDE DEF e
  <2>3. amount'[k][e.to] = Offered(e) /\ amount[k][e.to] <= Offered(e)
    BY <2>1, <2>2, <1>1, <1>2, <1>3, <1>4 DEF Improves
  <2>4. \A j \in 0..MaxHops : j # k => amount'[j] = amount[j]
    BY <2>1, <2>2, <1>1
  <2>5. \A j \in 0..MaxHops : \A t \in Tokens :
          j # k \/ t # e.to => amount'[j][t] = amount[j][t]
    BY <2>1, <2>2, <1>1
  <2>6. \A j \in 0..MaxHops : \A t \in Tokens : amount[j][t] <= amount'[j][t]
    BY <2>3, <2>5, <1>2
  <2>7. QED
    BY <2>3, <2>4, <2>6, <1>4 DEF e
<1>6. CASE RelaxSkips
  <2>1. ~Worthwhile(e) /\ amount' = amount
    BY <1>6 DEF RelaxSkips
  <2> HIDE DEF e
  <2>2. ASSUME amount[k - 1][e.from] > 0 => MayVisit(k - 1, e.from, e.to)
        PROVE  Pays(e, amount[k - 1][e.from]) <= amount[k][e.to]
    <3>1. amount[k][e.to] \in Nat /\ amount[k - 1][e.from] \in Nat
      BY <1>1, <1>2, <1>3
    <3>2. \/ amount[k - 1][e.from] = 0
          \/ Offered(e) = 0
          \/ Offered(e) <= amount[k][e.to]
      BY <2>1, <2>2, <3>1, <1>4 DEF Worthwhile, Improves
    <3>3. QED
      BY <3>1, <3>2, <1>4
  <2>3. QED
    BY <2>1, <2>2, <1>2 DEF e
<1>7. QED
  BY <1>5, <1>6

\* In the mode that wants simple paths, the first two hops towards the destination are
\* never refused for a token they have been to.
LEMMA TwoHopsMayVisit ==
  ASSUME SearchInv, mode = "simplePaths", src # dst, NEW e \in EdgesOf(edges)
  PROVE  /\ e.from = src => MayVisit(0, e.from, e.to)
         /\ MaxHops >= 1 /\ amount[1][e.from] > 0 /\ e.to = dst => MayVisit(1, e.from, e.to)
<1>0. MaxHops \in Nat /\ e.from \in Tokens /\ e.to \in Tokens /\ e.from # e.to
  BY RouterAssumption, EdgeFacts DEF SearchInv
<1>1. ASSUME e.from = src PROVE MayVisit(0, e.from, e.to)
  <2>1. \A w \in Paths(0, e.from) : \A i \in 0..0 : w[i] # e.to
    BY <1>0 DEF Paths
  <2>2. QED
    BY <1>0, <1>1, <2>1 DEF MayVisit
<1>2. ASSUME MaxHops >= 1, amount[1][e.from] > 0, e.to = dst
      PROVE  MayVisit(1, e.from, e.to)
  <2>1. ASSUME NEW w \in Paths(1, e.from), NEW i \in 0..1 PROVE w[i] # e.to
    <3>1. 1 \in 0..MaxHops
      BY <1>0, <1>2
    <3>2. GoodPath(w, 1)
      BY <1>0, <1>2, <3>1 DEF SearchInv, GoodPaths
    <3>3. w[0] = src /\ w[1] = e.from
      BY <3>2 DEF GoodPath, Paths
    <3>4. i = 0 \/ i = 1
      OBVIOUS
    <3>5. QED
      BY <1>0, <1>2, <3>3, <3>4
  <2>2. QED
    BY <1>0, <1>2, <2>1 DEF MayVisit
<1>3. QED
  BY <1>1, <1>2

\* Handling an edge keeps what the rounds have achieved.
LEMMA RelaxKeepsBest ==
  ASSUME SearchInv, RouterTypes', PaysMoreForMore, BestSoFar, RelaxTakes \/ RelaxSkips
  PROVE  BestSoFar'
<1>0. /\ RouterTypes /\ pc = "relax" /\ k <= rounds /\ Advance
      /\ UNCHANGED <<edges, mode, src, dst, amountIn, rounds>>
      /\ MaxHops \in Nat /\ MaxAmount \in Nat
  BY RouterAssumption DEF SearchInv, RelaxTakes, RelaxSkips, RoundsLeft, request
<1>1. /\ k \in Nat \ {0} /\ pos \in Nat \ {0} /\ pos <= Len(edges)
      /\ rounds \in 0..MaxHops /\ rounds <= MaxHops /\ rounds \in Nat
      /\ src \in Tokens /\ dst \in Tokens
  BY <1>0 DEF RouterTypes
<1>2. /\ edges \in Seq(EdgesOf(edges)) /\ Len(edges) \in Nat
      /\ DOMAIN edges = 1..Len(edges)
  BY <1>0, RouterAssumption DEF RouterTypes
<1>3. SUFFICES ASSUME mode = "simplePaths", NEW i \in DOMAIN edges
               PROVE  /\ src # dst /\ rounds >= 1
                      /\ Past(1, i)' /\ edges[i].from = src
                           => Pays(edges[i], amountIn) <= amount'[1][edges[i].to]
                      /\ Past(2, i)' /\ rounds >= 2 /\ edges[i].to = dst
                           => Pays(edges[i], amount'[1][edges[i].from]) <= amount'[2][dst]
  <2>1. (src # dst /\ rounds >= 1) \/ mode # "simplePaths"
    BY <1>0 DEF BestSoFar
  <2>2. QED
    BY <2>1, <1>0, <1>3 DEF BestSoFar, Pays
<1>4. /\ src # dst /\ rounds >= 1
      /\ Past(1, i) /\ edges[i].from = src
           => Pays(edges[i], amountIn) <= amount[1][edges[i].to]
      /\ Past(2, i) /\ rounds >= 2 /\ edges[i].to = dst
           => Pays(edges[i], amount[1][edges[i].from]) <= amount[2][dst]
  BY <1>0, <1>3 DEF BestSoFar
<1>5. \A j \in {1, 2} : Past(j, i)' => Past(j, i) \/ (j = k /\ i = pos)
  BY <1>0, <1>1, <1>2 DEF Past, Advance
<1>6. /\ \A j \in 0..MaxHops : \A t \in Tokens : amount[j][t] <= amount'[j][t]
      /\ \A j \in 0..MaxHops : j # k => amount'[j] = amount[j]
      /\ (amount[k - 1][edges[pos].from] > 0 => MayVisit(k - 1, edges[pos].from, edges[pos].to))
           => Pays(edges[pos], amount[k - 1][edges[pos].from]) <= amount'[k][edges[pos].to]
  BY EdgeHandled
<1>7. /\ edges[i] \in EdgesOf(edges)
      /\ edges[i].from \in Tokens /\ edges[i].to \in Tokens
      /\ \A a \in Amount : Pays(edges[i], a) \in Nat
  <2>1. edges[i] \in EdgesOf(edges)
    BY DEF EdgesOf
  <2>2. QED
    BY <1>0, <2>1, EdgeFacts DEF Pays, Amount
<1>8. /\ \A j \in 0..MaxHops : \A t \in Tokens : amount[j][t] \in Amount /\ amount[j][t] \in Nat
      /\ amountIn \in Amount
  BY <1>0 DEF RouterTypes, Amount
<1>9. \A j \in 0..MaxHops : \A t \in Tokens : amount'[j][t] \in Nat
  BY <1>0 DEF RouterTypes, Amount
<1>10. ASSUME Past(1, i)', edges[i].from = src
       PROVE  Pays(edges[i], amountIn) <= amount'[1][edges[i].to]
  <2>1. 1 \in 0..MaxHops /\ 0 \in 0..MaxHops
    BY <1>0, <1>1, <1>4
  <2>2. CASE Past(1, i)
    <3>1. Pays(edges[i], amountIn) <= amount[1][edges[i].to]
      BY <1>4, <1>10, <2>2
    <3>2. amount[1][edges[i].to] <= amount'[1][edges[i].to]
      BY <1>6, <1>7, <2>1
    <3>3. QED
      BY <3>1, <3>2, <2>1, <1>7, <1>8, <1>9
  <2>3. CASE k = 1 /\ i = pos
    <3>1. amount[0][edges[i].from] = amountIn
      BY <1>10, <1>7 DEF SearchInv, StartRow
    <3>2. MayVisit(0, edges[i].from, edges[i].to)
      BY <1>3, <1>4, <1>7, <1>10, TwoHopsMayVisit
    <3>3. k - 1 = 0
      BY <2>3
    <3>4. QED
      BY <1>6, <2>3, <3>1, <3>2, <3>3
  <2>4. QED
    BY <1>5, <1>10, <2>2, <2>3
<1>11. ASSUME Past(2, i)', rounds >= 2, edges[i].to = dst
       PROVE  Pays(edges[i], amount'[1][edges[i].from]) <= amount'[2][dst]
  <2>1. 1 \in 0..MaxHops /\ 2 \in 0..MaxHops /\ MaxHops >= 1
    BY <1>0, <1>1, <1>11
  <2>2. k # 1
    BY <1>0, <1>1, <1>2, <1>11 DEF Past, Advance
  <2>3. amount'[1] = amount[1]
    BY <1>6, <2>1, <2>2
  <2>4. CASE Past(2, i)
    <3>1. Pays(edges[i], amount[1][edges[i].from]) <= amount[2][dst]
      BY <1>4, <1>11, <2>4
    <3>2. amount[2][dst] <= amount'[2][dst]
      BY <1>1, <1>6, <2>1
    <3>3. Pays(edges[i], amount[1][edges[i].from]) \in Nat
      BY <1>7, <1>8, <2>1
    <3>4. QED
      BY <3>1, <3>2, <3>3, <2>1, <2>3, <1>1, <1>8, <1>9
  <2>5. CASE k = 2 /\ i = pos
    <3>1. amount[1][edges[i].from] > 0 => MayVisit(1, edges[i].from, edges[i].to)
      BY <1>3, <1>4, <1>7, <1>11, <2>1, TwoHopsMayVisit
    <3>2. k - 1 = 1
      BY <2>5
    <3>3. QED
      BY <1>6, <1>11, <2>3, <2>5, <3>1, <3>2
  <2>6. QED
    BY <1>5, <1>11, <2>4, <2>5
<1>12. QED
  BY <1>4, <1>10, <1>11

\* When the search has been through all its rounds, no path of one or two hops beats
\* the table.
LEMMA TableBeatsTwoHops ==
  ASSUME SearchInv, PaysMoreForMore, BestSoFar, Searched, mode = "simplePaths",
         NEW best \in Amount, \A j \in 1..rounds : amount[j][dst] <= best,
         NEW e \in EdgesOf(edges), e.from = src
  PROVE  /\ e.to = dst => Pays(e, amountIn) <= best
         /\ rounds >= 2 =>
              \A f \in {g \in EdgesOf(edges) : g.from = e.to /\ g.to = dst} :
                Pays(f, Pays(e, amountIn)) <= best
<1>0. /\ RouterTypes /\ pc = "relax" /\ k > rounds
      /\ MaxHops \in Nat /\ MaxAmount \in Nat /\ k \in Nat /\ rounds \in 0..MaxHops
      /\ dst \in Tokens /\ amountIn \in Amount /\ edges \in Graphs
  BY RouterAssumption, SMTT(30) DEF SearchInv, Searched, RoundsLeft, RouterTypes
<1>1. rounds >= 1
  BY <1>0 DEF BestSoFar
<1>2. \A j \in 0..MaxHops : \A t \in Tokens : amount[j][t] \in Amount
  BY <1>0 DEF RouterTypes
<1>3. \A f \in EdgesOf(edges) :
        f.from \in Tokens /\ f.to \in Tokens /\ \A a \in Amount : Pays(f, a) \in Amount
  BY <1>0, EdgeFacts DEF Pays
<1>4. Amount \subseteq Nat
  BY <1>0 DEF Amount
<1>5. Pays(e, amountIn) <= amount[1][e.to]
  <2>1. PICK i \in DOMAIN edges : e = edges[i]
    BY DEF EdgesOf
  <2>2. Past(1, i)
    BY <1>0, <1>1 DEF Past
  <2>3. QED
    BY <1>0, <2>1, <2>2 DEF BestSoFar
<1>6. /\ 1 \in 1..rounds /\ 1 \in 0..MaxHops
      /\ amount[1][e.to] \in Amount /\ Pays(e, amountIn) \in Amount
  BY <1>0, <1>1, <1>2, <1>3
<1>7. ASSUME e.to = dst PROVE Pays(e, amountIn) <= best
  <2>1. amount[1][dst] <= best
    BY <1>6
  <2>2. QED
    BY <1>4, <1>5, <1>6, <1>7, <2>1
<1>8. ASSUME rounds >= 2, NEW f \in EdgesOf(edges), f.from = e.to, f.to = dst
      PROVE  Pays(f, Pays(e, amountIn)) <= best
  <2>1. PICK i \in DOMAIN edges : f = edges[i]
    BY DEF EdgesOf
  <2>2. Past(2, i)
    BY <1>0, <1>8 DEF Past
  <2>3. Pays(f, amount[1][e.to]) <= amount[2][dst]
    BY <1>0, <1>8, <2>1, <2>2 DEF BestSoFar
  <2>4. Pays(f, Pays(e, amountIn)) <= Pays(f, amount[1][e.to])
    BY <1>0, <1>5, <1>6 DEF PaysMoreForMore
  <2>5. 2 \in 1..rounds /\ 2 \in 0..MaxHops /\ amount[2][dst] \in Amount
    BY <1>0, <1>2, <1>8
  <2>6. amount[2][dst] <= best
    BY <2>5
  <2>7. Pays(f, Pays(e, amountIn)) \in Amount /\ Pays(f, amount[1][e.to]) \in Amount
    BY <1>3, <1>6
  <2>8. /\ Pays(f, Pays(e, amountIn)) \in Nat /\ Pays(f, amount[1][e.to]) \in Nat
        /\ amount[2][dst] \in Nat /\ best \in Nat
    BY <1>4, <2>5, <2>7
  <2>9. QED
    BY <2>3, <2>4, <2>6, <2>8
<1>9. QED
  BY <1>7, <1>8

\* An answer that is no route and no refusal of one says nothing of the best.
LEMMA NotAboutRoutes ==
  ASSUME result' = Nothing \/ result'.kind \notin {"route", "no-route"}
  PROVE  BestOfTwoHops'
  BY DEF BestOfTwoHops, Nothing

\* Every step keeps what the search for the best route has achieved.
LEMMA BestStep ==
  ASSUME PaysMoreForMore, RouterInv, RouterInv', BestInv, [Next]_vars
  PROVE  BestInv'
<1>0. SearchInv /\ RouterTypes /\ RouterTypes' /\ (result # Nothing => pc = "idle")
  BY DEF RouterInv, SearchInv, AnswerStands
<1>1. CASE RelaxTakes \/ RelaxSkips
  <2>1. pc = "relax" /\ pc' = "relax" /\ result' = result
    BY <1>1 DEF RelaxTakes, RelaxSkips
  <2>2. BestSoFar' /\ BestOfTwoHops'
    BY <1>0, <1>1, <2>1, RelaxKeepsBest, NotAboutRoutes DEF BestInv
  <2>3. QED
    BY <2>1, <2>2 DEF BestInv, ProbesLoop
<1>2. ASSUME NEW s \in Tokens, NEW t \in Tokens, NEW a \in Sizes, NEW h \in 0..MaxHops,
             AskRoute(s, t, a, h)
      PROVE  BestInv'
  <2>1. /\ k' = 1 /\ pos' = 1 /\ pc' = "relax" /\ result' = Nothing /\ edges' = edges
        /\ src' = s /\ dst' = t /\ s # t /\ rounds' = h /\ h >= 1
    BY <1>2 DEF AskRoute, Begin, Idle
  <2>2. DOMAIN edges' \subseteq Nat \ {0}
    <3>1. edges' \in Seq(EdgesOf(edges'))
      BY <1>0, RouterAssumption DEF RouterTypes
    <3>2. QED
      BY <3>1
  <2>3. \A i \in DOMAIN edges' : ~Past(1, i)' /\ ~Past(2, i)'
    BY <2>1, <2>2 DEF Past
  <2>4. BestSoFar'
    BY <2>1, <2>3 DEF BestSoFar
  <2>5. QED
    BY <2>1, <2>4, NotAboutRoutes DEF BestInv, ProbesLoop
<1>3. ASSUME NEW s \in Tokens, NEW t \in Tokens, NEW a \in Sizes, NEW h \in 0..MaxHops,
             RefuseRoute(s, t, a, h)
      PROVE  BestInv'
  <2>1. pc' = "idle"
    BY <1>3 DEF RefuseRoute, Idle
  <2>2. \/ result' = [kind |-> "bad-request"]
        \/ result' = [kind |-> "unknown-token"]
    BY <1>3 DEF RefuseRoute
  <2>3. result'.kind = "bad-request" \/ result'.kind = "unknown-token"
    BY <2>2
  <2>4. result'.kind \notin {"route", "no-route"}
    BY <2>3
  <2>5. QED
    BY <2>1, <2>4, NotAboutRoutes DEF BestInv, ProbesLoop, BestSoFar
<1>4. ASSUME NEW P \in ProbeSets, NEW h \in 1..MaxHops, AskArbitrage(P, h)
      PROVE  BestInv'
  <2>1. /\ mode' = "closedLoops"
        /\ result' = Nothing \/ result' = [kind |-> "cycles", cycles |-> <<>>]
    BY <1>4 DEF AskArbitrage, Idle
  <2>2. result' = Nothing \/ result'.kind = "cycles"
    BY <2>1
  <2>3. BestOfTwoHops'
    BY <2>2, NotAboutRoutes
  <2>4. QED
    BY <2>1, <2>3 DEF BestInv, ProbesLoop, BestSoFar
<1>5. CASE AnswerRoute \/ AnswerNoRoute
  <2>1. /\ UNCHANGED <<edges, mode, src, dst, amountIn, rounds, amount>>
        /\ pc' = "idle" /\ mode = "simplePaths" /\ Searched /\ dst \in Tokens
    BY <1>0, <1>5 DEF AnswerRoute, AnswerNoRoute, request, table, RouterTypes
  <2> DEFINE best == IF result'.kind = "route" THEN result'.out ELSE 0
  <2>2. best \in Amount /\ \A j \in 1..rounds : amount[j][dst] <= best
    <3>0. /\ MaxHops \in Nat /\ rounds \in 0..MaxHops /\ 0 \in Amount /\ Amount \subseteq Nat
          /\ \A j \in 1..rounds : amount[j][dst] \in Amount
      BY <1>0, <2>1, RouterAssumption, SMTT(30) DEF RouterTypes, Amount
    <3>1. CASE AnswerRoute
      <4>1. Reached(dst) # {} /\ result'.kind = "route" /\ result'.out = amount[BestRound(dst)][dst]
        BY <3>1 DEF AnswerRoute
      <4>2. /\ BestRound(dst) \in Reached(dst)
            /\ \A i \in 1..rounds : amount[i][dst] <= amount[BestRound(dst)][dst]
        BY <1>0, <2>1, <4>1, BestRoundReached
      <4>3. QED
        BY <3>0, <4>1, <4>2 DEF Reached
    <3>2. CASE AnswerNoRoute
      <4>1. Reached(dst) = {} /\ result'.kind = "no-route"
        BY <3>2 DEF AnswerNoRoute
      <4>2. ASSUME NEW j \in 1..rounds PROVE amount[j][dst] = 0
        <5>1. amount[j][dst] \in Nat
          BY <3>0
        <5>2. ~(amount[j][dst] > 0)
          BY <4>1 DEF Reached
        <5>3. QED
          BY <5>1, <5>2
      <4>3. QED
        BY <3>0, <4>1, <4>2
    <3>3. QED
      BY <1>5, <3>1, <3>2
  <2> HIDE DEF best
  <2>3. ASSUME NEW e \in EdgesOf(edges), e.from = src
        PROVE  /\ e.to = dst => Pays(e, amountIn) <= best
               /\ rounds >= 2 =>
                    \A f \in {g \in EdgesOf(edges) : g.from = e.to /\ g.to = dst} :
                      Pays(f, Pays(e, amountIn)) <= best
    BY <1>0, <2>1, <2>2, <2>3, TableBeatsTwoHops DEF BestInv
  <2>4. BestOfTwoHops'
    BY <2>1, <2>3 DEF BestOfTwoHops, best, Pays
  <2>5. QED
    BY <2>1, <2>4 DEF BestInv, ProbesLoop, BestSoFar
<1>6. ASSUME NEW p \in todo, ProbeNext(p) PROVE BestInv'
  <2>1. mode = "closedLoops" /\ mode' = mode /\ result' = Nothing
    BY <1>0, <1>6 DEF ProbeNext, BestInv, ProbesLoop
  <2>2. QED
    BY <2>1, NotAboutRoutes DEF BestInv, ProbesLoop, BestSoFar
<1>7. CASE HarvestCycles
  <2>1. mode' = "closedLoops" /\ pc' = "probe" /\ result' = Nothing
    BY <1>0, <1>7 DEF HarvestCycles, Searched, request
  <2>2. QED
    BY <2>1, NotAboutRoutes DEF BestInv, ProbesLoop, BestSoFar
<1>8. CASE AnswerArbitrage \/ Return
  <2>1. pc' = "idle" /\ (result' = Nothing \/ result'.kind = "cycles")
    BY <1>8 DEF AnswerArbitrage, Return
  <2>2. BestOfTwoHops'
    BY <2>1, NotAboutRoutes
  <2>3. QED
    BY <2>1, <2>2 DEF BestInv, ProbesLoop, BestSoFar
<1>9. CASE UNCHANGED vars
  <2>1. /\ UNCHANGED <<edges, pc, mode, src, dst, amountIn, rounds>>
        /\ UNCHANGED <<amount, k, pos, result>>
    BY <1>9 DEF vars, request, table
  <2>2. BestSoFar'
    BY <2>1 DEF BestInv, BestSoFar, Past, Pays
  <2>3. QED
    BY <2>1, <2>2 DEF BestInv, ProbesLoop, BestOfTwoHops, Pays
<1>10. QED
  BY <1>1, <1>2, <1>3, <1>4, <1>5, <1>6, <1>7, <1>8, <1>9 DEF Next, Ask

\* The answer is at least what any path of one or two hops pays, and there is no route
\* only when none of these pays anything (router.go:50-125), for every graph and hop
\* limit, wherever pools pay more for more.
THEOREM NoTwoHopsPayMore ==
  ASSUME PaysMoreForMore
  PROVE  Spec => []BestOfTwoHops
<1>1. Init => BestInv
  BY DEF Init, BestInv, ProbesLoop, BestSoFar, BestOfTwoHops, Nothing
<1>2. RouterInv /\ RouterInv' /\ BestInv /\ [Next]_vars => BestInv'
  BY BestStep
<1>3. BestInv => BestOfTwoHops
  BY DEF BestInv
<1>4. QED
  BY <1>1, <1>2, <1>3, RouterInvariant, PTL DEF Spec

----------------------------------------------------------------------------
(* No cycle of up to three hops passes through a pool twice, where a pool  *)
(* buys back no more than it sold.                                         *)

FoundPoolsOnce == \A c \in found : PoolsOnce(c.hops)

ReportedPoolsOnce ==
  result.kind = "cycles" => \A i \in DOMAIN result.cycles : PoolsOnce(result.cycles[i].hops)

PoolsInv == FoundPoolsOnce /\ ReportedPoolsOnce

\* Three hops that return to where they began join three different pairs of tokens;
\* two may join one pair, but there and back through one pool does not gain.
LEMMA GainingLoopPoolsOnce ==
  ASSUME SearchInv, RoundTripsLose, MaxHops <= 3, NEW j \in 2..rounds, Gains(j)
  PROVE  PoolsOnce(Hops(j, src))
<1> DEFINE w == CHOOSE v \in Paths(j, src) : TRUE
           E(i) == from[i][w[i]]
           hops == [i \in 1..j |-> [pool |-> from[i][w[i]].pool,
                                    from |-> w[i - 1], to |-> w[i],
                                    in |-> amount[i - 1][w[i - 1]], out |-> amount[i][w[i]]]]
<1>0. /\ RouterTypes /\ MaxHops \in Nat /\ MaxAmount \in Nat
      /\ rounds \in 0..MaxHops /\ src \in Tokens /\ amountIn \in Amount /\ edges \in Graphs
  BY RouterAssumption DEF SearchInv, RouterTypes
<1>1. j \in {2, 3} /\ j \in 1..MaxHops /\ j \in 0..MaxHops
  BY <1>0
<1>2. amount[j][src] \in Nat /\ amountIn \in Nat /\ amount[j][src] > amountIn
  BY <1>0, <1>1 DEF RouterTypes, Amount, Gains
<1>3. w \in Paths(j, src) /\ GoodPath(w, j)
  BY <1>0, <1>1, <1>2 DEF SearchInv, GoodPaths
<1>4. Hops(j, src) = hops
  BY DEF Hops
<1>5. /\ w \in [0..j -> Tokens] /\ w[j] = src /\ w[0] = src
      /\ \A i \in 1..j : w[i - 1] = from[i][w[i]].from
      /\ \A i \in 0..j : amount[i][w[i]] > 0
  BY <1>3 DEF Paths, GoodPath
<1> HIDE DEF w
<1>6. ASSUME NEW i \in 1..j
      PROVE  /\ E(i) \in EdgesOf(edges) /\ E(i).to = w[i] /\ E(i).from = w[i - 1]
             /\ amount[i][w[i]] = Pays(E(i), amount[i - 1][w[i - 1]])
             /\ w[i - 1] # w[i]
             /\ {w[i - 1], w[i]} = {E(i).pool.t0, E(i).pool.t1}
  <2>1. i \in 1..MaxHops /\ i \in 0..j /\ w[i] \in Tokens
    BY <1>0, <1>1, <1>5
  <2>2. /\ E(i) \in EdgesOf(edges) /\ E(i).to = w[i] /\ E(i).from = w[i - 1]
        /\ amount[i][w[i]] = Pays(E(i), amount[i - 1][w[i - 1]])
    BY <2>1, <1>5 DEF SearchInv, TableIsExecutable, Pays
  <2>3. E(i).from # E(i).to /\ {E(i).from, E(i).to} = {E(i).pool.t0, E(i).pool.t1}
    BY <2>2, <1>0, RouterAssumption
  <2>4. QED
    BY <2>2, <2>3
<1> HIDE DEF E
<1>7. DOMAIN hops = 1..j /\ \A i \in 1..j : hops[i].pool = E(i).pool
  BY DEF E
<1>8. CASE j = 2
  <2>0. 1 \in 1..j /\ 2 \in 1..j /\ 2 - 1 = 1 /\ 1 - 1 = 0
    BY <1>8
  <2>1. /\ E(1) \in EdgesOf(edges) /\ E(2) \in EdgesOf(edges) /\ E(1).to = E(2).from
        /\ amount[1][w[1]] = Pays(E(1), amount[0][w[0]])
        /\ amount[2][w[2]] = Pays(E(2), amount[1][w[1]])
    BY <1>6, <2>0
  <2>2. amount[0][w[0]] = amountIn /\ w[2] = src
    BY <1>0, <1>5, <1>8 DEF SearchInv, StartRow
  <2>3. E(1).pool # E(2).pool
    <3>1. SUFFICES ASSUME E(1).pool = E(2).pool PROVE FALSE
      OBVIOUS
    <3>2. Pays(E(2), Pays(E(1), amountIn)) <= amountIn
      BY <1>0, <2>1, <3>1 DEF RoundTripsLose
    <3>3. amount[j][src] <= amountIn
      BY <1>8, <2>1, <2>2, <3>2
    <3>4. QED
      BY <1>2, <3>3
  <2>4. \A i \in 1..j : i = 1 \/ i = 2
    BY <1>8
  <2>5. QED
    BY <1>4, <1>7, <2>0, <2>3, <2>4, ZenonT(60) DEF PoolsOnce
<1>9. CASE j = 3
  <2>0. /\ 1 \in 1..j /\ 2 \in 1..j /\ 3 \in 1..j
        /\ 2 - 1 = 1 /\ 1 - 1 = 0 /\ 3 - 1 = 2
    BY <1>9
  <2>1. /\ w[0] # w[1] /\ {w[0], w[1]} = {E(1).pool.t0, E(1).pool.t1}
        /\ w[1] # w[2] /\ {w[1], w[2]} = {E(2).pool.t0, E(2).pool.t1}
        /\ w[2] # w[3] /\ {w[2], w[3]} = {E(3).pool.t0, E(3).pool.t1}
    BY <1>6, <2>0
  <2>2. w[3] = w[0]
    BY <1>5, <1>9
  <2>3. /\ {w[0], w[1]} # {w[1], w[2]} /\ {w[1], w[2]} # {w[2], w[3]}
        /\ {w[0], w[1]} # {w[2], w[3]}
    BY <2>1, <2>2
  <2>4. E(1).pool # E(2).pool /\ E(2).pool # E(3).pool /\ E(1).pool # E(3).pool
    BY <2>1, <2>3
  <2>5. \A i \in 1..j : i = 1 \/ i = 2 \/ i = 3
    BY <1>9
  <2>6. QED
    BY <1>4, <1>7, <2>0, <2>4, <2>5, ZenonT(60) DEF PoolsOnce
<1>10. QED
  BY <1>1, <1>8, <1>9

\* Every step keeps the loops of up to three hops free of repeated pools.
LEMMA PoolsStep ==
  ASSUME RoundTripsLose, MaxHops <= 3, RouterInv, PoolsInv, [Next]_vars
  PROVE  PoolsInv'
<1>1. CASE HarvestCycles
  <2>1. /\ result' = result
        /\ found' \subseteq found \cup {Cycle(j) : j \in {i \in 2..rounds : Gains(i)}}
    BY <1>1 DEF HarvestCycles
  <2>2. ASSUME NEW j \in 2..rounds, Gains(j) PROVE PoolsOnce(Cycle(j).hops)
    <3>1. Cycle(j).hops = Hops(j, src)
      BY DEF Cycle
    <3>2. QED
      BY <2>2, <3>1, GainingLoopPoolsOnce DEF RouterInv
  <2>3. \A c \in found' : PoolsOnce(c.hops)
    BY <2>1, <2>2 DEF PoolsInv, FoundPoolsOnce
  <2>4. QED
    BY <2>1, <2>3 DEF PoolsInv, FoundPoolsOnce, ReportedPoolsOnce
<1>2. CASE AnswerArbitrage
  <2>1. PICK cycles \in SetToSeqs(found) : result' = [kind |-> "cycles", cycles |-> cycles]
    BY <1>2 DEF AnswerArbitrage
  <2>2. found' = {} /\ result'.cycles = cycles
    BY <1>2, <2>1 DEF AnswerArbitrage
  <2>3. \A i \in DOMAIN cycles : cycles[i] \in found
    BY DEF SetToSeqs
  <2>4. \A i \in DOMAIN cycles : PoolsOnce(cycles[i].hops)
    BY <2>3 DEF PoolsInv, FoundPoolsOnce
  <2>5. QED
    BY <2>2, <2>4 DEF PoolsInv, FoundPoolsOnce, ReportedPoolsOnce
<1>3. ASSUME NEW P \in ProbeSets, NEW h \in 1..MaxHops, AskArbitrage(P, h)
      PROVE  PoolsInv'
  <2>1. /\ found' = found
        /\ result' = result \/ result' = [kind |-> "cycles", cycles |-> <<>>]
    BY <1>3 DEF AskArbitrage
  <2>2. result' = result \/ DOMAIN result'.cycles = {}
    BY <2>1
  <2>3. QED
    BY <2>1, <2>2 DEF PoolsInv, FoundPoolsOnce, ReportedPoolsOnce
<1>4. ASSUME found' \subseteq found,
             result' = result \/ result'.kind \in {"none", "route", "no-route", "bad-request", "unknown-token"}
      PROVE  PoolsInv'
  BY <1>4 DEF PoolsInv, FoundPoolsOnce, ReportedPoolsOnce
<1>5. ASSUME NEW s \in Tokens, NEW t \in Tokens, NEW a \in Sizes, NEW h \in 0..MaxHops,
             AskRoute(s, t, a, h) \/ RefuseRoute(s, t, a, h)
      PROVE  PoolsInv'
  <2>1. /\ found' = found
        /\ \/ result' = result
           \/ result' = [kind |-> "bad-request"]
           \/ result' = [kind |-> "unknown-token"]
    BY <1>5 DEF AskRoute, RefuseRoute
  <2>2. result' = result \/ result'.kind = "bad-request" \/ result'.kind = "unknown-token"
    BY <2>1
  <2>3. QED
    BY <1>4, <2>1, <2>2
<1>6. CASE AnswerRoute \/ AnswerNoRoute \/ Return
  <2>1. /\ found' \subseteq found
        /\ result'.kind = "route" \/ result'.kind = "no-route" \/ result'.kind = "none"
    BY <1>6 DEF AnswerRoute, AnswerNoRoute, Return, Nothing
  <2>2. QED
    BY <1>4, <2>1
<1>7. CASE RelaxTakes \/ RelaxSkips \/ (\E p \in todo : ProbeNext(p)) \/ UNCHANGED vars
  <2>1. found' = found /\ result' = result
    BY <1>7 DEF RelaxTakes, RelaxSkips, ProbeNext, vars
  <2>2. QED
    BY <1>4, <2>1
<1>8. QED
  BY <1>1, <1>2, <1>3, <1>5, <1>6, <1>7 DEF Next, Ask

\* No cycle of up to three hops, the limit the program comes with (config.go:65), uses
\* a pool twice, and none is reported twice (arbitrage.go:47-98), for every graph
\* whose pools buy back no more than they sold.
THEOREM LoopsUsePoolsOnce ==
  ASSUME RoundTripsLose, MaxHops <= 3
  PROVE  Spec => []CyclesUsePoolsOnce
<1>1. Init => PoolsInv
  BY DEF Init, PoolsInv, FoundPoolsOnce, ReportedPoolsOnce, Nothing
<1>2. RouterInv /\ PoolsInv /\ [Next]_vars => PoolsInv'
  BY PoolsStep
<1>3. RouterInv /\ PoolsInv => CyclesUsePoolsOnce
  BY DEF RouterInv, AnswerStands, ReportedOnce, PoolsInv, ReportedPoolsOnce, CyclesUsePoolsOnce
<1>4. QED
  BY <1>1, <1>2, <1>3, RouterInvariant, PTL DEF Spec

----------------------------------------------------------------------------
(* Constant product pools (AmmV2) pay more for more, and buy back no more  *)
(* than they sold: what the last two theorems ask of the pools.            *)

Amm == INSTANCE AmmV2

\* A product grows with its factors.
LEMMA Products ==
  ASSUME NEW a \in Nat, NEW b \in Nat, NEW c \in Nat, a <= b
  PROVE  c * a <= c * b /\ c * a \in Nat /\ c * b \in Nat
<1>1. PICK d \in Nat : b = a + d
  BY SMT
<1>2. c * d \in Nat /\ c * a \in Nat /\ c * b \in Nat
  BY <1>1, SMT
<1>3. c * b = c * a + c * d
  BY <1>1, SMT
<1>4. QED
  BY <1>2, <1>3, SMT

\* A quotient is the largest number whose product fits.
LEMMA Quotient ==
  ASSUME NEW a \in Nat, NEW b \in Nat \ {0}
  PROVE  /\ a \div b \in Nat /\ (a \div b) * b <= a
         /\ \A n \in Nat : n * b <= a => n <= a \div b
<1> DEFINE q == a \div b
<1>1. q \in Nat /\ b * q <= a /\ a < b * q + b
  BY SMT
<1> HIDE DEF q
<1>2. ASSUME NEW n \in Nat, n * b <= a PROVE n <= q
  <2>1. SUFFICES ASSUME ~(n <= q) PROVE FALSE
    OBVIOUS
  <2>2. q + 1 \in Nat /\ q + 1 <= n
    BY <1>1, <2>1, SMT
  <2>3. b * (q + 1) <= b * n
    BY <2>2, Products
  <2>4. b * (q + 1) = b * q + b /\ b * n = n * b /\ b * q \in Nat /\ n * b \in Nat
    BY <1>1, SMT
  <2>5. QED
    BY <1>1, <1>2, <2>3, <2>4, SMT
<1>3. q * b = b * q
  BY <1>1, SMT
<1>4. QED
  BY <1>1, <1>2, <1>3 DEF q

\* The shape of the formula: x after the fee, d the reserve of what is sold, scaled.
Share(x, d, s) == (x * s) \div (d + x)

LEMMA ShareFacts ==
  ASSUME NEW x \in Nat, NEW d \in Nat \ {0}, NEW s \in Nat
  PROVE  /\ Share(x, d, s) \in Nat /\ Share(x, d, s) <= s
         /\ Share(x, d, s) * d + Share(x, d, s) * x <= x * s
         /\ \A n \in Nat : n * d + n * x <= x * s => n <= Share(x, d, s)
<1> DEFINE q == Share(x, d, s)
<1>1. x * s \in Nat /\ d + x \in Nat \ {0}
  BY SMT
<1>2. /\ q \in Nat /\ q * (d + x) <= x * s
      /\ \A n \in Nat : n * (d + x) <= x * s => n <= q
  BY <1>1, Quotient DEF Share
<1> HIDE DEF q
<1>3. \A n \in Nat : n * (d + x) = n * d + n * x
  BY SMT
<1>4. q <= s
  <2>1. SUFFICES ASSUME s + 1 <= q PROVE FALSE
    BY <1>2, SMT
  <2>2. (d + x) * (s + 1) <= (d + x) * q
    BY <1>1, <1>2, <2>1, Products
  <2>3. /\ (d + x) * (s + 1) = d * s + x * s + d + x /\ (d + x) * q = q * (d + x)
        /\ d * s \in Nat /\ q * (d + x) \in Nat
    BY <1>2, SMT
  <2>4. QED
    BY <1>1, <1>2, <2>2, <2>3, SMT
<1>5. QED
  BY <1>2, <1>3, <1>4 DEF q

\* More input, more output.
LEMMA ShareGrows ==
  ASSUME NEW x \in Nat, NEW y \in Nat, x <= y, NEW d \in Nat \ {0}, NEW s \in Nat
  PROVE  Share(x, d, s) <= Share(y, d, s)
<1> DEFINE q == Share(x, d, s)
<1>1. q \in Nat /\ q <= s /\ q * d + q * x <= x * s
  BY ShareFacts
<1> HIDE DEF q
<1>2. PICK z \in Nat : y = x + z
  BY SMT
<1>3. z * q <= z * s /\ z * q \in Nat /\ z * s \in Nat
  BY <1>1, Products
<1>4. /\ q * y = q * x + z * q /\ y * s = x * s + z * s
      /\ q * d \in Nat /\ q * x \in Nat /\ x * s \in Nat
  BY <1>1, <1>2, SMT
<1>5. q * d + q * y <= y * s
  BY <1>1, <1>3, <1>4, SMT
<1>6. QED
  BY <1>1, <1>5, ShareFacts DEF q

\* There and back at the same reserves r and s, keeping g parts in b of every input.
LEMMA ThereAndBack ==
  ASSUME NEW a \in Nat, NEW g \in Nat, NEW b \in Nat \ {0}, g <= b,
         NEW r \in Nat \ {0}, NEW s \in Nat \ {0}
  PROVE  Share(Share(a * g, r * b, s) * g, s * b, r) <= a
<1> DEFINE y == Share(a * g, r * b, s)
           z == Share(y * g, s * b, r)
<1>1. a * g \in Nat /\ r * b \in Nat \ {0} /\ s * b \in Nat \ {0}
  BY SMT
<1>2. y \in Nat /\ y * (r * b) + y * (a * g) <= (a * g) * s
  BY <1>1, ShareFacts
<1> HIDE DEF y
<1>3. y * g \in Nat
  BY <1>2, SMT
<1>4. z \in Nat /\ z * (s * b) + z * (y * g) <= (y * g) * r
  BY <1>1, <1>3, ShareFacts
<1> HIDE DEF z
<1>5. y * (r * b) <= (a * g) * s /\ y * (r * b) \in Nat /\ (a * g) * s \in Nat
  <2>1. y * (r * b) \in Nat /\ y * (a * g) \in Nat /\ (a * g) * s \in Nat
    BY <1>1, <1>2, SMT
  <2>2. QED
    BY <1>2, <2>1, SMT
<1>6. z * (s * b) <= (y * g) * r /\ z * (s * b) \in Nat /\ (y * g) * r \in Nat
  <2>1. z * (s * b) \in Nat /\ z * (y * g) \in Nat /\ (y * g) * r \in Nat
    BY <1>1, <1>3, <1>4, SMT
  <2>2. QED
    BY <1>4, <2>1, SMT
<1>7. SUFFICES ASSUME a + 1 <= z PROVE FALSE
  BY <1>4, SMT DEF y, z
<1>8. (s * b) * (a + 1) <= (s * b) * z /\ (s * b) * (a + 1) \in Nat
  BY <1>1, <1>4, <1>7, Products
<1>9. (s * b) * (a + 1) <= (y * g) * r
  <2>1. (s * b) * z = z * (s * b)
    BY <1>1, <1>4, SMT
  <2>2. QED
    BY <1>6, <1>8, <2>1, SMT
<1>10. b * ((s * b) * (a + 1)) <= b * ((y * g) * r)
  BY <1>6, <1>8, <1>9, Products
<1>11. g * (y * (r * b)) <= g * ((a * g) * s)
  BY <1>5, Products
<1>12. g * g <= b * b /\ g * g \in Nat /\ b * b \in Nat
  <2>1. g * g <= g * b /\ b * g <= b * b /\ g * g \in Nat /\ g * b \in Nat /\ b * b \in Nat
    BY Products
  <2>2. g * b = b * g
    BY SMT
  <2>3. QED
    BY <2>1, <2>2, SMT
<1>13. a * s \in Nat /\ (a * s) * (g * g) <= (a * s) * (b * b) /\ (a * s) * (b * b) \in Nat
  <2>1. a * s \in Nat
    BY SMT
  <2>2. QED
    BY <1>12, <2>1, Products
<1>14. /\ b * ((s * b) * (a + 1)) = (a * s) * (b * b) + s * (b * b)
       /\ s * (b * b) \in Nat \ {0}
  BY SMT
<1>15. b * ((y * g) * r) = g * (y * (r * b)) /\ g * (y * (r * b)) \in Nat
  BY <1>2, SMT
<1>16. g * ((a * g) * s) = (a * s) * (g * g) /\ (a * s) * (g * g) \in Nat
  BY SMT
<1>17. (a * s) * (b * b) + s * (b * b) <= (a * s) * (b * b)
  BY <1>10, <1>11, <1>13, <1>14, <1>15, <1>16, SMT
<1>18. QED
  BY <1>13, <1>14, <1>17, SMT

\* Every pool is a constant product pool with whole reserves and a fee.
ConstantProduct ==
  \A g \in Graphs : \A e \in EdgesOf(g) :
    /\ e.pool.r0 \in Int /\ e.pool.r1 \in Int /\ e.pool.fee \in Nat
    /\ \A a \in Amount : AmountOut(e.pool, e.from, a) = Amm!AmountOutV2(e.pool, e.from, a)

\* SwapV2 pays more for more, and buys back no more than it sold.
LEMMA SwapV2Facts ==
  ASSUME NEW r \in Int, NEW s \in Int, NEW fee \in Nat
  PROVE  /\ \A a \in Nat : Amm!SwapV2(a, r, s, fee) \in Nat
         /\ Amm!SwapV2(0, r, s, fee) = 0
         /\ \A a, b \in Nat : a <= b => Amm!SwapV2(a, r, s, fee) <= Amm!SwapV2(b, r, s, fee)
         /\ \A a \in Nat : Amm!SwapV2(Amm!SwapV2(a, r, s, fee), s, r, fee) <= a
<1>0. Bps \in Nat \ {0}
  BY RouterAssumption
<1>1. CASE fee >= Bps \/ r <= 0 \/ s <= 0
  <2>1. \A a \in Int : Amm!SwapV2(a, r, s, fee) = 0 /\ Amm!SwapV2(a, s, r, fee) = 0
    BY <1>1 DEF Amm!SwapV2
  <2>2. QED
    BY <2>1
<1>2. CASE ~(fee >= Bps \/ r <= 0 \/ s <= 0)
  <2> DEFINE g == Bps - fee
  <2>1. /\ g \in Nat \ {0} /\ g <= Bps /\ r \in Nat \ {0} /\ s \in Nat \ {0}
        /\ r * Bps \in Nat \ {0} /\ s * Bps \in Nat \ {0}
    BY <1>0, <1>2, SMT
  <2>2. ASSUME NEW a \in Nat, NEW u \in {r, s}, NEW v \in {r, s}
        PROVE  Amm!SwapV2(a, u, v, fee) = IF a = 0 THEN 0 ELSE Share(a * g, u * Bps, v)
    BY <1>0, <1>2, <2>1 DEF Amm!SwapV2, Share
  <2> HIDE DEF g
  <2>3. ASSUME NEW u \in {r, s}, NEW v \in {r, s} PROVE Share(0, u * Bps, v) = 0
    <3>1. Share(0, u * Bps, v) \in Nat /\ Share(0, u * Bps, v) * (u * Bps) <= 0
      <4>1. /\ Share(0, u * Bps, v) \in Nat
            /\ Share(0, u * Bps, v) * (u * Bps) + Share(0, u * Bps, v) * 0 <= 0 * v
        BY <2>1, ShareFacts
      <4>2. QED
        BY <2>1, <4>1, SMT
    <3>2. u * Bps \in Nat \ {0}
      BY <2>1
    <3>3. QED
      BY <3>1, <3>2, SMT
  <2>4. \A a \in Nat : \A u, v \in {r, s} : Amm!SwapV2(a, u, v, fee) = Share(a * g, u * Bps, v)
    <3>1. 0 * g = 0
      BY <2>1
    <3>2. QED
      BY <2>2, <2>3, <3>1
  <2>5. \A a \in Nat : a * g \in Nat
    BY <2>1, SMT
  <2>6. ASSUME NEW a \in Nat PROVE Amm!SwapV2(a, r, s, fee) \in Nat
    <3>1. Amm!SwapV2(a, r, s, fee) = Share(a * g, r * Bps, s) /\ a * g \in Nat
      BY <2>4, <2>5
    <3>2. Share(a * g, r * Bps, s) \in Nat
      BY <2>1, <3>1, ShareFacts
    <3>3. QED
      BY <3>1, <3>2
  <2>7. ASSUME NEW a \in Nat, NEW b \in Nat, a <= b
        PROVE  Amm!SwapV2(a, r, s, fee) <= Amm!SwapV2(b, r, s, fee)
    <3>1. a * g <= b * g
      <4>1. g * a <= g * b
        BY <2>1, <2>7, Products
      <4>2. g * a = a * g /\ g * b = b * g
        BY <2>1, SMT
      <4>3. QED
        BY <4>1, <4>2
    <3>2. Share(a * g, r * Bps, s) <= Share(b * g, r * Bps, s)
      BY <2>1, <2>5, <3>1, ShareGrows
    <3>3. QED
      BY <2>4, <3>2
  <2>8. ASSUME NEW a \in Nat
        PROVE  Amm!SwapV2(Amm!SwapV2(a, r, s, fee), s, r, fee) <= a
    <3>1. Amm!SwapV2(a, r, s, fee) = Share(a * g, r * Bps, s)
      BY <2>4
    <3>2. Amm!SwapV2(Amm!SwapV2(a, r, s, fee), s, r, fee)
            = Share(Amm!SwapV2(a, r, s, fee) * g, s * Bps, r)
      BY <2>4, <2>6
    <3>3. Share(Share(a * g, r * Bps, s) * g, s * Bps, r) <= a
      BY <1>0, <2>1, ThereAndBack
    <3>4. QED
      BY <3>1, <3>2, <3>3
  <2>9. QED
    BY <2>2, <2>6, <2>7, <2>8
<1>3. QED
  BY <1>1, <1>2

\* No input takes all of the reserve (v2.go:31-33, "the pool cannot be drained").
THEOREM ReserveIsNeverDrained ==
  ASSUME NEW r \in Int, NEW s \in Nat \ {0}, NEW fee \in Nat, NEW a \in Nat
  PROVE  Amm!SwapV2(a, r, s, fee) < s
<1>0. Bps \in Nat \ {0}
  BY RouterAssumption
<1>1. CASE a = 0 \/ fee >= Bps \/ r <= 0
  <2>1. Amm!SwapV2(a, r, s, fee) = 0
    BY <1>1 DEF Amm!SwapV2
  <2>2. QED
    BY <2>1
<1>2. CASE ~(a = 0 \/ fee >= Bps \/ r <= 0)
  <2> DEFINE x == a * (Bps - fee)
             d == r * Bps
             q == Share(x, d, s)
  <2>1. x \in Nat /\ d \in Nat \ {0} /\ Amm!SwapV2(a, r, s, fee) = q
    <3>1. Bps - fee \in Nat /\ r \in Nat \ {0}
      BY <1>0, <1>2
    <3>2. x \in Nat /\ d \in Nat \ {0}
      BY <1>0, <3>1, SMT
    <3>3. QED
      BY <1>0, <1>2, <3>2 DEF Amm!SwapV2, Share
  <2> HIDE DEF x, d
  <2>2. q \in Nat /\ q <= s /\ q * d + q * x <= x * s
    BY <2>1, ShareFacts
  <2> HIDE DEF q
  <2>3. q # s
    <3>1. SUFFICES ASSUME q = s PROVE FALSE
      OBVIOUS
    <3>2. s * d \in Nat \ {0} /\ s * x = x * s /\ x * s \in Nat
      BY <2>1, SMT
    <3>3. QED
      BY <2>2, <3>1, <3>2, SMT
  <2>4. QED
    BY <2>1, <2>2, <2>3
<1>3. QED
  BY <1>1, <1>2

\* Pools that quote by the constant product formula pay more for more and lose nothing
\* to a round trip (v2.go:45-70, pool.go:135-160), whatever their reserves and fees: on
\* such a snapshot no path of one or two hops beats the route, and no loop of up to
\* three hops uses a pool twice.
THEOREM ConstantProductPoolsPay ==
  ASSUME ConstantProduct
  PROVE  PaysMoreForMore /\ RoundTripsLose
<1>0. Amount \subseteq Nat /\ 0 \in Amount
  BY RouterAssumption DEF Amount
<1>1. ASSUME NEW g \in Graphs, NEW e \in EdgesOf(g)
      PROVE  /\ e.from # e.to /\ {e.from, e.to} = {e.pool.t0, e.pool.t1}
             /\ e.pool.r0 \in Int /\ e.pool.r1 \in Int /\ e.pool.fee \in Nat
             /\ \A a \in Amount : Pays(e, a) \in Amount
             /\ \A a \in Amount :
                  Pays(e, a) = IF e.from = e.pool.t0
                                 THEN Amm!SwapV2(a, e.pool.r0, e.pool.r1, e.pool.fee)
                                 ELSE Amm!SwapV2(a, e.pool.r1, e.pool.r0, e.pool.fee)
  <2>1. /\ e.from # e.to /\ {e.from, e.to} = {e.pool.t0, e.pool.t1}
        /\ \A a \in Amount : Pays(e, a) \in Amount
    BY RouterAssumption DEF Pays
  <2>2. /\ e.pool.r0 \in Int /\ e.pool.r1 \in Int /\ e.pool.fee \in Nat
        /\ \A a \in Amount : Pays(e, a) = Amm!AmountOutV2(e.pool, e.from, a)
    BY DEF ConstantProduct, Pays
  <2>3. e.from = e.pool.t0 \/ (e.from # e.pool.t0 /\ e.from = e.pool.t1)
    BY <2>1
  <2>4. ASSUME NEW a \in Amount
        PROVE  Amm!AmountOutV2(e.pool, e.from, a)
                 = IF e.from = e.pool.t0
                     THEN Amm!SwapV2(a, e.pool.r0, e.pool.r1, e.pool.fee)
                     ELSE Amm!SwapV2(a, e.pool.r1, e.pool.r0, e.pool.fee)
    BY <2>3 DEF Amm!AmountOutV2
  <2>5. QED
    BY <2>1, <2>2, <2>4
<1>2. PaysMoreForMore
  <2>1. SUFFICES ASSUME NEW g \in Graphs, NEW e \in EdgesOf(g)
                 PROVE  /\ Pays(e, 0) = 0
                        /\ \A a, b \in Amount : a <= b => Pays(e, a) <= Pays(e, b)
    BY DEF PaysMoreForMore
  <2> DEFINE p == e.pool
  <2>2. /\ p.r0 \in Int /\ p.r1 \in Int /\ p.fee \in Nat
        /\ \A a \in Amount : Pays(e, a) = IF e.from = p.t0
                                            THEN Amm!SwapV2(a, p.r0, p.r1, p.fee)
                                            ELSE Amm!SwapV2(a, p.r1, p.r0, p.fee)
    BY <1>1
  <2> HIDE DEF p
  <2>3. CASE e.from = p.t0
    <3>1. /\ Amm!SwapV2(0, p.r0, p.r1, p.fee) = 0
          /\ \A a, b \in Nat : a <= b => Amm!SwapV2(a, p.r0, p.r1, p.fee)
                                             <= Amm!SwapV2(b, p.r0, p.r1, p.fee)
      BY <2>2, SwapV2Facts
    <3>2. QED
      BY <1>0, <2>2, <2>3, <3>1
  <2>4. CASE e.from # p.t0
    <3>1. /\ Amm!SwapV2(0, p.r1, p.r0, p.fee) = 0
          /\ \A a, b \in Nat : a <= b => Amm!SwapV2(a, p.r1, p.r0, p.fee)
                                             <= Amm!SwapV2(b, p.r1, p.r0, p.fee)
      BY <2>2, SwapV2Facts
    <3>2. QED
      BY <1>0, <2>2, <2>4, <3>1
  <2>5. QED
    BY <2>3, <2>4
<1>3. RoundTripsLose
  <2>1. SUFFICES ASSUME NEW g \in Graphs, NEW e \in EdgesOf(g), NEW f \in EdgesOf(g),
                        e.pool = f.pool, e.to = f.from, NEW a \in Amount
                 PROVE  Pays(f, Pays(e, a)) <= a
    BY DEF RoundTripsLose
  <2> DEFINE p == e.pool
             q == Pays(e, a)
  <2>2. /\ p.r0 \in Int /\ p.r1 \in Int /\ p.fee \in Nat
        /\ q \in Amount
        /\ q = IF e.from = p.t0 THEN Amm!SwapV2(a, p.r0, p.r1, p.fee)
                                ELSE Amm!SwapV2(a, p.r1, p.r0, p.fee)
    BY <1>1
  <2>3. Pays(f, q) = IF f.from = p.t0 THEN Amm!SwapV2(q, p.r0, p.r1, p.fee)
                                      ELSE Amm!SwapV2(q, p.r1, p.r0, p.fee)
    BY <1>1, <2>1, <2>2
  <2>4. f.from = p.t0 <=> e.from # p.t0
    BY <1>1, <2>1
  <2> HIDE DEF p, q
  <2>5. CASE e.from = p.t0
    <3>1. Amm!SwapV2(Amm!SwapV2(a, p.r0, p.r1, p.fee), p.r1, p.r0, p.fee) <= a
      BY <1>0, <2>2, SwapV2Facts
    <3>2. Pays(f, q) <= a
      BY <2>2, <2>3, <2>4, <2>5, <3>1
    <3>3. QED
      BY <3>2 DEF q
  <2>6. CASE e.from # p.t0
    <3>1. Amm!SwapV2(Amm!SwapV2(a, p.r1, p.r0, p.fee), p.r0, p.r1, p.fee) <= a
      BY <1>0, <2>2, SwapV2Facts
    <3>2. Pays(f, q) <= a
      BY <2>2, <2>3, <2>4, <2>6, <3>1
    <3>3. QED
      BY <3>2 DEF q
  <2>7. QED
    BY <2>5, <2>6
<1>4. QED
  BY <1>2, <1>3
=============================================================================
