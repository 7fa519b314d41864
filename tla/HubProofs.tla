----------------------------- MODULE HubProofs -----------------------------
(***************************************************************************)
(* The client map of the hub and the loops of its connections agree, and   *)
(* the queues stay within the buffer and in order, for any number of       *)
(* connections, any tracked pairs and any buffer.                          *)
(***************************************************************************)
EXTENDS Hub, NaturalsInduction, WellFoundedInduction, TLAPS

\* The part of the type invariant that the argument needs: nothing about ticks.
LoopTypes == /\ clients \subseteq Clients
             /\ writer \in [Clients -> {"off", "start", "run", "exit", "gone"}]
             /\ reader \in [Clients -> {"off", "read", "gone"}]
             /\ done \in [Clients -> BOOLEAN]

\* The inductive invariant: the types of the loops, the two sides of InMapOrTold,
\* and that a name is either free for both loops or taken by both.
Listed == \A c \in clients : reader[c] = "read" /\ writer[c] \in {"start", "run", "exit"}
Told == \A c \in Clients : reader[c] # "off" /\ c \notin clients => done[c]
Paired == \A c \in Clients : writer[c] = "off" <=> reader[c] = "off"
HubInv == LoopTypes /\ Listed /\ Told /\ Paired

\* Taking a client out of the map and closing it keeps every other one as it was.
LEMMA RemoveKeeps ==
  ASSUME HubInv, NEW c \in Clients, Remove(c)
  PROVE  /\ clients' \subseteq Clients /\ c \notin clients'
         /\ done' \in [Clients -> BOOLEAN] /\ done'[c]
         /\ \A d \in Clients \ {c} : /\ d \in clients' <=> d \in clients
                                     /\ done'[d] = done[d]
  BY DEF HubInv, LoopTypes, Remove

\* Every step of the hub and of the connections keeps the invariant.
LEMMA HubStep == HubInv /\ [Next]_vars => HubInv'
<1>1. SUFFICES ASSUME HubInv, [Next]_vars PROVE HubInv'
  OBVIOUS
<1>2. CASE Publish
  <2>1. UNCHANGED <<clients, writer, reader, done>>
    BY <1>2 DEF Publish, conn
  <2>2. QED
    BY <1>1, <2>1 DEF HubInv, LoopTypes, Listed, Told, Paired
<1>3. ASSUME Broadcast PROVE HubInv'
  <2>1. CASE TickerFires \/ CollectTargets \/ BroadcastDone \/ \E c \in Clients : Offer(c)
    <3>1. UNCHANGED <<clients, writer, reader, done>>
      BY <2>1 DEF TickerFires, CollectTargets, BroadcastDone, Offer, conn
    <3>2. QED
      BY <1>1, <3>1 DEF HubInv, LoopTypes, Listed, Told, Paired
  <2>2. ASSUME NEW c \in Clients, OfferOverflows(c) PROVE HubInv'
    <3>1. UNCHANGED <<clients, writer, reader>> /\ done' = [done EXCEPT ![c] = TRUE]
      BY <2>2 DEF OfferOverflows
    <3>2. QED
      BY <1>1, <3>1 DEF HubInv, LoopTypes, Listed, Told, Paired
  <2>3. QED
    BY <1>3, <2>1, <2>2 DEF Broadcast
<1>4. CASE CloseAll
  <2>1. /\ UNCHANGED <<writer, reader>>
        /\ clients' = {}
        /\ done' = [c \in Clients |-> done[c] \/ c \in clients]
    BY <1>4 DEF CloseAll
  <2>2. QED
    BY <1>1, <2>1 DEF HubInv, LoopTypes, Listed, Told, Paired
<1>5. ASSUME NEW c \in Clients, Connect(c) PROVE HubInv'
  <2>1. /\ writer[c] = "off"
        /\ clients' = clients \cup {c}
        /\ writer' = [writer EXCEPT ![c] = "start"]
        /\ reader' = [reader EXCEPT ![c] = "read"]
        /\ UNCHANGED done
    BY <1>5 DEF Connect
  <2>2. QED
    BY <1>1, <2>1 DEF HubInv, LoopTypes, Listed, Told, Paired
<1>6. ASSUME NEW c \in Clients, Write(c) \/ SeeDone(c) \/ WriteFails(c) PROVE HubInv'
  <2>1. CASE Greet(c) \/ WriteTick(c)
    <3>1. UNCHANGED <<clients, writer, reader, done>>
      BY <2>1 DEF Greet, WriteTick
    <3>2. QED
      BY <1>1, <3>1 DEF HubInv, LoopTypes, Listed, Told, Paired
  <2>2. CASE StartWriter(c)
    <3>1. /\ writer[c] = "start" /\ writer' = [writer EXCEPT ![c] = "run"]
          /\ UNCHANGED <<clients, reader, done>>
      BY <2>2 DEF StartWriter
    <3>2. QED
      BY <1>1, <3>1 DEF HubInv, LoopTypes, Listed, Told, Paired
  <2>3. CASE SeeDone(c) \/ WriteFails(c)
    <3>1. /\ writer[c] = "run" /\ writer' = [writer EXCEPT ![c] = "exit"]
          /\ UNCHANGED <<clients, reader, done>>
      BY <2>3 DEF SeeDone, WriteFails, InSelect, LeaveLoop
    <3>2. QED
      BY <1>1, <3>1 DEF HubInv, LoopTypes, Listed, Told, Paired
  <2>4. CASE WriterLeaves(c)
    <3>1. /\ writer[c] = "exit" /\ writer' = [writer EXCEPT ![c] = "gone"]
          /\ Remove(c) /\ UNCHANGED reader
      BY <2>4 DEF WriterLeaves
    <3>2. QED
      BY <1>1, <3>1, RemoveKeeps DEF HubInv, LoopTypes, Listed, Told, Paired
  <2>5. QED
    BY <1>6, <2>1, <2>2, <2>3, <2>4 DEF Write
<1>7. ASSUME NEW c \in Clients, ReaderLeaves(c) PROVE HubInv'
  <2>1. /\ reader[c] = "read" /\ reader' = [reader EXCEPT ![c] = "gone"]
        /\ Remove(c) /\ UNCHANGED writer
    BY <1>7 DEF ReaderLeaves
  <2>2. QED
    BY <1>1, <2>1, RemoveKeeps DEF HubInv, LoopTypes, Listed, Told, Paired
<1>8. ASSUME NEW c \in Clients, Forget(c) PROVE HubInv'
  <2>1. /\ writer[c] = "gone" /\ reader[c] = "gone"
        /\ writer' = [writer EXCEPT ![c] = "off"]
        /\ reader' = [reader EXCEPT ![c] = "off"]
        /\ done' = [done EXCEPT ![c] = FALSE]
        /\ UNCHANGED clients
    BY <1>8 DEF Forget
  <2>2. QED
    BY <1>1, <2>1 DEF HubInv, LoopTypes, Listed, Told, Paired
<1>9. CASE UNCHANGED vars
  BY <1>1, <1>9 DEF vars, conn, HubInv, LoopTypes, Listed, Told, Paired
<1>10. QED
  BY <1>1, <1>2, <1>3, <1>4, <1>5, <1>6, <1>7, <1>8, <1>9 DEF Next

\* The inductive invariant of the hub (ws.go:57-127, 218-289).
THEOREM HubInvariant == Spec => []HubInv
<1>1. Init => HubInv
  BY DEF Init, HubInv, LoopTypes, Listed, Told, Paired
<1>2. QED
  BY <1>1, HubStep, PTL DEF Spec

\* The map holds exactly connections whose loops run, and whoever has left it has been
\* told (ws.go:63-68, 120-127), for any number of clients.
THEOREM MapMatchesLoops == Spec => []InMapOrTold
<1>1. HubInv => InMapOrTold
  BY DEF HubInv, LoopTypes, Listed, Told, InMapOrTold
<1>2. QED
  BY <1>1, HubInvariant, PTL

----------------------------------------------------------------------------
(* The queues.                                                             *)

\* No tick is from a snapshot that has not been published, and without a snapshot
\* nothing is priced.
SnapTypes == /\ version \in 0..MaxVersion /\ priced \subseteq Tracked
             /\ version = 0 => priced = {}

QueueTypes == /\ ticks \in Seq(Tick) /\ hubPc \in {"wait", "priced", "offer", "stopped"}
              /\ left \in [Clients -> Nat]
              /\ greeting \in [Clients -> Seq(Tick)] /\ send \in [Clients -> Seq(Tick)]
              /\ done \in [Clients -> BOOLEAN] /\ lost \in [Clients -> BOOLEAN]
              /\ shown \in [Clients -> [Tracked -> 0..MaxVersion]]

\* What is left to be offered is of the broadcast under way.
LeftOfTicks == \A c \in Clients : /\ left[c] <= Len(ticks)
                                  /\ left[c] # 0 => hubPc = "offer"

\* The ticks of a broadcast are of one snapshot, not a later one than the current, and
\* what is queued is not of a later one than what will be queued next.
OneSnapshot == \A i \in DOMAIN ticks :
                 /\ ticks[i].version <= version
                 /\ \A j \in DOMAIN ticks : ticks[i].version = ticks[j].version
QueuedBefore == \A c \in Clients : \A i \in DOMAIN send[c] :
                  /\ send[c][i].version <= version
                  /\ \A j \in DOMAIN ticks : send[c][i].version <= ticks[j].version

\* A queue holds no more than its buffer does (ws.go:29-33); its ticks are in the order of
\* their snapshots; and a client that has missed one is closed (ws.go:81-86).
QueuesInOrder ==
  \A c \in Clients :
    /\ Len(send[c]) <= ClientBuffer
    /\ \A i, j \in DOMAIN send[c] : i < j => send[c][i].version <= send[c][j].version
    /\ lost[c] => done[c]

QueueInv == /\ SnapTypes /\ QueueTypes /\ LeftOfTicks /\ OneSnapshot /\ QueuedBefore
            /\ QueuesInOrder

\* A set of numbers that is not empty has a least member.
LEMMA LeastNumber ==
  ASSUME NEW T, T \subseteq Nat, T # {}
  PROVE  \E x \in T : \A y \in T : x <= y
<1>1. PICK x \in T : \A y \in T : ~(<<y, x>> \in OpToRel(<, Nat))
  BY WFMin, NatLessThanWellFounded
<1>2. ASSUME NEW y \in T PROVE x <= y
  <2>1. ~(<<y, x>> \in OpToRel(<, Nat))
    BY <1>1
  <2>2. y \in Nat /\ x \in Nat
    OBVIOUS
  <2>3. ~(y < x)
    BY <2>1, <2>2 DEF OpToRel
  <2>4. QED
    BY <2>2, <2>3
<1>3. QED
  BY <1>2

\* A set that holds 0, and with a number below N the next one, holds all up to N.
LEMMA UpTo ==
  ASSUME NEW N \in Nat, NEW T, 0 \in T, \A n \in 0..(N - 1) : n \in T => n + 1 \in T
  PROVE  0..N \subseteq T
<1> DEFINE U == {n \in 0..N : n \notin T}
<1>1. SUFFICES ASSUME U # {} PROVE FALSE
  OBVIOUS
<1>2. PICK m \in U : \A y \in U : m <= y
  <2>1. U \subseteq Nat
    OBVIOUS
  <2> HIDE DEF U
  <2>2. QED
    BY <1>1, <2>1, LeastNumber
<1>3. m \in 0..N /\ m \notin T /\ m # 0
  BY <1>2
<1>4. m - 1 \in 0..(N - 1) /\ m - 1 \in 0..N /\ ~(m <= m - 1) /\ (m - 1) + 1 = m
  BY <1>3
<1>5. m - 1 \in T
  BY <1>2, <1>4
<1>6. QED
  BY <1>3, <1>4, <1>5

\* f lists what row appends, for every number of rows.
Appends(f, row, m, W) == /\ f \in [0..m -> Seq(W)] /\ f[0] = <<>>
                         /\ \A n \in 1..m : f[n] = f[n - 1] \o row[n]

\* Such a list exists.
LEMMA AppendsExist ==
  ASSUME NEW W, NEW N \in Nat, NEW row \in [1..N -> Seq(W)]
  PROVE  \E f : Appends(f, row, N, W)
<1> DEFINE T == {m \in 0..N : \E f : Appends(f, row, m, W)}
<1>1. 0 \in T
  <2> DEFINE f == [n \in 0..0 |-> <<>>]
  <2>1. Appends(f, row, 0, W)
    BY DEF Appends
  <2> HIDE DEF f
  <2>2. QED
    BY <2>1
<1>2. ASSUME NEW m \in 0..(N - 1), m \in T PROVE m + 1 \in T
  <2>1. PICK f : Appends(f, row, m, W)
    BY <1>2
  <2>2. /\ f \in [0..m -> Seq(W)] /\ f[0] = <<>>
        /\ \A n \in 1..m : f[n] = f[n - 1] \o row[n]
    BY <2>1 DEF Appends
  <2>3. m + 1 \in 1..N /\ m + 1 \in 0..N /\ m \in 0..m /\ m \in Nat
    OBVIOUS
  <2>4. PICK x : x = f[m] \o row[m + 1]
    OBVIOUS
  <2>5. x \in Seq(W)
    <3>1. f[m] \in Seq(W) /\ row[m + 1] \in Seq(W)
      BY <2>2, <2>3
    <3>2. QED
      BY <2>4, <3>1
  <2> DEFINE h == [n \in 0..(m + 1) |-> IF n = m + 1 THEN x ELSE f[n]]
  <2>6. h \in [0..(m + 1) -> Seq(W)]
    <3>1. \A n \in 0..(m + 1) : n # m + 1 => n \in 0..m
      BY <2>3
    <3>2. QED
      BY <2>2, <2>5, <3>1
  <2>7. h[0] = <<>>
    BY <2>2, <2>3
  <2>8. ASSUME NEW n \in 1..(m + 1) PROVE h[n] = h[n - 1] \o row[n]
    <3>1. n - 1 \in 0..(m + 1) /\ n - 1 # m + 1 /\ n \in 0..(m + 1)
      BY <2>3
    <3>2. h[n - 1] = f[n - 1]
      BY <3>1
    <3>3. CASE n = m + 1
      <4>1. n - 1 = m
        BY <2>3, <3>3
      <4>2. h[n] = x
        BY <3>1, <3>3, Zenon
      <4> HIDE DEF h
      <4>3. QED
        BY <2>4, <3>2, <3>3, <4>1, <4>2, Zenon
    <3>4. CASE n # m + 1
      <4>1. n \in 1..m /\ h[n] = f[n]
        BY <2>3, <3>1, <3>4
      <4>2. QED
        BY <2>2, <3>2, <4>1
    <3>5. QED
      BY <3>3, <3>4
  <2> HIDE DEF h
  <2>9. Appends(h, row, m + 1, W)
    BY <2>6, <2>7, <2>8, Zenon DEF Appends
  <2>10. QED
    BY <2>3, <2>9
<1>3. 0..N \subseteq T
  <2> HIDE DEF T
  <2>1. QED
    BY <1>1, <1>2, UpTo
<1>4. QED
  BY <1>3

\* The prices are ticks of the current snapshot (ws.go:142-174).
LEMMA PriceFacts ==
  ASSUME SnapTypes
  PROVE  /\ CurrentPrices \in Seq(Tick)
         /\ \A i \in DOMAIN CurrentPrices : CurrentPrices[i].version = version
<1> DEFINE N == Len(Pairs)
           W == [pair : priced, version : {version}]
           row == [n \in 1..N |-> TickOf(Pairs[n])]
           Is(g) == g = [n \in 0..N |-> IF n = 0 THEN <<>> ELSE g[n - 1] \o TickOf(Pairs[n])]
           g0 == CHOOSE g : Is(g)
<1>1. N \in Nat
  BY HubAssumption
<1>2. row \in [1..N -> Seq(W)]
  <2>1. ASSUME NEW n \in 1..N PROVE TickOf(Pairs[n]) \in Seq(W)
    <3>1. CASE Pairs[n] \in priced
      <4>1. PICK t : t = [pair |-> Pairs[n], version |-> version]
        OBVIOUS
      <4>2. t \in W
        BY <3>1, <4>1
      <4>3. TickOf(Pairs[n]) = <<t>>
        BY <3>1, <4>1 DEF TickOf
      <4> HIDE DEF W
      <4>4. QED
        BY <4>2, <4>3
    <3>2. CASE Pairs[n] \notin priced
      <4>1. TickOf(Pairs[n]) = <<>>
        BY <3>2 DEF TickOf
      <4> HIDE DEF W
      <4>2. QED
        BY <4>1
    <3>3. QED
      BY <3>1, <3>2
  <2> HIDE DEF W
  <2>2. QED
    BY <2>1
<1>3. \A n \in 1..N : row[n] = TickOf(Pairs[n])
  OBVIOUS
<1> HIDE DEF N, W, row
<1>4. PICK f : Appends(f, row, N, W)
  BY <1>1, <1>2, AppendsExist
<1>5. Is(f)
  <2>1. f \in [0..N -> Seq(W)] /\ f[0] = <<>> /\ \A n \in 1..N : f[n] = f[n - 1] \o row[n]
    BY <1>4 DEF Appends
  <2>2. ASSUME NEW n \in 0..N
        PROVE  f[n] = IF n = 0 THEN <<>> ELSE f[n - 1] \o TickOf(Pairs[n])
    <3>1. CASE n = 0
      BY <2>1, <3>1
    <3>2. CASE n # 0
      <4>1. n \in 1..N
        BY <1>1, <3>2
      <4>2. f[n] = f[n - 1] \o TickOf(Pairs[n])
        BY <1>3, <2>1, <4>1, Zenon
      <4>3. QED
        BY <3>2, <4>2, Zenon
    <3>3. QED
      BY <3>1, <3>2
  <2>3. QED
    BY <2>1, <2>2
<1>6. Is(g0)
  <2> HIDE DEF Is
  <2>1. QED
    BY <1>5
<1>7. CurrentPrices = g0[N]
  BY DEF CurrentPrices, N
<1> HIDE DEF g0
<1>8. ASSUME NEW n \in 0..N
      PROVE  g0[n] = IF n = 0 THEN <<>> ELSE g0[n - 1] \o TickOf(Pairs[n])
  BY <1>6
<1> DEFINE T == {n \in 0..N : g0[n] \in Seq(W)}
<1>9. 0 \in T
  <2>1. 0 \in 0..N
    BY <1>1
  <2>2. g0[0] = <<>>
    BY <1>8, <2>1
  <2>3. <<>> \in Seq(W)
    OBVIOUS
  <2>4. QED
    BY <2>1, <2>2, <2>3, Zenon
<1>10. ASSUME NEW n \in 0..(N - 1), n \in T PROVE n + 1 \in T
  <2>1. n + 1 \in 1..N /\ n + 1 \in 0..N /\ n + 1 # 0 /\ (n + 1) - 1 = n
    BY <1>1
  <2>2. TickOf(Pairs[n + 1]) \in Seq(W) /\ g0[n] \in Seq(W)
    BY <1>2, <1>3, <1>10, <2>1
  <2>3. g0[n + 1] = g0[n] \o TickOf(Pairs[n + 1])
    BY <1>8, <2>1
  <2>4. g0[n] \o TickOf(Pairs[n + 1]) \in Seq(W)
    BY <2>2
  <2>5. QED
    BY <2>1, <2>3, <2>4
<1>11. N \in T
  <2> HIDE DEF T
  <2>1. 0..N \subseteq T
    BY <1>1, <1>9, <1>10, UpTo
  <2>2. QED
    BY <1>1, <2>1
<1>12. CurrentPrices \in Seq(W)
  BY <1>7, <1>11
<1>13. W \subseteq Tick /\ \A t \in W : t.version = version
  <2>1. \A t \in W : t.version = version
    BY DEF W
  <2>2. CASE priced = {}
    <3>1. W = {}
      BY <2>2 DEF W
    <3>2. QED
      BY <3>1
  <2>3. CASE priced # {}
    <3>1. version \in 1..MaxVersion
      BY <2>3, HubAssumption DEF SnapTypes
    <3>2. priced \subseteq Tracked
      BY DEF SnapTypes
    <3>3. QED
      BY <2>1, <3>1, <3>2 DEF W, Tick
  <2>4. QED
    BY <2>2, <2>3
<1> HIDE DEF T
<1>14. PICK s : s = CurrentPrices
  OBVIOUS
<1>15. s \in Seq(W)
  BY <1>12, <1>14
<1>16. s \in Seq(Tick) /\ \A i \in DOMAIN s : s[i] \in W
  BY <1>13, <1>15
<1>17. QED
  BY <1>13, <1>14, <1>16

\* What is left of a queue in order is in order.
LEMMA TailFacts ==
  ASSUME NEW S, NEW s \in Seq(S), s # <<>>
  PROVE  /\ Head(s) \in S /\ Tail(s) \in Seq(S) /\ Len(Tail(s)) = Len(s) - 1
         /\ Len(s) \in Nat \ {0}
         /\ \A i \in DOMAIN Tail(s) : i + 1 \in DOMAIN s /\ Tail(s)[i] = s[i + 1]
  OBVIOUS

\* What a queue holds with one more tick at its end.
LEMMA AppendFacts ==
  ASSUME NEW S, NEW s \in Seq(S), NEW t \in S
  PROVE  /\ Append(s, t) \in Seq(S) /\ Len(Append(s, t)) = Len(s) + 1 /\ Len(s) \in Nat
         /\ DOMAIN s = 1..Len(s) /\ DOMAIN Append(s, t) = 1..(Len(s) + 1)
         /\ \A i \in 1..Len(s) : Append(s, t)[i] = s[i]
         /\ Append(s, t)[Len(s) + 1] = t
  OBVIOUS

\* Every member of a list of ticks has a version.
LEMMA Versions ==
  ASSUME NEW s \in Seq(Tick)
  PROVE  \A i \in DOMAIN s : s[i].version \in Int
<1>1. \A i \in DOMAIN s : s[i] \in Tick
  OBVIOUS
<1>2. \A t \in Tick : t.version \in Int
  BY HubAssumption DEF Tick
<1>3. QED
  BY <1>1, <1>2

\* A new snapshot.
LEMMA PublishStep ==
  ASSUME QueueInv, Publish
  PROVE  QueueInv'
<1>1. /\ version \in 0..MaxVersion /\ version < MaxVersion /\ MaxVersion \in Nat
      /\ version' = version + 1 /\ priced' \in SUBSET Tracked
      /\ UNCHANGED <<hubPc, ticks, left, greeting, send, done, lost, shown>>
  BY HubAssumption DEF QueueInv, SnapTypes, Publish, hub, conn
<1>2. SnapTypes'
  BY <1>1 DEF SnapTypes
<1>3. QueueTypes' /\ LeftOfTicks' /\ QueuesInOrder'
  BY <1>1 DEF QueueInv, QueueTypes, LeftOfTicks, QueuesInOrder
<1>4. \A x \in Int : x <= version => x <= version + 1
  BY <1>1
<1>5. /\ \A i \in DOMAIN ticks : ticks[i].version \in Int
      /\ \A c \in Clients : \A i \in DOMAIN send[c] : send[c][i].version \in Int
  <2>1. ticks \in Seq(Tick) /\ \A c \in Clients : send[c] \in Seq(Tick)
    BY DEF QueueInv, QueueTypes
  <2>2. QED
    BY <2>1, Versions, Zenon
<1>6. OneSnapshot' /\ QueuedBefore'
  BY <1>1, <1>4, <1>5 DEF QueueInv, OneSnapshot, QueuedBefore
<1>7. QED
  BY <1>2, <1>3, <1>6 DEF QueueInv

\* The hub prices the tracked pairs.
LEMMA TickerStep ==
  ASSUME QueueInv, TickerFires
  PROVE  QueueInv'
<1>1. /\ hubPc = "wait" /\ ticks' = CurrentPrices /\ hubPc' = "priced"
      /\ UNCHANGED <<version, priced, left, greeting, send, done, lost, shown>>
  BY DEF TickerFires, snapshot, conn
<1>2. PICK s : s = CurrentPrices
  OBVIOUS
<1>3. s \in Seq(Tick) /\ \A i \in DOMAIN s : s[i].version = version
  BY <1>2, PriceFacts DEF QueueInv
<1>4. SnapTypes' /\ QueuesInOrder'
  BY <1>1 DEF QueueInv, SnapTypes, QueuesInOrder
<1>5. QueueTypes'
  BY <1>1, <1>2, <1>3 DEF QueueInv, QueueTypes
<1>6. LeftOfTicks'
  <2>1. \A c \in Clients : left[c] = 0
    BY <1>1 DEF QueueInv, LeftOfTicks
  <2>2. Len(s) >= 0
    BY <1>3
  <2>3. QED
    BY <1>1, <1>2, <2>1, <2>2 DEF LeftOfTicks
<1>7. version <= version
  BY DEF QueueInv, SnapTypes
<1>8. OneSnapshot'
  BY <1>1, <1>2, <1>3, <1>7 DEF OneSnapshot
<1>9. QueuedBefore'
  BY <1>1, <1>2, <1>3 DEF QueueInv, QueuedBefore
<1>10. QED
  BY <1>4, <1>5, <1>6, <1>8, <1>9 DEF QueueInv

\* The targets are copied, the broadcast ends, or the hub stops.
LEMMA RunStep ==
  ASSUME QueueInv, CollectTargets \/ BroadcastDone \/ CloseAll
  PROVE  QueueInv'
<1>1. /\ UNCHANGED <<version, priced, greeting, send, lost, shown>>
      /\ ticks' \in {ticks, <<>>} /\ done' \in [Clients -> BOOLEAN]
      /\ \A c \in Clients : done[c] => done'[c]
  BY DEF QueueInv, QueueTypes, CollectTargets, BroadcastDone, CloseAll, snapshot, conn
<1>2. /\ hubPc' \in {"wait", "offer", "stopped"} /\ left' \in [Clients -> Nat]
      /\ LeftOfTicks'
  <2>1. Len(ticks) \in Nat
    BY DEF QueueInv, QueueTypes
  <2>2. CASE CollectTargets
    <3>1. /\ left' = [c \in Clients |-> IF c \in clients THEN Len(ticks) ELSE 0]
          /\ hubPc' = "offer" /\ ticks' = ticks
      BY <2>2 DEF CollectTargets
    <3>2. PICK n \in Nat : n = Len(ticks)
      BY <2>1
    <3>3. n <= n /\ 0 <= n
      OBVIOUS
    <3>4. QED
      BY <3>1, <3>2, <3>3 DEF LeftOfTicks
  <2>3. CASE BroadcastDone
    <3>1. left' = left /\ (\A c \in Clients : left[c] = 0) /\ hubPc' = "wait" /\ ticks' = <<>>
      BY <2>3 DEF BroadcastDone
    <3>2. Len(<<>>) = 0
      OBVIOUS
    <3>3. QED
      BY <3>1, <3>2 DEF QueueInv, QueueTypes, LeftOfTicks
  <2>4. CASE CloseAll
    <3>1. left' = left /\ hubPc = "wait" /\ hubPc' = "stopped" /\ ticks' = ticks
      BY <2>4 DEF CloseAll
    <3>2. QED
      BY <3>1 DEF QueueInv, QueueTypes, LeftOfTicks
  <2>5. QED
    BY <2>2, <2>3, <2>4
<1>3. ticks' \in Seq(Tick) /\ \A i \in DOMAIN ticks' : i \in DOMAIN ticks /\ ticks'[i] = ticks[i]
  <2>1. CASE ticks' = ticks
    BY <2>1 DEF QueueInv, QueueTypes
  <2>2. CASE ticks' = <<>>
    <3>1. <<>> \in Seq(Tick) /\ DOMAIN <<>> = {}
      OBVIOUS
    <3>2. QED
      BY <2>2, <3>1
  <2>3. QED
    BY <1>1, <2>1, <2>2
<1>4. SnapTypes' /\ QueueTypes'
  BY <1>1, <1>2, <1>3 DEF QueueInv, SnapTypes, QueueTypes
<1>5. OneSnapshot' /\ QueuedBefore'
  BY <1>1, <1>3 DEF QueueInv, OneSnapshot, QueuedBefore
<1>6. QueuesInOrder'
  BY <1>1 DEF QueueInv, QueuesInOrder
<1>7. QED
  BY <1>2, <1>4, <1>5, <1>6 DEF QueueInv

\* A tick is queued.
LEMMA OfferStep ==
  ASSUME QueueInv, NEW c \in Clients, Offer(c)
  PROVE  QueueInv'
<1>1. /\ hubPc = "offer" /\ left[c] > 0 /\ Len(send[c]) < ClientBuffer
      /\ send' = [send EXCEPT ![c] = Append(@, NextTick(c))]
      /\ left' = [left EXCEPT ![c] = @ - 1]
      /\ UNCHANGED <<version, priced, hubPc, ticks, greeting, done, lost, shown>>
  BY DEF Offer, Turn, HasRoom, snapshot
<1>2. PICK k : k = Len(ticks) - left[c] + 1
  OBVIOUS
<1>3. k \in DOMAIN ticks /\ NextTick(c) = ticks[k]
  <2>1. Len(ticks) \in Nat /\ DOMAIN ticks = 1..Len(ticks) /\ left[c] \in Nat /\ left[c] <= Len(ticks)
    BY DEF QueueInv, QueueTypes, LeftOfTicks
  <2>2. QED
    BY <1>1, <1>2, <2>1 DEF NextTick
<1>4. PICK t, s, q : t = ticks[k] /\ s = send[c] /\ q = Append(s, t)
  OBVIOUS
<1>5. t \in Tick /\ s \in Seq(Tick)
  BY <1>3, <1>4 DEF QueueInv, QueueTypes
<1>6. /\ q \in Seq(Tick) /\ Len(q) = Len(s) + 1 /\ Len(s) \in Nat
      /\ DOMAIN s = 1..Len(s) /\ DOMAIN q = 1..(Len(s) + 1)
      /\ \A i \in 1..Len(s) : q[i] = s[i]
      /\ q[Len(s) + 1] = t
  <2>1. /\ Append(s, t) \in Seq(Tick) /\ Len(Append(s, t)) = Len(s) + 1 /\ Len(s) \in Nat
        /\ DOMAIN s = 1..Len(s) /\ DOMAIN Append(s, t) = 1..(Len(s) + 1)
        /\ \A i \in 1..Len(s) : Append(s, t)[i] = s[i]
        /\ Append(s, t)[Len(s) + 1] = t
    BY <1>5, AppendFacts
  <2>2. QED
    BY <1>4, <2>1, Zenon
<1>7. send' = [send EXCEPT ![c] = q] /\ DOMAIN send = Clients
  BY <1>1, <1>3, <1>4 DEF QueueInv, QueueTypes
<1>8. send'[c] = q /\ \A d \in Clients : d # c => send'[d] = send[d]
  BY <1>7
<1>9. SnapTypes' /\ OneSnapshot'
  BY <1>1 DEF QueueInv, SnapTypes, OneSnapshot
<1>10. QueueTypes' /\ LeftOfTicks'
  <2>1. left[c] \in Nat /\ left[c] - 1 \in Nat /\ left[c] - 1 <= left[c]
    BY <1>1 DEF QueueInv, QueueTypes
  <2>2. left \in [Clients -> Nat] /\ left' \in [Clients -> Nat]
    BY <1>1, <2>1 DEF QueueInv, QueueTypes
  <2>3. send' \in [Clients -> Seq(Tick)]
    BY <1>6, <1>7 DEF QueueInv, QueueTypes
  <2>4. QueueTypes'
    BY <1>1, <2>2, <2>3 DEF QueueInv, QueueTypes
  <2>5. \A d \in Clients : left'[d] <= left[d]
    BY <1>1, <2>1, <2>2
  <2>6. Len(ticks) \in Nat
    BY DEF QueueInv, QueueTypes
  <2>7. \A d \in Clients : left[d] <= Len(ticks)
    BY DEF QueueInv, LeftOfTicks
  <2>8. ASSUME NEW d \in Clients PROVE left'[d] <= Len(ticks)
    BY <2>2, <2>5, <2>6, <2>7
  <2>9. LeftOfTicks'
    BY <1>1, <2>8 DEF LeftOfTicks
  <2>10. QED
    BY <2>4, <2>9
<1>11. /\ t.version <= version /\ t.version \in Int
       /\ \A j \in DOMAIN ticks : t.version = ticks[j].version
  BY <1>3, <1>4, <1>5 DEF QueueInv, OneSnapshot, Tick
<1>12. \A i \in 1..Len(s) : s[i].version <= t.version /\ s[i].version <= version
  BY <1>3, <1>4, <1>6 DEF QueueInv, QueuedBefore
<1>13. \A i \in DOMAIN q : i \in 1..Len(s) \/ i = Len(s) + 1
  BY <1>6
<1>14. \A i \in DOMAIN q : q[i].version <= version /\ q[i].version <= t.version
  <2>1. t.version <= t.version
    BY <1>11
  <2>2. QED
    BY <1>6, <1>11, <1>12, <1>13, <2>1, Zenon
<1>15. QueuedBefore'
  <2>1. ASSUME NEW d \in Clients, NEW i \in DOMAIN send'[d]
        PROVE  /\ send'[d][i].version <= version
               /\ \A j \in DOMAIN ticks : send'[d][i].version <= ticks[j].version
    <3>1. CASE d = c
      BY <1>8, <1>11, <1>14, <3>1, Zenon
    <3>2. CASE d # c
      <4>1. send'[d] = send[d]
        BY <1>8, <3>2
      <4>2. QED
        BY <2>1, <4>1, Zenon DEF QueueInv, QueuedBefore
    <3>3. QED
      BY <3>1, <3>2
  <2>2. QED
    BY <1>1, <2>1 DEF QueuedBefore
<1>16. QueuesInOrder'
  <2>1. ASSUME NEW i \in DOMAIN q, NEW j \in DOMAIN q, i < j PROVE q[i].version <= q[j].version
    <3>1. i \in 1..Len(s)
      BY <1>6, <2>1
    <3>2. CASE j \in 1..Len(s)
      <4>1. s[i].version <= s[j].version
        BY <1>4, <1>6, <2>1, <3>1, <3>2 DEF QueueInv, QueuesInOrder
      <4>2. QED
        BY <1>6, <3>1, <3>2, <4>1, Zenon
    <3>3. CASE j = Len(s) + 1
      BY <1>6, <1>12, <3>1, <3>3, Zenon
    <3>4. QED
      BY <1>13, <3>2, <3>3
  <2>2. Len(q) <= ClientBuffer
    BY <1>1, <1>4, <1>6, HubAssumption
  <2>3. ASSUME NEW d \in Clients
        PROVE  /\ Len(send'[d]) <= ClientBuffer
               /\ \A i, j \in DOMAIN send'[d] : i < j => send'[d][i].version <= send'[d][j].version
    <3>1. CASE d = c
      BY <1>8, <2>1, <2>2, <3>1, Zenon
    <3>2. CASE d # c
      <4>1. send'[d] = send[d]
        BY <1>8, <3>2
      <4>2. QED
        BY <4>1, Zenon DEF QueueInv, QueuesInOrder
    <3>3. QED
      BY <3>1, <3>2
  <2>4. \A d \in Clients : lost'[d] => done'[d]
    BY <1>1 DEF QueueInv, QueuesInOrder
  <2>5. QED
    BY <1>1, <2>3, <2>4, Zenon DEF QueuesInOrder
<1>17. QED
  BY <1>9, <1>10, <1>15, <1>16 DEF QueueInv

\* A full queue.
LEMMA OverflowStep ==
  ASSUME QueueInv, NEW c \in Clients, OfferOverflows(c)
  PROVE  QueueInv'
<1>1. /\ hubPc = "offer" /\ left[c] > 0
      /\ done' = [done EXCEPT ![c] = TRUE] /\ lost' = [lost EXCEPT ![c] = TRUE]
      /\ left' = [left EXCEPT ![c] = @ - 1]
      /\ UNCHANGED <<version, priced, hubPc, ticks, greeting, send, shown>>
  BY DEF OfferOverflows, Turn, snapshot
<1>2. left[c] - 1 \in Nat /\ left[c] \in Nat /\ left \in [Clients -> Nat]
  BY <1>1 DEF QueueInv, QueueTypes
<1>3. left' \in [Clients -> Nat] /\ \A d \in Clients : left'[d] <= left[d]
  BY <1>1, <1>2
<1>4. LeftOfTicks'
  <2>1. Len(ticks) \in Nat /\ \A d \in Clients : left[d] <= Len(ticks)
    BY DEF QueueInv, QueueTypes, LeftOfTicks
  <2>2. \A d \in Clients : left'[d] <= Len(ticks)
    BY <1>2, <1>3, <2>1
  <2>3. QED
    BY <1>1, <2>2 DEF LeftOfTicks
<1>5. /\ done' \in [Clients -> BOOLEAN] /\ lost' \in [Clients -> BOOLEAN]
      /\ \A d \in Clients : lost'[d] => done'[d]
  <2>1. done \in [Clients -> BOOLEAN] /\ lost \in [Clients -> BOOLEAN]
    BY DEF QueueInv, QueueTypes
  <2>2. \A d \in Clients : lost[d] => done[d]
    BY DEF QueueInv, QueuesInOrder
  <2>3. QED
    BY <1>1, <2>1, <2>2
<1>6. SnapTypes' /\ QueueTypes' /\ OneSnapshot' /\ QueuedBefore'
  BY <1>1, <1>3, <1>5 DEF QueueInv, SnapTypes, QueueTypes, OneSnapshot, QueuedBefore
<1>7. QueuesInOrder'
  BY <1>1, <1>5 DEF QueueInv, QueuesInOrder
<1>8. QED
  BY <1>4, <1>6, <1>7 DEF QueueInv

\* A step that leaves the broadcast alone and the queue as it was, shorter at its head, or
\* empty, keeps the invariant if it keeps the types and whoever missed a tick closed.
LEMMA WriterStep ==
  ASSUME QueueInv, NEW c \in Clients, NEW q \in Seq(Tick),
         UNCHANGED <<version, priced, hubPc, ticks, left>>,
         q = send[c] \/ q = <<>> \/ (send[c] # <<>> /\ q = Tail(send[c])),
         send' = [send EXCEPT ![c] = q],
         greeting' \in [Clients -> Seq(Tick)],
         shown' \in [Clients -> [Tracked -> 0..MaxVersion]],
         done' \in [Clients -> BOOLEAN], lost' \in [Clients -> BOOLEAN],
         \A d \in Clients : lost'[d] => done'[d]
  PROVE  QueueInv'
<1>1. PICK s \in Seq(Tick) : s = send[c]
  BY DEF QueueInv, QueueTypes
<1>2. /\ Len(q) <= Len(s) /\ Len(s) \in Nat /\ Len(q) \in Nat
      /\ \E m \in 0..1 : \A i \in DOMAIN q : i + m \in DOMAIN s /\ q[i] = s[i + m]
  <2>1. CASE q = s
    <3>1. \A i \in DOMAIN q : i + 0 \in DOMAIN s /\ q[i] = s[i + 0]
      BY <2>1
    <3>2. 0 \in 0..1 /\ Len(q) <= Len(s) /\ Len(s) \in Nat /\ Len(q) \in Nat
      BY <2>1
    <3>3. QED
      BY <3>1, <3>2
  <2>2. CASE q = <<>>
    BY <2>2
  <2>3. CASE s # <<>> /\ q = Tail(s)
    <3>1. /\ Len(q) = Len(s) - 1 /\ Len(s) \in Nat \ {0}
          /\ \A i \in DOMAIN q : i + 1 \in DOMAIN s /\ q[i] = s[i + 1]
      BY <2>3, TailFacts, Zenon
    <3>2. 1 \in 0..1 /\ Len(q) <= Len(s) /\ Len(q) \in Nat
      BY <3>1
    <3>3. QED
      BY <3>1, <3>2
  <2>4. QED
    BY <1>1, <2>1, <2>2, <2>3
<1>3. PICK m \in 0..1 : \A i \in DOMAIN q : i + m \in DOMAIN s /\ q[i] = s[i + m]
  BY <1>2
<1>4. /\ Len(s) <= ClientBuffer
      /\ \A i, j \in DOMAIN s : i < j => s[i].version <= s[j].version
      /\ \A i \in DOMAIN s : /\ s[i].version <= version
                             /\ \A j \in DOMAIN ticks : s[i].version <= ticks[j].version
  BY <1>1 DEF QueueInv, QueuesInOrder, QueuedBefore
<1>5. ASSUME NEW i \in DOMAIN q, NEW j \in DOMAIN q, i < j PROVE q[i].version <= q[j].version
  <2>1. i \in Int /\ j \in Int
    OBVIOUS
  <2>2. i + m < j + m
    BY <1>5, <2>1
  <2>3. QED
    BY <1>3, <1>4, <2>2
<1>6. /\ Len(q) <= ClientBuffer
      /\ \A i \in DOMAIN q : /\ q[i].version <= version
                             /\ \A j \in DOMAIN ticks : q[i].version <= ticks[j].version
  <2>1. Len(q) <= ClientBuffer
    BY <1>2, <1>4, HubAssumption
  <2>2. QED
    BY <1>3, <1>4, <2>1
<1>7. /\ send'[c] = q /\ \A d \in Clients : d # c => send'[d] = send[d]
      /\ send' \in [Clients -> Seq(Tick)]
  BY DEF QueueInv, QueueTypes
<1>8. SnapTypes' /\ QueueTypes' /\ LeftOfTicks' /\ OneSnapshot'
  BY <1>7 DEF QueueInv, SnapTypes, QueueTypes, LeftOfTicks, OneSnapshot
<1>9. ASSUME NEW d \in Clients
      PROVE  /\ Len(send'[d]) <= ClientBuffer
             /\ \A i, j \in DOMAIN send'[d] : i < j => send'[d][i].version <= send'[d][j].version
             /\ \A i \in DOMAIN send'[d] :
                  /\ send'[d][i].version <= version
                  /\ \A j \in DOMAIN ticks : send'[d][i].version <= ticks[j].version
  <2>1. CASE d = c
    BY <1>5, <1>6, <1>7, <2>1, Zenon
  <2>2. CASE d # c
    <3>1. send'[d] = send[d]
      BY <1>7, <2>2
    <3>2. QED
      BY <3>1, Zenon DEF QueueInv, QueuesInOrder, QueuedBefore
  <2>3. QED
    BY <2>1, <2>2
<1>10. QueuedBefore' /\ QueuesInOrder'
  BY <1>9 DEF QueuedBefore, QueuesInOrder
<1>11. QED
  BY <1>8, <1>10 DEF QueueInv

\* A tick that is written is shown.
LEMMA ShowTypes ==
  ASSUME QueueInv, NEW c \in Clients, NEW t \in Tick, Show(c, t)
  PROVE  shown' \in [Clients -> [Tracked -> 0..MaxVersion]]
<1>1. t.pair \in Tracked /\ t.version \in 0..MaxVersion
  <2>1. t.pair \in Tracked /\ t.version \in 1..MaxVersion
    BY DEF Tick
  <2>2. QED
    BY <2>1, HubAssumption
<1>2. shown \in [Clients -> [Tracked -> 0..MaxVersion]]
  BY DEF QueueInv, QueueTypes
<1>3. QED
  BY <1>1, <1>2 DEF Show

\* Every step of the hub and of the connections keeps the queues in order.
LEMMA QueueStep == QueueInv /\ [Next]_vars => QueueInv'
<1> SUFFICES ASSUME QueueInv, [Next]_vars PROVE QueueInv'
  OBVIOUS
<1>1. /\ send \in [Clients -> Seq(Tick)] /\ greeting \in [Clients -> Seq(Tick)]
      /\ done \in [Clients -> BOOLEAN] /\ lost \in [Clients -> BOOLEAN]
      /\ shown \in [Clients -> [Tracked -> 0..MaxVersion]]
      /\ \A d \in Clients : lost[d] => done[d]
  BY DEF QueueInv, QueueTypes, QueuesInOrder
<1>2. \A c \in Clients : send[c] \in Seq(Tick) /\ send = [send EXCEPT ![c] = send[c]]
  BY <1>1
<1>3. CASE Publish
  BY <1>3, PublishStep
<1>4. CASE Broadcast \/ CloseAll
  BY <1>4, TickerStep, RunStep, OfferStep, OverflowStep, Zenon DEF Broadcast
<1>5. ASSUME UNCHANGED <<snapshot, hub, greeting, send, done, lost, shown>> PROVE QueueInv'
  BY <1>5 DEF snapshot, hub, QueueInv, SnapTypes, QueueTypes, LeftOfTicks, OneSnapshot,
              QueuedBefore, QueuesInOrder
<1>6. ASSUME NEW c \in Clients, Connect(c) PROVE QueueInv'
  <2>1. UNCHANGED <<snapshot, hub, greeting, send, done, lost, shown>>
    BY <1>6 DEF Connect
  <2>2. QED
    BY <1>5, <2>1
<1>7. ASSUME NEW c \in Clients, StartWriter(c) PROVE QueueInv'
  <2>1. /\ greeting' = [greeting EXCEPT ![c] = CurrentPrices]
        /\ UNCHANGED <<version, priced, hubPc, ticks, left, send, done, lost, shown>>
    BY <1>7 DEF StartWriter, snapshot, hub
  <2>2. CurrentPrices \in Seq(Tick)
    BY PriceFacts DEF QueueInv
  <2>3. greeting' \in [Clients -> Seq(Tick)]
    BY <1>1, <2>1, <2>2
  <2>4. QED
    BY <2>1, <2>3 DEF QueueInv, SnapTypes, QueueTypes, LeftOfTicks, OneSnapshot,
                      QueuedBefore, QueuesInOrder
<1>8. ASSUME NEW c \in Clients, Greet(c) PROVE QueueInv'
  <2>1. /\ greeting[c] # <<>> /\ Show(c, Head(greeting[c]))
        /\ greeting' = [greeting EXCEPT ![c] = Tail(greeting[c])]
        /\ UNCHANGED <<version, priced, hubPc, ticks, left, send, done, lost>>
    BY <1>8 DEF Greet, snapshot, hub
  <2>2. PICK g \in Seq(Tick) : g = greeting[c]
    BY <1>1
  <2>3. Head(g) \in Tick /\ Tail(g) \in Seq(Tick)
    BY <2>1, <2>2, TailFacts, Zenon
  <2>4. shown' \in [Clients -> [Tracked -> 0..MaxVersion]]
    BY <2>1, <2>2, <2>3, ShowTypes, Zenon
  <2>5. greeting' \in [Clients -> Seq(Tick)]
    BY <1>1, <2>1, <2>2, <2>3
  <2>6. QED
    BY <2>1, <2>4, <2>5 DEF QueueInv, SnapTypes, QueueTypes, LeftOfTicks, OneSnapshot,
                            QueuedBefore, QueuesInOrder
<1>9. ASSUME NEW c \in Clients, WriteTick(c) PROVE QueueInv'
  <2>1. /\ send[c] # <<>> /\ Show(c, Head(send[c]))
        /\ send' = [send EXCEPT ![c] = Tail(send[c])]
        /\ UNCHANGED <<version, priced, hubPc, ticks, left, greeting, done, lost>>
    BY <1>9 DEF WriteTick, snapshot, hub
  <2>2. Head(send[c]) \in Tick /\ Tail(send[c]) \in Seq(Tick)
    BY <1>2, <2>1, TailFacts, Zenon
  <2>3. shown' \in [Clients -> [Tracked -> 0..MaxVersion]]
    BY <2>1, <2>2, ShowTypes, Zenon
  <2>4. /\ greeting' \in [Clients -> Seq(Tick)]
        /\ done' \in [Clients -> BOOLEAN] /\ lost' \in [Clients -> BOOLEAN]
        /\ \A d \in Clients : lost'[d] => done'[d]
    BY <1>1, <2>1
  <2>5. QED
    BY <2>1, <2>2, <2>3, <2>4, WriterStep
<1>10. ASSUME NEW c \in Clients, SeeDone(c) \/ WriteFails(c) PROVE QueueInv'
  <2>1. /\ greeting' = [greeting EXCEPT ![c] = <<>>]
        /\ lost' = [lost EXCEPT ![c] = FALSE]
        /\ shown' = [shown EXCEPT ![c] = Unshown]
        /\ UNCHANGED <<version, priced, hubPc, ticks, left, send, done>>
    BY <1>10 DEF SeeDone, WriteFails, LeaveLoop, snapshot, hub
  <2>2. Unshown \in [Tracked -> 0..MaxVersion] /\ <<>> \in Seq(Tick)
    BY HubAssumption DEF Unshown
  <2>3. /\ greeting' \in [Clients -> Seq(Tick)]
        /\ shown' \in [Clients -> [Tracked -> 0..MaxVersion]]
    BY <1>1, <2>1, <2>2
  <2>4. /\ done' \in [Clients -> BOOLEAN] /\ lost' \in [Clients -> BOOLEAN]
        /\ \A d \in Clients : lost'[d] => done'[d]
    BY <1>1, <2>1
  <2>5. send' = [send EXCEPT ![c] = send[c]]
    BY <1>2, <2>1
  <2>6. QED
    BY <1>2, <2>1, <2>3, <2>4, <2>5, WriterStep
<1>11. ASSUME NEW c \in Clients, WriterLeaves(c) \/ ReaderLeaves(c) PROVE QueueInv'
  <2>1. /\ done' = [done EXCEPT ![c] = TRUE]
        /\ UNCHANGED <<version, priced, hubPc, ticks, left, greeting, send, lost, shown>>
    BY <1>11 DEF WriterLeaves, ReaderLeaves, Remove, snapshot, hub
  <2>2. /\ done' \in [Clients -> BOOLEAN] /\ lost' \in [Clients -> BOOLEAN]
        /\ \A d \in Clients : lost'[d] => done'[d]
    BY <1>1, <2>1
  <2>3. QED
    BY <2>1, <2>2 DEF QueueInv, SnapTypes, QueueTypes, LeftOfTicks, OneSnapshot,
                      QueuedBefore, QueuesInOrder
<1>12. ASSUME NEW c \in Clients, Forget(c) PROVE QueueInv'
  <2>1. /\ send' = [send EXCEPT ![c] = <<>>]
        /\ done' = [done EXCEPT ![c] = FALSE]
        /\ lost' = [lost EXCEPT ![c] = FALSE]
        /\ UNCHANGED <<version, priced, hubPc, ticks, left, greeting, shown>>
    BY <1>12 DEF Forget, snapshot, hub
  <2>2. /\ done' \in [Clients -> BOOLEAN] /\ lost' \in [Clients -> BOOLEAN]
        /\ \A d \in Clients : lost'[d] => done'[d]
    BY <1>1, <2>1
  <2>3. <<>> \in Seq(Tick)
    OBVIOUS
  <2>4. /\ greeting' \in [Clients -> Seq(Tick)]
        /\ shown' \in [Clients -> [Tracked -> 0..MaxVersion]]
    BY <1>1, <2>1
  <2>5. QED
    BY <2>1, <2>2, <2>3, <2>4, WriterStep
<1>13. CASE UNCHANGED vars
  BY <1>5, <1>13 DEF vars, conn
<1>14. QED
  BY <1>3, <1>4, <1>6, <1>7, <1>8, <1>9, <1>10, <1>11, <1>12, <1>13 DEF Next, Write

\* The inductive invariant of the queues, the types among it (ws.go:70-118, 142-174,
\* 236-289).
THEOREM QueueInvariant == Spec => []QueueInv
<1>1. ASSUME Init PROVE QueueInv
  <2>1. SnapTypes /\ <<>> \in Seq(Tick)
    BY <1>1, HubAssumption DEF Init, SnapTypes
  <2>2. Unshown \in [Tracked -> 0..MaxVersion]
    BY HubAssumption DEF Unshown
  <2>3. QueueTypes
    BY <1>1, <2>1, <2>2 DEF Init, QueueTypes
  <2>4. Len(<<>>) = 0 /\ DOMAIN <<>> = {}
    OBVIOUS
  <2>5. LeftOfTicks /\ OneSnapshot /\ QueuedBefore
    BY <1>1, <2>4 DEF Init, LeftOfTicks, OneSnapshot, QueuedBefore
  <2>6. QueuesInOrder
    BY <1>1, <2>4, HubAssumption DEF Init, QueuesInOrder
  <2>7. QED
    BY <2>1, <2>3, <2>5, <2>6 DEF QueueInv
<1>2. QED
  BY <1>1, QueueStep, PTL DEF Spec

\* However slow a client is, its queue stays within the buffer, in the order of the
\* snapshots, and a client that a tick could not reach is closed (ws.go:29-33, 79-88).
THEOREM SlowClientsAreCut == Spec => []QueuesInOrder
<1>1. QueueInv => QueuesInOrder
  BY DEF QueueInv
<1>2. QED
  BY <1>1, QueueInvariant, PTL
=============================================================================
