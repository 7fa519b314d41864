--------------------------- MODULE IndexerProofs ---------------------------
(***************************************************************************)
(* Proofs about Indexer, for any finite set of sources and any bounds.     *)
(***************************************************************************)
EXTENDS Indexer, FiniteSetTheorems, TLAPS

Snapshot == [present : BOOLEAN, pools : SUBSET Sources, read : [Sources -> Age],
             built : Age, spent : Age, warm : BOOLEAN]

\* Ages grow by one, up to MaxAge, and keep their order.
LEMMA OlderType ==
  ASSUME NEW m \in Age, NEW n \in Age, NEW k \in Age
  PROVE  /\ Older(m) \in Age
         /\ m <= n => Older(m) <= Older(n)
         /\ m <= n + k => Older(m) <= Older(n) + k
BY IndexerAssumption DEF Older, Age

\* Ageing a pool set keeps its type.
LEMMA AgeAllType ==
  ASSUME NEW P, NEW r \in [Sources -> Age]
  PROVE  AgeAll(P, r) \in [Sources -> Age]
BY OlderType DEF AgeAll

\* The reading of no pools at all is a reading.
LEMMA EmptyType == Empty \in [Sources -> Age] /\ 0 \in Age
BY IndexerAssumption DEF Empty, Age

\* The number of healthy sources is at most the number of sources.
LEMMA HealthyCount == Cardinality(Healthy) \in 0..Cardinality(Sources)
<1>1. Healthy \subseteq Sources
  BY DEF Healthy
<1> QED
  BY <1>1, IndexerAssumption, FS_Subset, FS_CardinalityType

----------------------------------------------------------------------------
(* Types.                                                                  *)

\* The initial state has its types.
LEMMA InitType == ASSUME Init PROVE TypeOK
<1>1. Cardinality(Sources) \in Nat
  BY IndexerAssumption, FS_CardinalityType
<1>2. snap \in Snapshot
  BY EmptyType DEF Init, NoSnapshot, Snapshot
<1>3. status \in [refreshed : BOOLEAN, pools : SUBSET Sources,
                  healthy : 0..Cardinality(Sources)]
  BY <1>1 DEF Init, NewStatus
<1>4. store \in [ttl : 0..TTL, pools : SUBSET Sources, read : [Sources -> Age]]
  BY EmptyType, IndexerAssumption DEF Init
<1>5. /\ pc \in {"down", "warm", "fetch", "record", "save", "wait"}
      /\ outcome \in [Sources -> {"pending", "pools", "empty", "failed"}]
      /\ readAge \in [Sources -> Age] /\ elapsed \in Age
      /\ lastErr \in {"nil", "partial", "all"}
  BY EmptyType DEF Init
<1>6. serving \in BOOLEAN
  BY DEF Init
<1> QED
  BY <1>2, <1>3, <1>4, <1>5, <1>6 DEF TypeOK, Snapshot

\* So has the state in which a refresh begins.
LEMMA BeginType ==
  ASSUME BeginRefresh
  PROVE  /\ pc' = "fetch" /\ elapsed' \in Age /\ readAge' \in [Sources -> Age]
         /\ outcome' \in [Sources -> {"pending", "pools", "empty", "failed"}]
BY EmptyType DEF BeginRefresh

\* Every step keeps the types.
LEMMA TypeStep == ASSUME TypeOK, [Next]_vars PROVE TypeOK'
<1> USE DEF TypeOK, poll, report
<1>1. CASE Boot
  BY <1>1 DEF Boot
<1>2. CASE WarmLoaded
  <2>1. snap' \in Snapshot
    BY <1>2, EmptyType DEF WarmLoaded, Snapshot
  <2> QED
    BY <1>2, <2>1, BeginType DEF WarmLoaded, Snapshot
<1>3. CASE WarmNothing
  BY <1>3, BeginType DEF WarmNothing
<1>4. ASSUME NEW s \in Sources, PollAnswers(s) PROVE TypeOK'
  <2>1. \A a \in 0..elapsed : a \in Age
    BY IndexerAssumption DEF Age
  <2> QED
    BY <1>4, <2>1 DEF PollAnswers
<1>5. ASSUME NEW s \in Sources, PollFails(s) PROVE TypeOK'
  BY <1>5 DEF PollFails
<1>6. CASE RefreshFails
  <2>1. status' \in [refreshed : BOOLEAN, pools : SUBSET Sources,
                     healthy : 0..Cardinality(Sources)]
    <3>1. 0 \in 0..Cardinality(Sources)
      BY IndexerAssumption, FS_CardinalityType
    <3> QED
      BY <1>6, <3>1 DEF RefreshFails
  <2> QED
    BY <1>6, <2>1 DEF RefreshFails, EndRefresh
<1>7. CASE Publish
  <2>1. snap' \in Snapshot
    BY <1>7, EmptyType DEF Publish, Snapshot, Answered
  <2> QED
    BY <1>7, <2>1 DEF Publish, Snapshot
<1>8. CASE RecordSuccess
  <2>1. status' \in [refreshed : BOOLEAN, pools : SUBSET Sources,
                     healthy : 0..Cardinality(Sources)]
    BY <1>8, HealthyCount DEF RecordSuccess
  <2> QED
    BY <1>8, <2>1 DEF RecordSuccess
<1>9. CASE SaveSucceeds
  <2>1. store' \in [ttl : 0..TTL, pools : SUBSET Sources, read : [Sources -> Age]]
    BY <1>9, IndexerAssumption DEF SaveSucceeds, Answered
  <2> QED
    BY <1>9, <2>1 DEF SaveSucceeds, EndRefresh
<1>10. CASE SaveFails
  BY <1>10 DEF SaveFails, EndRefresh
<1>11. CASE TickerFires
  BY <1>11, BeginType DEF TickerFires
<1>12. CASE Crash
  <2>1. snap' \in Snapshot /\ status' \in [refreshed : BOOLEAN, pools : SUBSET Sources,
                                           healthy : 0..Cardinality(Sources)]
    <3>1. 0 \in 0..Cardinality(Sources)
      BY IndexerAssumption, FS_CardinalityType
    <3> QED
      BY <1>12, <3>1, EmptyType DEF Crash, NoSnapshot, NewStatus, Snapshot
  <2> QED
    BY <1>12, <2>1, EmptyType DEF Crash, Snapshot
<1>13. CASE SiblingSaves
  <2>1. \A a \in 0..SaveLag : a \in Age
    BY IndexerAssumption DEF Age
  <2>2. store' \in [ttl : 0..TTL, pools : SUBSET Sources, read : [Sources -> Age]]
    BY <1>13, <2>1, EmptyType, IndexerAssumption DEF SiblingSaves
  <2> QED
    BY <1>13, <2>2 DEF SiblingSaves
<1>14. CASE Tick
  <2>1. elapsed' \in Age /\ readAge' \in [Sources -> Age]
    BY <1>14, OlderType, AgeAllType DEF Tick
  <2>2. snap' \in Snapshot
    <3>1. CASE snap.present
      <4>1. AgeAll(snap.pools, snap.read) \in [Sources -> Age] /\ Older(snap.built) \in Age
        BY OlderType, AgeAllType
      <4> QED
        BY <1>14, <3>1, <4>1 DEF Tick, Snapshot
    <3>2. CASE ~snap.present
      <4>1. snap' = snap
        BY <1>14, <3>2, Zenon DEF Tick
      <4> QED
        BY <4>1 DEF Snapshot
    <3> QED
      BY <3>1, <3>2
  <2>3. store' \in [ttl : 0..TTL, pools : SUBSET Sources, read : [Sources -> Age]]
    <3>1. AgeAll(store.pools, store.read) \in [Sources -> Age]
      BY AgeAllType
    <3>2. CASE store.ttl > 1
      <4>1. store.ttl - 1 \in 0..TTL
        BY <3>2, IndexerAssumption
      <4>2. store' = [store EXCEPT !.ttl = store.ttl - 1,
                                   !.read = AgeAll(store.pools, store.read)]
        BY <1>14, <3>2 DEF Tick
      <4> QED
        BY <3>1, <4>1, <4>2
    <3>3. CASE ~(store.ttl > 1)
      <4>1. store' = [ttl |-> 0, pools |-> {}, read |-> Empty]
        BY <1>14, <3>3 DEF Tick
      <4> QED
        BY <4>1, EmptyType, IndexerAssumption
    <3> QED
      BY <3>2, <3>3
  <2> QED
    BY <1>14, <2>1, <2>2, <2>3 DEF Tick, Snapshot
<1>15. CASE UNCHANGED vars
  BY <1>15 DEF vars
<1> QED
  BY <1>1, <1>2, <1>3, <1>4, <1>5, <1>6, <1>7, <1>8, <1>9, <1>10, <1>11, <1>12, <1>13,
     <1>14, <1>15 DEF Next, Refresh

----------------------------------------------------------------------------
(* The inductive invariant.                                                *)

\* Before the first refresh nothing is published and nothing is reported.
Started == pc \in {"down", "warm"} => snap.pools = {} /\ ~snap.present /\ ~status.refreshed

\* An unpublished holder has no pools.
HolderEmpty == ~snap.present => snap.pools = {}

\* What the sources have answered so far was read during this refresh.
AnswersAreNew == pc = "fetch" => \A s \in Answered : readAge[s] <= elapsed

\* What is being served was read before this refresh began.
ServedIsOlder == pc = "fetch" => \A s \in snap.pools : elapsed <= snap.read[s]

\* recordSuccess is only reached when some source answered.
SomeAnswer == pc = "record" => Healthy # {}

IInv == /\ TypeOK /\ Started /\ HolderEmpty /\ AnswersAreNew /\ ServedIsOlder
        /\ SomeAnswer
        /\ LiveAgeIsHonest /\ StatusMatchesSnapshot /\ ErrorTellsLastRefresh

\* The invariant holds initially.
LEMMA InitIInv == ASSUME Init PROVE IInv
<1>1. TypeOK
  BY InitType
<1>2. pc = "down" /\ snap.pools = {} /\ ~snap.present /\ ~status.refreshed
  BY DEF Init, NoSnapshot, NewStatus
<1> QED
  BY <1>1, <1>2 DEF IInv, Started, HolderEmpty, AnswersAreNew, ServedIsOlder, SomeAnswer,
     LiveAgeIsHonest, StatusMatchesSnapshot, ErrorTellsLastRefresh

\* Nothing is published before the first refresh: preserved by every step.
LEMMA StartedStep == ASSUME IInv, [Next]_vars PROVE Started' /\ HolderEmpty'
<1> USE DEF IInv, TypeOK, Started, HolderEmpty, poll, report
<1>1. CASE Boot
  BY <1>1 DEF Boot
<1>2. CASE WarmLoaded
  BY <1>2 DEF WarmLoaded, BeginRefresh
<1>3. CASE WarmNothing
  BY <1>3 DEF WarmNothing, BeginRefresh
<1>4. ASSUME NEW s \in Sources, PollAnswers(s) \/ PollFails(s)
      PROVE  Started' /\ HolderEmpty'
  BY <1>4 DEF PollAnswers, PollFails
<1>5. CASE RefreshFails
  BY <1>5 DEF RefreshFails, EndRefresh
<1>6. CASE Publish
  BY <1>6 DEF Publish
<1>7. CASE RecordSuccess
  BY <1>7 DEF RecordSuccess
<1>8. CASE SaveSucceeds \/ SaveFails
  BY <1>8 DEF SaveSucceeds, SaveFails, EndRefresh
<1>9. CASE TickerFires
  BY <1>9 DEF TickerFires, BeginRefresh
<1>10. CASE Crash
  BY <1>10 DEF Crash, NoSnapshot, NewStatus
<1>11. CASE SiblingSaves
  BY <1>11 DEF SiblingSaves
<1>12. CASE Tick
  <2>1. /\ snap'.pools = snap.pools
        /\ snap'.present = snap.present
    BY <1>12 DEF Tick
  <2> QED
    BY <1>12, <2>1 DEF Tick
<1>13. CASE UNCHANGED vars
  BY <1>13 DEF vars
<1> QED
  BY <1>1, <1>2, <1>3, <1>4, <1>5, <1>6, <1>7, <1>8, <1>9, <1>10, <1>11, <1>12, <1>13
     DEF Next, Refresh

\* Time keeps the order of ages.
LEMMA TickAges ==
  ASSUME IInv, Tick
  PROVE  /\ AnswersAreNew' /\ ServedIsOlder' /\ LiveAgeIsHonest'
<1> USE DEF IInv, TypeOK
<1>1. Answered' = Answered /\ Answered \subseteq Sources
  BY DEF Tick, Answered
<1>2. /\ snap'.pools = snap.pools /\ snap'.present = snap.present
      /\ snap'.spent = snap.spent /\ snap'.warm = snap.warm
  BY DEF Tick
<1>3. AnswersAreNew'
  <2> SUFFICES ASSUME pc = "fetch", NEW s \in Answered
               PROVE  readAge'[s] <= elapsed'
    BY <1>1 DEF AnswersAreNew, Tick
  <2>1. readAge[s] <= elapsed /\ readAge[s] \in Age
    BY <1>1 DEF AnswersAreNew
  <2>2. readAge'[s] = Older(readAge[s]) /\ elapsed' = Older(elapsed)
    BY <1>1 DEF Tick, AgeAll
  <2> QED
    BY <2>1, <2>2, OlderType
<1>4. ASSUME NEW s \in snap.pools, snap.present
      PROVE  snap'.read[s] = Older(snap.read[s]) /\ snap.read[s] \in Age
  <2>1. snap'.read = AgeAll(snap.pools, snap.read)
    BY <1>4 DEF Tick
  <2> QED
    BY <1>4, <2>1 DEF AgeAll
<1>5. ServedIsOlder'
  <2> SUFFICES ASSUME pc = "fetch", NEW s \in snap.pools
               PROVE  elapsed' <= snap'.read[s]
    BY <1>2 DEF ServedIsOlder, Tick
  <2>1. snap.present
    BY DEF HolderEmpty
  <2>2. elapsed <= snap.read[s] /\ elapsed' = Older(elapsed)
    BY DEF ServedIsOlder, Tick
  <2> QED
    BY <2>1, <2>2, <1>4, OlderType
<1>6. LiveAgeIsHonest'
  <2> SUFFICES ASSUME snap.present, ~snap.warm, NEW s \in snap.pools
               PROVE  snap'.read[s] <= snap'.built + snap.spent
    BY <1>2 DEF LiveAgeIsHonest, AgeIsHonest
  <2>1. snap.read[s] <= snap.built + snap.spent
    BY DEF LiveAgeIsHonest, AgeIsHonest
  <2>2. snap'.built = Older(snap.built)
    BY DEF Tick
  <2> QED
    BY <2>1, <2>2, <1>4, OlderType
<1> QED
  BY <1>3, <1>5, <1>6

\* A refresh under way holds only new readings, and replaces only older ones.
LEMMA AgesStep ==
  ASSUME IInv, [Next]_vars
  PROVE  AnswersAreNew' /\ ServedIsOlder' /\ LiveAgeIsHonest'
<1> USE DEF IInv, TypeOK, AnswersAreNew, ServedIsOlder, LiveAgeIsHonest, AgeIsHonest,
            Answered, poll, report
<1>1. CASE Boot
  BY <1>1 DEF Boot
<1>2. CASE WarmLoaded
  BY <1>2 DEF WarmLoaded, BeginRefresh, Age
<1>3. CASE WarmNothing
  BY <1>3 DEF WarmNothing, BeginRefresh, Age
<1>4. ASSUME NEW s \in Sources, PollAnswers(s)
      PROVE  AnswersAreNew' /\ ServedIsOlder' /\ LiveAgeIsHonest'
  <2>1. ServedIsOlder' /\ LiveAgeIsHonest'
    BY <1>4 DEF PollAnswers
  <2>2. AnswersAreNew'
    BY <1>4 DEF PollAnswers, Age
  <2> QED
    BY <2>1, <2>2
<1>5. ASSUME NEW s \in Sources, PollFails(s)
      PROVE  AnswersAreNew' /\ ServedIsOlder' /\ LiveAgeIsHonest'
  BY <1>5 DEF PollFails
<1>6. CASE RefreshFails
  BY <1>6 DEF RefreshFails, EndRefresh
<1>7. CASE Publish
  BY <1>7 DEF Publish, AllPolled, Age
<1>8. CASE RecordSuccess
  BY <1>8 DEF RecordSuccess
<1>9. CASE SaveSucceeds \/ SaveFails
  BY <1>9 DEF SaveSucceeds, SaveFails, EndRefresh
<1>10. CASE TickerFires
  BY <1>10 DEF TickerFires, BeginRefresh, Age
<1>11. CASE Crash
  BY <1>11 DEF Crash, NoSnapshot
<1>12. CASE SiblingSaves
  BY <1>12 DEF SiblingSaves
<1>13. CASE Tick
  BY <1>13, TickAges DEF Tick
<1>14. CASE UNCHANGED vars
  BY <1>14 DEF vars
<1> QED
  BY <1>1, <1>2, <1>3, <1>4, <1>5, <1>6, <1>7, <1>8, <1>9, <1>10, <1>11, <1>12, <1>13,
     <1>14 DEF Next, Refresh

\* The status and the error tell of the last refresh: preserved by every step.
LEMMA ReportStep ==
  ASSUME IInv, [Next]_vars
  PROVE  SomeAnswer' /\ StatusMatchesSnapshot' /\ ErrorTellsLastRefresh'
<1> USE DEF IInv, TypeOK, Started, SomeAnswer, StatusMatchesSnapshot,
            ErrorTellsLastRefresh, Healthy, Failed, poll, report
<1>1. CASE Boot
  BY <1>1 DEF Boot
<1>2. CASE WarmLoaded
  BY <1>2 DEF WarmLoaded, BeginRefresh
<1>3. CASE WarmNothing
  BY <1>3 DEF WarmNothing, BeginRefresh
<1>4. ASSUME NEW s \in Sources, PollAnswers(s) \/ PollFails(s)
      PROVE  SomeAnswer' /\ StatusMatchesSnapshot' /\ ErrorTellsLastRefresh'
  BY <1>4 DEF PollAnswers, PollFails
<1>5. CASE RefreshFails
  BY <1>5, IndexerAssumption DEF RefreshFails, AllPolled, EndRefresh
<1>6. CASE Publish
  BY <1>6 DEF Publish, AllPolled
<1>7. CASE RecordSuccess
  BY <1>7 DEF RecordSuccess
<1>8. CASE SaveSucceeds \/ SaveFails
  BY <1>8 DEF SaveSucceeds, SaveFails, EndRefresh
<1>9. CASE TickerFires
  BY <1>9 DEF TickerFires, BeginRefresh
<1>10. CASE Crash
  BY <1>10 DEF Crash, NewStatus
<1>11. CASE SiblingSaves
  BY <1>11 DEF SiblingSaves
<1>12. CASE Tick
  <2>1. snap'.pools = snap.pools
    BY <1>12 DEF Tick
  <2> QED
    BY <1>12, <2>1 DEF Tick
<1>13. CASE UNCHANGED vars
  BY <1>13 DEF vars
<1> QED
  BY <1>1, <1>2, <1>3, <1>4, <1>5, <1>6, <1>7, <1>8, <1>9, <1>10, <1>11, <1>12, <1>13
     DEF Next, Refresh

\* The invariant holds of every reachable state of the indexer.
THEOREM IndexerInvariant == Spec => []IInv
<1>1. Init => IInv
  BY InitIInv
<1>2. IInv /\ [Next]_vars => IInv'
  <2> SUFFICES ASSUME IInv, [Next]_vars PROVE IInv'
    OBVIOUS
  <2>1. TypeOK'
    BY TypeStep DEF IInv
  <2> QED
    BY <2>1, StartedStep, AgesStep, ReportStep DEF IInv
<1> QED
  BY <1>1, <1>2, PTL DEF Spec

----------------------------------------------------------------------------
(* What follows.                                                           *)

\* The indexer's state keeps its types, whatever dies and whoever saves.
THEOREM IndexerTypeCorrect == Spec => []TypeOK
<1>1. IInv => TypeOK
  BY DEF IInv
<1> QED
  BY <1>1, IndexerInvariant, PTL

\* The age reported for a snapshot the indexer built is the age of its oldest pools,
\* up to the length of the refresh (indexer.go:125-172, holder.go:58-64).
THEOREM LiveAgesAreHonest == Spec => []LiveAgeIsHonest
<1>1. IInv => LiveAgeIsHonest
  BY DEF IInv
<1> QED
  BY <1>1, IndexerInvariant, PTL

\* The status endpoint's pool count is that of the snapshot being served
\* (indexer.go:171-174, 203-225).
THEOREM StatusIsTrue == Spec => []StatusMatchesSnapshot
<1>1. IInv => StatusMatchesSnapshot
  BY DEF IInv
<1> QED
  BY <1>1, IndexerInvariant, PTL

\* LastError tells exactly whether the last refresh was clean, partial or void
\* (indexer.go:162-169, 203-244).
THEOREM LastErrorIsTrue == Spec => []ErrorTellsLastRefresh
<1>1. IInv => ErrorTellsLastRefresh
  BY DEF IInv
<1> QED
  BY <1>1, IndexerInvariant, PTL

\* No refresh replaces the pools of a source by an older reading
\* (indexer.go:171-172, 189-201).
THEOREM NoRegression == Spec => DataNeverRegresses
<1> DEFINE A == Tick \/ \A s \in snap.pools \cap snap'.pools : snap'.read[s] <= snap.read[s]
<1>1. IInv /\ [Next]_vars => [A]_vars
  <2> SUFFICES ASSUME IInv, Next, ~Tick PROVE A
    OBVIOUS
  <2> USE DEF IInv, TypeOK, Started, poll, report
  <2>1. CASE WarmLoaded
    BY <2>1 DEF WarmLoaded
  <2>2. CASE Publish
    <3> SUFFICES ASSUME NEW s \in snap.pools, s \in Answered
                 PROVE  readAge[s] <= snap.read[s]
      BY <2>2 DEF Publish
    <3>1. readAge[s] <= elapsed /\ elapsed <= snap.read[s]
      BY <2>2 DEF Publish, AllPolled, AnswersAreNew, ServedIsOlder
    <3>2. readAge[s] \in Int /\ elapsed \in Int /\ snap.read[s] \in Int
      BY IndexerAssumption DEF Age, Answered
    <3> QED
      BY <3>1, <3>2
  <2>3. CASE Crash
    BY <2>3 DEF Crash, NoSnapshot
  <2>4. CASE snap' = snap
    BY <2>4, IndexerAssumption DEF Age
  <2>5. Next => Tick \/ WarmLoaded \/ Publish \/ Crash \/ snap' = snap
    BY DEF Next, Refresh, Boot, WarmNothing, PollAnswers, PollFails, RefreshFails,
           RecordSuccess, SaveSucceeds, SaveFails, TickerFires, SiblingSaves
  <2> QED
    BY <2>1, <2>2, <2>3, <2>4, <2>5
<1> QED
  BY <1>1, IndexerInvariant, PTL DEF Spec, DataNeverRegresses

\* An outage of every source leaves the served snapshot alone (indexer.go:162-169).
THEOREM OutageIsHarmless == Spec => OutageKeepsSnapshot
<1> DEFINE A == Tick \/ Crash \/ ~snap.present \/ snap' = snap \/ Healthy # {}
<1>1. IInv /\ [Next]_vars => [A]_vars
  <2> SUFFICES ASSUME IInv, Next PROVE A
    OBVIOUS
  <2>1. Next => Tick \/ WarmLoaded \/ Publish \/ Crash \/ snap' = snap
    BY DEF Next, Refresh, Boot, WarmNothing, PollAnswers, PollFails, RefreshFails,
           RecordSuccess, SaveSucceeds, SaveFails, TickerFires, SiblingSaves, poll, report
  <2>2. WarmLoaded => ~snap.present
    BY DEF WarmLoaded, IInv, Started
  <2>3. Publish => Healthy # {}
    BY DEF Publish
  <2> QED
    BY <2>1, <2>2, <2>3
<1> QED
  BY <1>1, IndexerInvariant, PTL DEF Spec, OutageKeepsSnapshot
=============================================================================
