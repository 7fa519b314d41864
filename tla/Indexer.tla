------------------------------ MODULE Indexer ------------------------------
(***************************************************************************)
(* The indexer (internal/indexer/indexer.go) with the snapshot holder      *)
(* (internal/cache/holder.go), the shared store (internal/cache/store.go)  *)
(* and the start-up sequence of cmd/aggregator/main.go: one process that   *)
(* warm-starts from the store, refreshes again and again from sources that *)
(* answer, answer with nothing or fail, and may die between any two steps. *)
(* Sibling processes write the same key of the store.                      *)
(*                                                                         *)
(* The pools of a source are one unit, and what matters of them is how     *)
(* long ago they were read from the chain.  All times are ages in clock    *)
(* ticks, and stop growing at MaxAge.  A shutdown is a death: the process  *)
(* does not wait for the indexer, and a cancelled context only makes polls *)
(* and saves fail.                                                         *)
(***************************************************************************)
EXTENDS Integers, FiniteSets

CONSTANTS Sources,     \* the configured pool sources
          TTL,         \* ticks a saved pool set lives in the store
          StaleAfter,  \* staleAfterIntervals refresh intervals, in ticks
          MaxAge,      \* bound: ages are counted up to here
          SaveLag      \* bound: ticks a sibling takes from reading to saving

ASSUME IndexerAssumption == /\ IsFiniteSet(Sources) /\ Sources # {}
                            /\ TTL \in Nat \ {0}
                            /\ StaleAfter \in Nat
                            /\ MaxAge \in Nat /\ MaxAge > StaleAfter
                            /\ SaveLag \in 0..MaxAge

VARIABLES pc,       \* where the process is
          serving,  \* main has started the HTTP server
          outcome,  \* how each source answered this refresh
          readAge,  \* age of the pools each source answered with
          elapsed,  \* ticks since the refresh began
          snap,     \* what the holder publishes
          status,   \* Indexer.status: refreshed yet, pools, healthy sources
          lastErr,  \* Indexer.lastErr
          store     \* the key in the store; ttl = 0: there is none

poll == <<outcome, readAge, elapsed>>
report == <<status, lastErr>>
vars == <<pc, serving, poll, snap, report, store>>

Age == 0..MaxAge

Older(n) == IF n < MaxAge THEN n + 1 ELSE n

\* A pool set: which sources have pools in it, and how old they are.
Empty == [s \in Sources |-> 0]

\* An unpublished holder; spent is bookkeeping, the length of the refresh that
\* built the snapshot, and warm says that it was loaded from the store.
NoSnapshot == [present |-> FALSE, pools |-> {}, read |-> Empty, built |-> 0,
               spent |-> 0, warm |-> FALSE]

NewStatus == [refreshed |-> FALSE, pools |-> {}, healthy |-> 0]

Answered == {s \in Sources : outcome[s] = "pools"}
Failed == {s \in Sources : outcome[s] = "failed"}
Healthy == Sources \ Failed

Init == /\ pc = "down"
        /\ serving = FALSE
        /\ outcome = [s \in Sources |-> "pending"]
        /\ readAge = Empty
        /\ elapsed = 0
        /\ snap = NoSnapshot
        /\ status = NewStatus
        /\ lastErr = "nil"
        /\ store = [ttl |-> 0, pools |-> {}, read |-> Empty]

----------------------------------------------------------------------------
(* Start-up.                                                               *)

Boot == /\ pc = "down"
        /\ pc' = "warm"
        /\ UNCHANGED <<serving, poll, snap, report, store>>

\* Mutant: what the sources answered the last time is not cleared.
BeginKeepsResults == /\ pc' = "fetch"
                     /\ elapsed' = 0
                     /\ UNCHANGED <<outcome, readAge>>

\* RefreshOnce begins: fresh results, the clock of this refresh at zero.
BeginRefresh == /\ pc' = "fetch"
                /\ outcome' = [s \in Sources |-> "pending"]
                /\ readAge' = Empty
                /\ elapsed' = 0

\* WarmStart publishes the stored pools, stamped with the present time, when the
\* load succeeds and finds any; the first refresh follows.
WarmLoaded == /\ pc = "warm"
              /\ store.ttl > 0 /\ store.pools # {}
              /\ snap' = [present |-> TRUE, pools |-> store.pools,
                          read |-> store.read, built |-> 0, spent |-> 0,
                          warm |-> TRUE]
              /\ BeginRefresh
              /\ UNCHANGED <<serving, report, store>>

\* No key, an empty set, or a load or decoding error, which is only logged.
WarmNothing == /\ pc = "warm"
               /\ BeginRefresh
               /\ UNCHANGED <<serving, snap, report, store>>

----------------------------------------------------------------------------
(* RefreshOnce.                                                            *)

\* Source s answers; what it returns was read at some moment of this refresh.
PollAnswers(s) == /\ pc = "fetch" /\ outcome[s] = "pending"
                  /\ \E a \in 0..elapsed :
                       \/ /\ outcome' = [outcome EXCEPT ![s] = "pools"]
                          /\ readAge' = [readAge EXCEPT ![s] = a]
                       \/ /\ outcome' = [outcome EXCEPT ![s] = "empty"]
                          /\ UNCHANGED readAge
                  /\ UNCHANGED <<pc, serving, elapsed, snap, report, store>>

PollFails(s) == /\ pc = "fetch" /\ outcome[s] = "pending"
                /\ outcome' = [outcome EXCEPT ![s] = "failed"]
                /\ UNCHANGED <<pc, serving, readAge, elapsed, snap, report, store>>

\* wg.Wait has returned.
AllPolled == pc = "fetch" /\ \A s \in Sources : outcome[s] # "pending"

\* RefreshOnce returns; after the first time, main starts the HTTP server.
EndRefresh == pc' = "wait" /\ serving' = TRUE

\* Every source failed: recordFailure, and the published snapshot stays.
RefreshFails == /\ AllPolled
                /\ Healthy = {}
                /\ status' = [status EXCEPT !.healthy = 0]
                /\ lastErr' = "all"
                /\ EndRefresh
                /\ UNCHANGED <<poll, snap, store>>

\* Mutant: a refresh without a single answer publishes too.
PublishAlways == /\ AllPolled
                 /\ snap' = [present |-> TRUE, pools |-> Answered,
                             read |-> readAge, built |-> 0, spent |-> elapsed,
                             warm |-> FALSE]
                 /\ pc' = "record"
                 /\ UNCHANGED <<serving, poll, report, store>>

\* BuildSnapshot over the merged pools, and holder.Set.
Publish == /\ AllPolled
           /\ Healthy # {}
           /\ snap' = [present |-> TRUE, pools |-> Answered, read |-> readAge,
                       built |-> 0, spent |-> elapsed, warm |-> FALSE]
           /\ pc' = "record"
           /\ UNCHANGED <<serving, poll, report, store>>

\* Mutant: the status is only written by a completely clean refresh.
RecordOnlyClean == /\ pc = "record"
                   /\ IF Failed = {}
                        THEN /\ status' = [refreshed |-> TRUE, pools |-> snap.pools,
                                           healthy |-> Cardinality(Healthy)]
                             /\ lastErr' = "nil"
                        ELSE /\ UNCHANGED status
                             /\ lastErr' = "partial"
                   /\ pc' = "save"
                   /\ UNCHANGED <<serving, poll, snap, store>>

RecordSuccess == /\ pc = "record"
                 /\ status' = [refreshed |-> TRUE, pools |-> snap.pools,
                               healthy |-> Cardinality(Healthy)]
                 /\ lastErr' = IF Failed = {} THEN "nil" ELSE "partial"
                 /\ pc' = "save"
                 /\ UNCHANGED <<serving, poll, snap, store>>

\* SavePools writes the merged pools of this refresh over the key, with its TTL.
SaveSucceeds == /\ pc = "save"
                /\ store' = [ttl |-> TTL, pools |-> Answered, read |-> readAge]
                /\ EndRefresh
                /\ UNCHANGED <<poll, snap, report>>

\* The store is down, or there is none: logged and forgotten.
SaveFails == /\ pc = "save"
             /\ EndRefresh
             /\ UNCHANGED <<poll, snap, report, store>>

\* Mutant: the loop warm-starts again instead of only refreshing.
TickerReloads == /\ pc = "wait"
                 /\ pc' = "warm"
                 /\ UNCHANGED <<serving, poll, snap, report, store>>

\* Mutant: the loop stops for good after a refresh in which every source failed.
TickerGivesUp == /\ pc = "wait"
                 /\ lastErr # "all"
                 /\ BeginRefresh
                 /\ UNCHANGED <<serving, snap, report, store>>

\* Run's ticker, and its first refresh right after the one of main.
TickerFires == /\ pc = "wait"
               /\ BeginRefresh
               /\ UNCHANGED <<serving, snap, report, store>>

----------------------------------------------------------------------------
(* The world around it.                                                    *)

\* The process ends, by a signal (main.go:121-136) or without notice, at whatever point the
\* indexer is; everything but the store goes with it.
Crash == /\ pc # "down"
         /\ pc' = "down"
         /\ serving' = FALSE
         /\ outcome' = [s \in Sources |-> "pending"]
         /\ readAge' = Empty
         /\ elapsed' = 0
         /\ snap' = NoSnapshot
         /\ status' = NewStatus
         /\ lastErr' = "nil"
         /\ UNCHANGED store

\* A sibling process saves what it read a while ago: over a newer set, perhaps.
SiblingSaves == /\ \E P \in SUBSET Sources : \E a \in 0..SaveLag :
                     store' = [ttl |-> TTL, pools |-> P,
                               read |-> [s \in Sources |-> IF s \in P THEN a ELSE 0]]
                /\ UNCHANGED <<pc, serving, poll, snap, report>>

AgeAll(P, read) == [s \in Sources |-> IF s \in P THEN Older(read[s]) ELSE read[s]]

\* Time passes: ages grow, a refresh under way takes longer, the key expires.
Tick == /\ elapsed' = IF pc = "fetch" THEN Older(elapsed) ELSE elapsed
        /\ readAge' = AgeAll(Answered, readAge)
        /\ snap' = IF snap.present
                     THEN [snap EXCEPT !.built = Older(@),
                                       !.read = AgeAll(snap.pools, @)]
                     ELSE snap
        /\ store' = IF store.ttl > 1
                      THEN [store EXCEPT !.ttl = @ - 1,
                                         !.read = AgeAll(store.pools, @)]
                      ELSE [ttl |-> 0, pools |-> {}, read |-> Empty]
        /\ UNCHANGED <<pc, serving, outcome, report>>

Refresh == \/ \E s \in Sources : PollAnswers(s) \/ PollFails(s)
           \/ RefreshFails \/ Publish \/ RecordSuccess
           \/ SaveSucceeds \/ SaveFails

Next == \/ Boot \/ WarmLoaded \/ WarmNothing
        \/ Refresh \/ TickerFires
        \/ Crash \/ SiblingSaves \/ Tick

\* The process runs: polls end (each RPC has a timeout and a retry limit), the
\* ticker fires.  Nothing makes it start, die, or a sibling save.
Fairness == /\ WF_vars(WarmLoaded \/ WarmNothing)
            /\ WF_vars(Refresh)
            /\ WF_vars(TickerFires)

Spec == Init /\ [][Next]_vars
FairSpec == Spec /\ Fairness

----------------------------------------------------------------------------
(* Properties.                                                             *)

\* Every variable has its type.
TypeOK ==
  /\ pc \in {"down", "warm", "fetch", "record", "save", "wait"}
  /\ serving \in BOOLEAN
  /\ outcome \in [Sources -> {"pending", "pools", "empty", "failed"}]
  /\ readAge \in [Sources -> Age]
  /\ elapsed \in Age
  /\ snap \in [present : BOOLEAN, pools : SUBSET Sources, read : [Sources -> Age],
               built : Age, spent : Age, warm : BOOLEAN]
  /\ status \in [refreshed : BOOLEAN, pools : SUBSET Sources,
                 healthy : 0..Cardinality(Sources)]
  /\ lastErr \in {"nil", "partial", "all"}
  /\ store \in [ttl : 0..TTL, pools : SUBSET Sources, read : [Sources -> Age]]

\* handleHealth.
Health == IF ~snap.present THEN "warming"
          ELSE IF snap.built > StaleAfter THEN "stale" ELSE "ok"

\* The age that quotes and the health endpoint report is the age of the data, up to
\* the length of the refresh that read it.
AgeIsHonest == \A s \in snap.pools : snap.read[s] <= snap.built + snap.spent

\* A snapshot the indexer built itself has an honest age (indexer.go:127-172): it
\* holds nothing that an earlier refresh read.
LiveAgeIsHonest == snap.present /\ ~snap.warm => AgeIsHonest

\* Outside the instant between publishing and recording, the pool count of the
\* status endpoint is that of the published snapshot (indexer.go:162-174), also
\* after refreshes in which some or all sources failed.
StatusMatchesSnapshot ==
  status.refreshed /\ pc # "record" => status.pools = snap.pools

\* LastError is nil exactly when every source answered the last refresh
\* (indexer.go:238-239), and otherwise says whether anything was published.
ErrorTellsLastRefresh ==
  pc \in {"save", "wait"} => /\ lastErr = "nil" <=> Failed = {}
                             /\ lastErr = "all" <=> Healthy = {}

\* The pools of a source never go back to an older reading while the process lives,
\* whatever siblings write to the store (indexer.go:171-172, 189-201).
DataNeverRegresses ==
  [][Tick \/ \A s \in snap.pools \cap snap'.pools : snap'.read[s] <= snap.read[s]]_vars

\* A refresh that no source answers leaves the published snapshot alone
\* (indexer.go:162-169); only an answer, or the process's death, replaces it.
OutageKeepsSnapshot ==
  [][Tick \/ Crash \/ ~snap.present \/ snap' = snap \/ Healthy # {}]_vars

\* The indexer never stops refreshing while the process lives (indexer.go:90-113):
\* no failure of sources or store ends the loop.
AlwaysRefreshesAgain ==
  []<>(pc = "fetch") \/ []<>(pc = "down")
=============================================================================
