----------------------------- MODULE PoolProofs -----------------------------
(***************************************************************************)
(* Proofs about Pool, for every number of callers, workers, retries, any   *)
(* threshold (also the one that disables the breaker) and any cooldown.    *)
(***************************************************************************)
EXTENDS Pool, FiniteSetTheorems, TLAPS

----------------------------------------------------------------------------
(* Counting the callers at a set of program points.                        *)

Num(f, P) == Cardinality({c \in Callers : f[c] \in P})
Ind(x, P) == IF x \in P THEN 1 ELSE 0

\* When one caller moves from one point to another, only it enters or leaves the
\* callers counted at a set of points.
LEMMA MoveCount ==
  ASSUME NEW f \in [Callers -> ProgramPoint], NEW c \in Callers,
         NEW q \in ProgramPoint, NEW P
  PROVE  /\ Num(f, P) \in Nat
         /\ Num(f, P) >= Ind(f[c], P)
         /\ Num([f EXCEPT ![c] = q], P) = Num(f, P) + Ind(q, P) - Ind(f[c], P)
<1> DEFINE A == {x \in Callers : f[x] \in P}
           B == {x \in Callers : [f EXCEPT ![c] = q][x] \in P}
           R == {x \in Callers \ {c} : f[x] \in P}
<1>1. IsFiniteSet(R) /\ c \notin R
  BY PoolAssumption, FS_Subset
<1>2. /\ Cardinality(R) \in Nat
      /\ Cardinality(R \cup {c}) = Cardinality(R) + 1
  BY <1>1, FS_CardinalityType, FS_AddElement
<1>3. A = IF f[c] \in P THEN R \cup {c} ELSE R
  OBVIOUS
<1>4. B = IF q \in P THEN R \cup {c} ELSE R
  OBVIOUS
<1> HIDE DEF R, A, B
<1>5. /\ Cardinality(A) = Cardinality(R) + Ind(f[c], P)
      /\ Cardinality(B) = Cardinality(R) + Ind(q, P)
  BY <1>2, <1>3, <1>4 DEF Ind
<1>6. Ind(f[c], P) \in {0, 1} /\ Ind(q, P) \in {0, 1}
  BY DEF Ind
<1>7. Num(f, P) = Cardinality(A) /\ Num([f EXCEPT ![c] = q], P) = Cardinality(B)
  BY DEF Num, A, B
<1> QED
  BY <1>2, <1>5, <1>6, <1>7

\* Where nobody is at a point of P, nobody is counted there.
LEMMA CountNone ==
  ASSUME NEW f \in [Callers -> ProgramPoint], NEW P,
         \A c \in Callers : f[c] \notin P
  PROVE  Num(f, P) = 0
<1>1. {c \in Callers : f[c] \in P} = {}
  OBVIOUS
<1> QED
  BY <1>1, FS_EmptySet DEF Num

\* Fewer points, fewer callers at them.
LEMMA CountSubset ==
  ASSUME NEW f \in [Callers -> ProgramPoint], NEW P, NEW Q, P \subseteq Q
  PROVE  /\ Num(f, P) \in Nat /\ Num(f, Q) \in Nat
         /\ Num(f, P) <= Num(f, Q)
<1> DEFINE A == {x \in Callers : f[x] \in P}
           B == {x \in Callers : f[x] \in Q}
<1>1. A \subseteq B /\ B \subseteq Callers
  OBVIOUS
<1>2. IsFiniteSet(B)
  BY <1>1, PoolAssumption, FS_Subset
<1>3. Cardinality(A) <= Cardinality(B) /\ IsFiniteSet(A)
  BY <1>1, <1>2, FS_Subset
<1> QED
  BY <1>2, <1>3, FS_CardinalityType DEF Num
----------------------------------------------------------------------------
(* What one step does, whichever it is.                                    *)

Active == ProgramPoint \ {"idle", "leave", "release"}
Ended == completed + failed + rejected + aborted

\* The breaker's part of a step is one call of one of its methods, or a clock tick.
BreakerMove == \/ AllowPass \/ AllowProbe \/ AllowReject \/ Success \/ Failure
               \/ CooldownTick \/ UNCHANGED breakerVars

CallerAction(c) == Start(c) \/ Cancel(c) \/ Acquire(c) \/ Step(c)

\* A caller's step moves that caller to a point q, and the slots, the in-flight
\* count and the counters of Stats change by what the move changes.
Accounts(c, q) ==
  /\ pc' = [pc EXCEPT ![c] = q]
  /\ sem' = sem + Ind(q, Holding) - Ind(pc[c], Holding)
  /\ inFlight' = inFlight + Ind(q, Counted) - Ind(pc[c], Counted)
  /\ calls' - Ended' = calls - Ended + Ind(q, Active) - Ind(pc[c], Active)
  /\ sem' <= Workers \/ sem' <= sem

\* Every action of a caller keeps the accounts, by its definition.
LEMMA CallerAccounts ==
  ASSUME TypeOK, NEW c \in Callers, CallerAction(c)
  PROVE  \E q \in ProgramPoint : Accounts(c, q)
<1>0. /\ pc \in [Callers -> ProgramPoint]
      /\ sem \in Int /\ inFlight \in Int /\ calls \in Int /\ aborted \in Int
      /\ completed \in Int /\ failed \in Int /\ rejected \in Int /\ Workers \in Int
  BY PoolAssumption DEF TypeOK
<1>2. CASE Cancel(c)
  <2>1. /\ pc' = [pc EXCEPT ![c] = pc[c]]
        /\ pc[c] \in ProgramPoint
    BY <1>2, <1>0 DEF Cancel
  <2>2. /\ Ind(pc[c], Holding) \in Int
        /\ Ind(pc[c], Counted) \in Int
        /\ Ind(pc[c], Active) \in Int
    BY DEF Ind
  <2>3. Ended \in Int /\ Ended' = Ended
    BY <1>2, <1>0 DEF Cancel, Ended, counters, ghosts
  <2>4. sem' = sem /\ inFlight' = inFlight /\ calls' = calls
    BY <1>2 DEF Cancel, ghosts
  <2>5. Accounts(c, pc[c])
    BY <1>0, <2>1, <2>2, <2>3, <2>4 DEF Accounts
  <2> QED
    BY <2>1, <2>5
<1> USE DEF Accounts, Ended, Ind, Active, Holding, Counted, ProgramPoint, counters,
            ghosts, Goto, EndCall, FreeSlot
<1>1. CASE Start(c)
  <2>1. Accounts(c, "acquire")
    BY <1>1, <1>0 DEF Start
  <2> QED
    BY <2>1
<1>3. CASE Acquire(c)
  <2>1. Accounts(c, "enter")
    BY <1>3, <1>0 DEF Acquire
  <2> QED
    BY <2>1
<1>4. CASE GiveUpSlot(c)
  <2>1. Accounts(c, "idle")
    BY <1>4, <1>0 DEF GiveUpSlot
  <2> QED
    BY <2>1
<1>5. CASE Enter(c)
  <2>1. Accounts(c, "allow")
    BY <1>5, <1>0 DEF Enter
  <2> QED
    BY <2>1
<1>6. CASE Allowed(c)
  <2>1. Accounts(c, "limit")
    BY <1>6, <1>0 DEF Allowed
  <2> QED
    BY <2>1
<1>7. CASE Rejected(c)
  <2>1. Accounts(c, "leave")
    BY <1>7, <1>0 DEF Rejected
  <2> QED
    BY <2>1
<1>8. CASE Granted(c)
  <2>1. Accounts(c, "call")
    BY <1>8, <1>0 DEF Granted
  <2> QED
    BY <2>1
<1>9. CASE LimitFailed(c)
  <2>1. Accounts(c, "leave")
    BY <1>9, <1>0 DEF LimitFailed
  <2> QED
    BY <2>1
<1>10. CASE CallSucceeded(c)
  <2>1. Accounts(c, "leave")
    BY <1>10, <1>0 DEF CallSucceeded
  <2> QED
    BY <2>1
<1>11. CASE CallFailed(c)
  <2>1. Accounts(c, "backoff") \/ Accounts(c, "leave")
    BY <1>11, <1>0 DEF CallFailed
  <2> QED
    BY <2>1
<1>12. CASE BackoffDone(c)
  <2>1. Accounts(c, "allow")
    BY <1>12, <1>0 DEF BackoffDone
  <2> QED
    BY <2>1
<1>13. CASE BackoffCancelled(c)
  <2>1. Accounts(c, "leave")
    BY <1>13, <1>0 DEF BackoffCancelled
  <2> QED
    BY <2>1
<1>14. CASE Leave(c)
  <2>1. Accounts(c, "release")
    BY <1>14, <1>0 DEF Leave
  <2> QED
    BY <2>1
<1>15. CASE Release(c)
  <2>1. Accounts(c, "idle")
    BY <1>15, <1>0 DEF Release
  <2> QED
    BY <2>1
<1> QED
  BY <1>1, <1>2, <1>3, <1>4, <1>5, <1>6, <1>7, <1>8, <1>9, <1>10, <1>11, <1>12, <1>13, <1>14, <1>15 DEF CallerAction, Step

\* Every step of the pool moves the breaker by one of its own steps, or not at all.
LEMMA NextMovesBreaker == ASSUME [Next]_vars PROVE BreakerMove
<1>1. ASSUME NEW c \in Callers, CallerAction(c) PROVE BreakerMove
  <2>1. CASE Allowed(c) \/ Rejected(c) \/ CallSucceeded(c) \/ CallFailed(c)
    BY <2>1 DEF Allowed, Rejected, CallSucceeded, CallFailed, BreakerMove
  <2>2. CASE ~(Allowed(c) \/ Rejected(c) \/ CallSucceeded(c) \/ CallFailed(c))
    BY <1>1, <2>2 DEF CallerAction, Step, Start, Cancel, Acquire, GiveUpSlot, Enter,
       Granted, LimitFailed, BackoffDone, BackoffCancelled, Leave, Release, BreakerMove
  <2> QED
    BY <2>1, <2>2
<1>2. CASE Tick
  BY <1>2 DEF Tick, BreakerMove
<1>3. CASE UNCHANGED vars
  BY <1>3 DEF vars, BreakerMove
<1> QED
  BY <1>1, <1>2, <1>3 DEF Next, CallerAction

\* The breaker keeps its types and the relation between its fields under any
\* sequence of calls of its methods, in whatever order reports come in.
LEMMA BreakerStep ==
  ASSUME BreakerTypeOK, BreakerShape, BreakerMove
  PROVE  BreakerTypeOK' /\ BreakerShape'
<1> USE BreakerAssumption DEF BreakerTypeOK, BreakerShape, BreakerState, breakerVars,
                              Disabled
<1>1. CASE AllowPass \/ AllowReject \/ UNCHANGED breakerVars
  BY <1>1 DEF AllowPass, AllowReject
<1>2. CASE AllowProbe
  BY <1>2 DEF AllowProbe, MayProbe
<1>3. CASE Success
  <2>1. CASE Disabled
    BY <1>3, <2>1 DEF Success
  <2>2. CASE ~Disabled
    <3>1. /\ failures' = 0 /\ brState' = "closed" /\ ~probeInFlig'
          /\ cooldownLeft' = cooldownLeft /\ probeInFlig' \in BOOLEAN
      BY <1>3, <2>2, Zenon DEF Success
    <3> QED
      BY <2>2, <3>1
  <2> QED
    BY <2>1, <2>2
<1>4. CASE Failure
  <2>1. CASE Disabled
    BY <1>4, <2>1 DEF Failure
  <2>2. CASE ~Disabled /\ Trip
    <3>1. ~probeInFlig' /\ probeInFlig' \in BOOLEAN
      BY <2>2, Zenon DEF Trip
    <3>2. /\ brState' = "open" /\ cooldownLeft' = Cooldown
          /\ failures' \in Nat /\ failures' >= Threshold
      BY <1>4, <2>2 DEF Failure, Trip
    <3> QED
      BY <2>2, <3>1, <3>2
  <2>3. CASE ~Disabled /\ ~Trip
    BY <1>4, <2>3 DEF Failure
  <2> QED
    BY <2>1, <2>2, <2>3
<1>5. CASE CooldownTick
  BY <1>5 DEF CooldownTick
<1> QED
  BY <1>1, <1>2, <1>3, <1>4, <1>5 DEF BreakerMove

----------------------------------------------------------------------------
(* The inductive invariant.                                                *)

Slots == /\ sem = Num(pc, Holding)
         /\ inFlight = Num(pc, Counted)
         /\ sem <= Workers

Calls == calls = Num(pc, Active) + Ended

\* Calls begun since the breaker opened, and calls it admitted earlier that have
\* not begun: together they were waiting when it opened.
Episode == brState = "open" => lateStarts + Num(pc, {"limit"}) < Workers

IInv == /\ TypeOK
        /\ BreakerShape
        /\ Slots
        /\ Calls
        /\ HalfOpenHasProbe
        /\ Episode

\* The invariant holds initially.
LEMMA InitIInv == ASSUME Init PROVE IInv
<1>a. ~probeInFlig /\ probeInFlig \in BOOLEAN
  BY Zenon DEF Init, NewBreaker
<1>0. BreakerTypeOK /\ BreakerShape
  BY <1>a, BreakerAssumption
  DEF Init, NewBreaker, BreakerTypeOK, BreakerShape, BreakerState, Disabled
<1>1. TypeOK /\ BreakerShape
  BY <1>0, PoolAssumption DEF Init, TypeOK, ProgramPoint
<1>2. /\ Num(pc, Holding) = 0 /\ Num(pc, Counted) = 0 /\ Num(pc, Active) = 0
  <2>1. \A c \in Callers : pc[c] = "idle"
    BY DEF Init
  <2>2. "idle" \notin Holding /\ "idle" \notin Counted /\ "idle" \notin Active
    BY DEF Holding, Counted, Active
  <2> QED
    BY <1>1, <2>1, <2>2, CountNone DEF TypeOK
<1>3. Slots /\ Calls
  BY <1>2, PoolAssumption DEF Slots, Calls, Ended, Init
<1>4. HalfOpenHasProbe /\ Episode
  BY DEF Init, NewBreaker, HalfOpenHasProbe, ProbeIsOut, Episode
<1> QED
  BY <1>1, <1>3, <1>4 DEF IInv

\* The slots and the counters follow the moves of the callers.
LEMMA AccountsStep ==
  ASSUME IInv, NEW c \in Callers, NEW q \in ProgramPoint, Accounts(c, q),
         calls' \in Int, Ended' \in Int
  PROVE  /\ Slots' /\ Calls'
         /\ sem' \in Nat /\ inFlight' \in Nat
<1>1. pc \in [Callers -> ProgramPoint]
  BY DEF IInv, TypeOK
<1>2. /\ Num(pc', Holding) = Num(pc, Holding) + Ind(q, Holding) - Ind(pc[c], Holding)
      /\ Num(pc', Counted) = Num(pc, Counted) + Ind(q, Counted) - Ind(pc[c], Counted)
      /\ Num(pc', Active) = Num(pc, Active) + Ind(q, Active) - Ind(pc[c], Active)
  BY <1>1, MoveCount DEF Accounts
<1>3. /\ Num(pc, Holding) \in Nat /\ Num(pc, Holding) >= Ind(pc[c], Holding)
      /\ Num(pc, Counted) \in Nat /\ Num(pc, Counted) >= Ind(pc[c], Counted)
      /\ Num(pc, Active) \in Nat
  BY <1>1, MoveCount
<1>4. /\ Ind(q, Holding) \in {0, 1} /\ Ind(pc[c], Holding) \in {0, 1}
      /\ Ind(q, Counted) \in {0, 1} /\ Ind(pc[c], Counted) \in {0, 1}
      /\ Ind(q, Active) \in {0, 1} /\ Ind(pc[c], Active) \in {0, 1}
  BY DEF Ind
<1>5. Slots' /\ sem' \in Nat /\ inFlight' \in Nat
  BY <1>2, <1>3, <1>4, PoolAssumption DEF IInv, Slots, Accounts
<1>6. Calls'
  <2>1. calls \in Int /\ Ended \in Int
    BY DEF IInv, TypeOK, Ended
  <2> QED
    BY <1>2, <1>3, <1>4, <2>1 DEF IInv, Calls, Accounts
<1> QED
  BY <1>5, <1>6

\* Types of what a caller's step changes outside the breaker and the slots.
LEMMA CallerTypes ==
  ASSUME IInv, NEW c \in Callers, CallerAction(c)
  PROVE  /\ pc' \in [Callers -> ProgramPoint]
         /\ attempt' \in [Callers -> 0..MaxRetries]
         /\ ctxDone' \in [Callers -> BOOLEAN]
         /\ completed' \in Nat /\ failed' \in Nat /\ retried' \in Nat
         /\ rejected' \in Nat /\ calls' \in 0..MaxCalls /\ aborted' \in Nat
         /\ prober' \in Callers /\ lateStarts' \in Nat
<1> USE PoolAssumption DEF IInv, TypeOK, ProgramPoint, counters, ghosts, Goto, EndCall,
                           LateStarts
<1>1. CASE Start(c)
  BY <1>1 DEF Start
<1>2. CASE Cancel(c)
  BY <1>2 DEF Cancel
<1>3. CASE Acquire(c)
  BY <1>3 DEF Acquire
<1>4. CASE GiveUpSlot(c)
  BY <1>4 DEF GiveUpSlot
<1>5. CASE Enter(c)
  BY <1>5 DEF Enter
<1>6. CASE Allowed(c)
  BY <1>6 DEF Allowed
<1>7. CASE Rejected(c)
  BY <1>7 DEF Rejected
<1>8. CASE Granted(c)
  BY <1>8 DEF Granted
<1>9. CASE LimitFailed(c)
  BY <1>9 DEF LimitFailed
<1>10. CASE CallSucceeded(c)
  BY <1>10 DEF CallSucceeded
<1>11. CASE CallFailed(c)
  BY <1>11 DEF CallFailed, RetriesLeft
<1>12. CASE BackoffDone(c)
  BY <1>12 DEF BackoffDone
<1>13. CASE BackoffCancelled(c)
  BY <1>13 DEF BackoffCancelled
<1>14. CASE Leave(c)
  BY <1>14 DEF Leave
<1>15. CASE Release(c)
  BY <1>15 DEF Release
<1> QED
  BY <1>1, <1>2, <1>3, <1>4, <1>5, <1>6, <1>7, <1>8, <1>9, <1>10, <1>11, <1>12, <1>13,
     <1>14, <1>15 DEF CallerAction, Step

\* A half-open breaker keeps its probe: the prober reports, which ends the
\* half-open state, or gives up, which only a cancellable caller can.
LEMMA ProbeStep ==
  ASSUME IInv, NEW c \in Callers, CallerAction(c)
  PROVE  HalfOpenHasProbe'
<1> SUFFICES ASSUME brState' = "half-open", prober' \notin Cancellable
             PROVE  pc'[prober'] \in {"limit", "call"}
  BY DEF HalfOpenHasProbe, ProbeIsOut
<1> USE DEF IInv, TypeOK, HalfOpenHasProbe, ProbeIsOut, Goto
<1>1. CASE Allowed(c)
  BY <1>1 DEF Allowed, AllowPass, AllowProbe, breakerVars
<1>2. CASE CallSucceeded(c)
  BY <1>2 DEF CallSucceeded, Success, BreakerShape, Disabled, breakerVars
<1>3. CASE CallFailed(c)
  BY <1>3 DEF CallFailed, Failure, Trip, BreakerShape, Disabled, breakerVars
<1>4. CASE Granted(c)
  BY <1>4 DEF Granted, breakerVars
<1>5. CASE LimitFailed(c)
  BY <1>5 DEF LimitFailed, breakerVars
<1>6. CASE Rejected(c)
  BY <1>6 DEF Rejected, AllowReject, breakerVars, ghosts
<1>7. CASE Start(c) \/ Cancel(c) \/ Acquire(c) \/ GiveUpSlot(c) \/ Enter(c)
  BY <1>7 DEF Start, Cancel, Acquire, GiveUpSlot, EndCall, Enter, breakerVars, ghosts
<1>8. CASE BackoffDone(c) \/ BackoffCancelled(c) \/ Leave(c) \/ Release(c)
  BY <1>8 DEF BackoffDone, BackoffCancelled, Leave, Release, EndCall, breakerVars, ghosts
<1> QED
  BY <1>1, <1>2, <1>3, <1>4, <1>5, <1>6, <1>7, <1>8 DEF CallerAction, Step

\* The calls a breaker that opens has already admitted are fewer than Workers, as
\* the caller whose failure opens it holds a slot too; later they only start or end.
LEMMA EpisodeStep ==
  ASSUME IInv, NEW c \in Callers, CallerAction(c)
  PROVE  Episode'
<1> DEFINE L == {"limit"}
<1> SUFFICES ASSUME brState' = "open" PROVE lateStarts' + Num(pc', L) < Workers
  BY DEF Episode
<1>0. /\ pc \in [Callers -> ProgramPoint] /\ lateStarts \in Nat /\ Workers \in Nat
      /\ Num(pc, L) \in Nat
  BY PoolAssumption, MoveCount DEF IInv, TypeOK
<1>1. ASSUME NEW q \in ProgramPoint, pc' = [pc EXCEPT ![c] = q]
      PROVE  Num(pc', L) = Num(pc, L) + Ind(q, L) - Ind(pc[c], L)
  BY <1>0, <1>1, MoveCount
<1> HIDE DEF L
<1>2. Ind("limit", L) = 1 /\ \A x : x # "limit" => Ind(x, L) = 0
  BY DEF Ind, L
<1>3. brState = "open" => lateStarts + Num(pc, L) < Workers
  BY DEF IInv, Episode, L
<1>p. {"idle", "call", "backoff", "leave"} \subseteq ProgramPoint
  BY DEF ProgramPoint
<1> USE DEF Goto
<1>4. CASE Allowed(c)
  BY <1>4 DEF Allowed, AllowPass, AllowProbe, breakerVars, IInv, BreakerShape, Disabled
<1>5. CASE Granted(c)
  <2>1. brState = "open" /\ lateStarts' = lateStarts + 1
    BY <1>5 DEF Granted, LateStarts, breakerVars
  <2>2. Num(pc', L) = Num(pc, L) - 1
    <3>1. pc' = [pc EXCEPT ![c] = "call"] /\ pc[c] = "limit" /\ "call" \in ProgramPoint
      BY <1>5, <1>p DEF Granted
    <3>2. Num(pc', L) = Num(pc, L) + Ind("call", L) - Ind("limit", L)
      BY <1>1, <3>1
    <3> QED
      BY <1>0, <1>2, <3>2
  <2> QED
    BY <1>0, <1>3, <2>1, <2>2
<1>6. CASE CallFailed(c)
  <2>1. Num(pc', L) = Num(pc, L)
    BY <1>0, <1>1, <1>2, <1>6, <1>p DEF CallFailed
  <2>2. CASE brState = "open"
    BY <1>0, <1>3, <1>6, <2>1, <2>2 DEF CallFailed, LateStarts
  <2>3. CASE brState # "open"
    <3>1. lateStarts' = 0
      BY <1>6, <2>3 DEF CallFailed, LateStarts
    <3> DEFINE g == [pc EXCEPT ![c] = "idle"]
    <3>2. g \in [Callers -> ProgramPoint] /\ pc[c] = "call"
      BY <1>0, <1>6, <1>p DEF CallFailed
    <3>3. ASSUME NEW P
          PROVE  /\ Num(g, P) = Num(pc, P) + Ind("idle", P) - Ind(pc[c], P)
                 /\ Num(pc, P) \in Nat
      <4>1. "idle" \in ProgramPoint
        BY <1>p
      <4> QED
        BY <1>0, <4>1, MoveCount, Zenon
    <3>4. /\ Num(g, L) = Num(pc, L) + Ind("idle", L) - Ind("call", L)
          /\ Num(g, Holding) = Num(pc, Holding) + Ind("idle", Holding) - Ind("call", Holding)
          /\ Num(pc, Holding) \in Nat
      BY <3>2, <3>3, Zenon
    <3>5. Num(g, L) <= Num(g, Holding)
      BY <3>2, CountSubset DEF L, Holding, Counted
    <3>6. Ind("idle", Holding) = 0 /\ Ind("call", Holding) = 1
      BY DEF Ind, Holding, Counted
    <3> HIDE DEF g
    <3> QED
      BY <1>0, <1>2, <2>1, <3>1, <3>4, <3>5, <3>6 DEF IInv, Slots
  <2> QED
    BY <2>2, <2>3
<1>7. CASE CallSucceeded(c)
  BY <1>7 DEF CallSucceeded, Success, breakerVars, IInv, BreakerShape, Disabled
<1>8. CASE ~(Allowed(c) \/ Granted(c) \/ CallFailed(c) \/ CallSucceeded(c))
  <2>1. brState' = brState /\ lateStarts' = lateStarts
    BY <1>8 DEF CallerAction, Step, Start, Cancel, Acquire, GiveUpSlot, Enter, Rejected,
       AllowReject, LimitFailed, BackoffDone, BackoffCancelled, Leave, Release,
       breakerVars, ghosts
  <2>2. PICK q \in ProgramPoint : pc' = [pc EXCEPT ![c] = q] /\ (q = "limit" => pc[c] = q)
    <3>1. CASE Cancel(c)
      <4>1. pc' = [pc EXCEPT ![c] = pc[c]] /\ pc[c] \in ProgramPoint
        BY <1>0, <3>1 DEF Cancel
      <4> QED
        BY <4>1
    <3>2. CASE ~Cancel(c)
      BY <1>8, <3>2 DEF CallerAction, Step, Start, Acquire, GiveUpSlot, EndCall, Enter,
         Rejected, LimitFailed, BackoffDone, BackoffCancelled, Leave, Release, ProgramPoint
    <3> QED
      BY <3>1, <3>2
  <2>3. Ind(q, L) - Ind(pc[c], L) <= 0
    BY <1>2, <2>2
  <2>4. Ind(q, L) \in {0, 1} /\ Ind(pc[c], L) \in {0, 1}
    BY DEF Ind
  <2>5. Num(pc', L) = Num(pc, L) + Ind(q, L) - Ind(pc[c], L)
    BY <1>1, <2>2
  <2> QED
    BY <1>0, <1>3, <2>1, <2>3, <2>4, <2>5
<1> QED
  BY <1>4, <1>5, <1>6, <1>7, <1>8

\* The whole invariant is preserved by every step.
LEMMA NextIInv == ASSUME IInv, [Next]_vars PROVE IInv'
<1>1. BreakerTypeOK' /\ BreakerShape'
  BY NextMovesBreaker, BreakerStep DEF IInv, TypeOK
<1>2. ASSUME NEW c \in Callers, CallerAction(c) PROVE IInv'
  <2>1. PICK q \in ProgramPoint : Accounts(c, q)
    BY <1>2, CallerAccounts DEF IInv
  <2>2. calls' \in Int /\ Ended' \in Int
    BY <1>2, CallerTypes, PoolAssumption DEF Ended
  <2>3. Slots' /\ Calls' /\ sem' \in Nat /\ inFlight' \in Nat
    BY <2>1, <2>2, AccountsStep
  <2>4. TypeOK'
    BY <1>1, <1>2, <2>3, CallerTypes DEF TypeOK
  <2>5. HalfOpenHasProbe' /\ Episode'
    BY <1>2, ProbeStep, EpisodeStep
  <2> QED
    BY <1>1, <2>3, <2>4, <2>5 DEF IInv
<1>3. CASE Tick \/ UNCHANGED vars
  <2>1. UNCHANGED poolVars /\ UNCHANGED brState
    BY <1>3 DEF Tick, CooldownTick, vars, breakerVars
  <2>2. TypeOK'
    BY <1>1, <2>1 DEF IInv, TypeOK, poolVars, counters, ghosts
  <2>3. Slots' /\ Calls' /\ HalfOpenHasProbe' /\ Episode'
    BY <2>1 DEF IInv, Slots, Calls, Ended, HalfOpenHasProbe, ProbeIsOut, Episode,
       poolVars, counters, ghosts
  <2> QED
    BY <1>1, <2>2, <2>3 DEF IInv
<1> QED
  BY <1>2, <1>3 DEF Next, CallerAction

----------------------------------------------------------------------------
(* The theorems.                                                           *)

\* Every reachable state satisfies the inductive invariant.
THEOREM PoolInvariant == Spec => []IInv
<1>1. Init => IInv
  BY InitIInv
<1>2. IInv /\ [Next]_vars => IInv'
  BY NextIInv
<1> QED
  BY <1>1, <1>2, PTL DEF Spec

\* All variables of the pool and the breaker always have their types.
THEOREM PoolTypeCorrect == Spec => []TypeOK
<1>1. IInv => TypeOK
  BY DEF IInv
<1> QED
  BY <1>1, PoolInvariant, PTL

\* The breaker's state, failure count and probe flag always agree (breaker.go:62-139).
THEOREM BreakerConsistent == Spec => []BreakerShape
<1>1. IInv => BreakerShape
  BY DEF IInv
<1> QED
  BY <1>1, PoolInvariant, PTL

\* Slots are taken exactly by the calls inside Do, at most Workers of them, and the
\* in-flight counter never exceeds them (pool.go:125-133).
THEOREM SlotsAlwaysAccounted == Spec => []SlotsAccounted
<1>1. IInv => SlotsAccounted
  <2> SUFFICES ASSUME IInv PROVE SlotsAccounted
    OBVIOUS
  <2>1. /\ sem = Cardinality(At(Holding)) /\ inFlight = Cardinality(At(Counted))
        /\ sem <= Workers
    BY DEF IInv, Slots, Num, At
  <2>2. Num(pc, Counted) <= Num(pc, Holding)
    BY CountSubset DEF IInv, TypeOK, Holding
  <2> QED
    BY <2>1, <2>2 DEF SlotsAccounted, Num, At
<1> QED
  BY <1>1, PoolInvariant, PTL

\* Each call of Do is in exactly one of the counters once it is over (pool.go:126-172).
THEOREM CallsAlwaysAccounted == Spec => []CallsAccounted
<1>1. IInv => CallsAccounted
  <2> SUFFICES ASSUME IInv PROVE CallsAccounted
    OBVIOUS
  <2>1. Num(pc, Active) = Cardinality(At(ProgramPoint \ {"idle", "leave", "release"}))
    BY DEF Num, At, Active
  <2>2. Num(pc, Active) \in Nat
    BY CountSubset DEF IInv, TypeOK
  <2> QED
    BY <2>1, <2>2 DEF IInv, TypeOK, Calls, Ended, CallsAccounted
<1> QED
  BY <1>1, PoolInvariant, PTL

\* A half-open breaker has its probe out, unless the caller that took it may have
\* given up (breaker.go:86-93).
THEOREM HalfOpenAlwaysHasProbe == Spec => []HalfOpenHasProbe
<1>1. IInv => HalfOpenHasProbe
  BY DEF IInv
<1> QED
  BY <1>1, PoolInvariant, PTL

\* Between two openings fewer than Workers calls reach the provider (pool.go:145-154).
THEOREM OpenEpisodesBounded == Spec => []OpenEpisodeBounded
<1>1. IInv => OpenEpisodeBounded
  <2> SUFFICES ASSUME IInv, brState = "open" PROVE lateStarts < Workers
    BY DEF OpenEpisodeBounded
  <2>1. Num(pc, {"limit"}) \in Nat
    BY CountSubset DEF IInv, TypeOK
  <2> QED
    BY <2>1, PoolAssumption DEF IInv, TypeOK, Episode
<1> QED
  BY <1>1, PoolInvariant, PTL

\* A half-open episode admits exactly one probe (breaker.go:80-93).
THEOREM OneProbe == Spec => OneProbePerEpisode
<1>1. IInv /\ [Next]_vars
        => [brState = "half-open" /\ brState' = "half-open" => prober' = prober]_vars
  <2> SUFFICES ASSUME IInv, Next, brState = "half-open" PROVE prober' = prober
    BY DEF vars
  <2>1. probeInFlig /\ ~Disabled
    BY DEF IInv, BreakerShape
  <2>2. ASSUME NEW c \in Callers, Allowed(c) PROVE prober' = prober
    BY <2>1, <2>2 DEF Allowed, AllowPass, AllowProbe, MayProbe
  <2>3. ASSUME NEW c \in Callers, CallerAction(c), ~Allowed(c) PROVE prober' = prober
    BY <2>3 DEF CallerAction, Step, Start, Cancel, Acquire, GiveUpSlot, Enter, Rejected,
       Granted, LimitFailed, CallSucceeded, CallFailed, BackoffDone, BackoffCancelled,
       Leave, Release, ghosts
  <2>4. CASE Tick
    BY <2>4 DEF Tick, poolVars, ghosts
  <2> QED
    BY <2>2, <2>3, <2>4 DEF Next, CallerAction
<1> QED
  BY <1>1, PoolInvariant, PTL DEF Spec, OneProbePerEpisode
=============================================================================
