-------------------------------- MODULE Pool --------------------------------
(***************************************************************************)
(* The worker pool of internal/rpc/pool.go: concurrent calls of Pool.Do    *)
(* under a semaphore, a rate limiter, a retry loop and the circuit breaker *)
(* of module Breaker.                                                      *)
(*                                                                         *)
(* One caller is one goroutine inside Do.  Its program point says which    *)
(* statement it is about to execute; the slot and the in-flight count are  *)
(* given back by two deferred functions, in two steps.  The rate limiter   *)
(* appears as a call that takes some time and fails only when the caller's *)
(* context is done or its deadline too close: module Limiter is the        *)
(* limiter itself.  The transport either answers or fails, after any delay.*)
(***************************************************************************)
EXTENDS Breaker, FiniteSets

CONSTANTS Callers,      \* goroutines that call Do
          Workers,      \* capacity of the semaphore channel
          MaxRetries,   \* PoolConfig.MaxRetries
          Cancellable,  \* callers whose context can be cancelled or expire
          MaxCalls      \* bound: calls of Do in one behaviour

ASSUME PoolAssumption == /\ IsFiniteSet(Callers) /\ Callers # {}
                         /\ Workers \in Nat \ {0}
                         /\ MaxRetries \in Nat
                         /\ Cancellable \subseteq Callers
                         /\ MaxCalls \in Nat

VARIABLES pc,        \* where each caller is in Do
          attempt,   \* the loop variable of Do
          ctxDone,   \* ctx.Err() # nil for the caller's context
          sem,       \* len(p.sem): slots taken
          inFlight,  \* Pool.inFlight
          completed, failed, retried, rejected,  \* the other counters of Stats
          calls,     \* bookkeeping: calls of Do so far
          aborted,   \* bookkeeping: calls that returned a context error
          prober,    \* bookkeeping: the caller Allow last admitted as the probe
          lateStarts \* bookkeeping: transport calls begun since the breaker opened

counters == <<completed, failed, retried, rejected>>
ghosts == <<calls, aborted, prober, lateStarts>>
poolVars == <<pc, attempt, ctxDone, sem, inFlight, counters, ghosts>>
vars == <<breakerVars, poolVars>>

\* "acquire": waiting for a slot.  "enter": slot taken, not yet counted.
\* "allow", "limit", "call", "backoff": the statements of the retry loop.
\* "leave": returning, before the deferred decrement.  "release": between the
\* deferred decrement and the deferred receive from the semaphore.
ProgramPoint == {"idle", "acquire", "enter", "allow", "limit", "call",
                 "backoff", "leave", "release"}

Counted == {"allow", "limit", "call", "backoff", "leave"}
Holding == Counted \cup {"enter", "release"}

At(points) == {c \in Callers : pc[c] \in points}

Goto(c, point) == pc' = [pc EXCEPT ![c] = point]

Init == /\ NewBreaker
        /\ pc = [c \in Callers |-> "idle"]
        /\ attempt = [c \in Callers |-> 0]
        /\ ctxDone = [c \in Callers |-> FALSE]
        /\ sem = 0 /\ inFlight = 0
        /\ completed = 0 /\ failed = 0 /\ retried = 0 /\ rejected = 0
        /\ calls = 0 /\ aborted = 0
        /\ prober = CHOOSE c \in Callers : TRUE
        /\ lateStarts = 0

----------------------------------------------------------------------------
(* Entering Do.                                                            *)

Start(c) == /\ pc[c] = "idle"
            /\ calls < MaxCalls
            /\ calls' = calls + 1
            /\ Goto(c, "acquire")
            /\ UNCHANGED <<breakerVars, attempt, ctxDone, sem, inFlight, counters,
                           aborted, prober, lateStarts>>

\* The context is cancelled or expires, at any moment of the call.
Cancel(c) == /\ c \in Cancellable
             /\ pc[c] # "idle"
             /\ ~ctxDone[c]
             /\ ctxDone' = [ctxDone EXCEPT ![c] = TRUE]
             /\ UNCHANGED <<breakerVars, pc, attempt, sem, inFlight, counters,
                            ghosts>>

\* Mutant: the semaphore channel is one slot too long.
FreeSlotOffByOne == sem <= Workers

FreeSlot == sem < Workers

\* The select of Do picks either ready case: a slot may be taken although the
\* context is already done.
Acquire(c) == /\ pc[c] = "acquire"
              /\ FreeSlot
              /\ sem' = sem + 1
              /\ Goto(c, "enter")
              /\ UNCHANGED <<breakerVars, attempt, ctxDone, inFlight, counters,
                             ghosts>>

\* Do returns; its context and its locals are gone.
EndCall(c) == /\ Goto(c, "idle")
              /\ ctxDone' = [ctxDone EXCEPT ![c] = FALSE]

GiveUpSlot(c) == /\ pc[c] = "acquire"
                 /\ ctxDone[c]
                 /\ aborted' = aborted + 1
                 /\ EndCall(c)
                 /\ UNCHANGED <<breakerVars, attempt, sem, inFlight, counters,
                                calls, prober, lateStarts>>

Enter(c) == /\ pc[c] = "enter"
            /\ inFlight' = inFlight + 1
            /\ Goto(c, "allow")
            /\ UNCHANGED <<breakerVars, attempt, ctxDone, sem, counters, ghosts>>

----------------------------------------------------------------------------
(* The retry loop.                                                         *)

\* The bookkeeping of lateStarts, when n transport calls begin in this step: an
\* episode lasts as long as the breaker stays open.
LateStarts(n) == IF brState = "open" /\ brState' = "open" THEN lateStarts + n ELSE 0

\* breaker.Allow() let the call through.
Allowed(c) == /\ pc[c] = "allow"
              /\ \/ AllowPass /\ UNCHANGED prober
                 \/ AllowProbe /\ prober' = c
              /\ lateStarts' = LateStarts(0)
              /\ Goto(c, "limit")
              /\ UNCHANGED <<attempt, ctxDone, sem, inFlight, counters, calls,
                             aborted>>

\* Mutant: the rejection is not counted.
RejectedUncounted(c) == /\ pc[c] = "allow"
                        /\ AllowReject
                        /\ Goto(c, "leave")
                        /\ UNCHANGED <<attempt, ctxDone, sem, inFlight,
                                       counters, ghosts>>

Rejected(c) == /\ pc[c] = "allow"
               /\ AllowReject
               /\ rejected' = rejected + 1
               /\ Goto(c, "leave")
               /\ UNCHANGED <<attempt, ctxDone, sem, inFlight, completed,
                              failed, retried, ghosts>>

\* limiter.Wait returned nil and transport.Call begins.  Wait looks at the
\* context before it takes the token; a cancellation that comes between the
\* two is the same as one that comes right after.
Granted(c) == /\ pc[c] = "limit"
              /\ ~ctxDone[c]
              /\ UNCHANGED breakerVars
              /\ lateStarts' = LateStarts(1)
              /\ Goto(c, "call")
              /\ UNCHANGED <<attempt, ctxDone, sem, inFlight,
                             counters, calls, aborted, prober>>

\* limiter.Wait returned an error: the context is done, or its deadline comes
\* before the next token.  Do returns without telling the breaker.
LimitFailed(c) == /\ pc[c] = "limit"
                  /\ c \in Cancellable
                  /\ aborted' = aborted + 1
                  /\ Goto(c, "leave")
                  /\ UNCHANGED <<breakerVars, attempt, ctxDone, sem, inFlight,
                                 counters, calls, prober, lateStarts>>

CallSucceeded(c) == /\ pc[c] = "call"
                    /\ Success
                    /\ lateStarts' = LateStarts(0)
                    /\ completed' = completed + 1
                    /\ Goto(c, "leave")
                    /\ UNCHANGED <<attempt, ctxDone, sem, inFlight, failed,
                                   retried, rejected, calls, aborted, prober>>

\* The loop condition, after attempt++.
RetriesLeft(c) == attempt[c] < MaxRetries

\* The call failed and is reported to the breaker.  The loop goes on unless
\* the context is done or this was the last attempt.
CallFailed(c) ==
  /\ pc[c] = "call"
  /\ Failure
  /\ lateStarts' = LateStarts(0)
  /\ \/ /\ ~ctxDone[c] /\ RetriesLeft(c)
        /\ attempt' = [attempt EXCEPT ![c] = @ + 1]
        /\ retried' = retried + 1
        /\ Goto(c, "backoff")
        /\ UNCHANGED failed
     \/ /\ ctxDone[c] \/ ~RetriesLeft(c)
        /\ failed' = failed + 1
        /\ Goto(c, "leave")
        /\ UNCHANGED <<attempt, retried>>
  /\ UNCHANGED <<ctxDone, sem, inFlight, completed, rejected, calls, aborted,
                 prober>>

\* Mutant: the retry goes back to the limiter, past the breaker.
BackoffSkipsBreaker(c) == /\ pc[c] = "backoff"
                          /\ Goto(c, "limit")
                          /\ UNCHANGED <<breakerVars, attempt, ctxDone, sem,
                                         inFlight, counters, ghosts>>

\* The backoff timer fired; the loop reaches breaker.Allow again.
BackoffDone(c) == /\ pc[c] = "backoff"
                  /\ Goto(c, "allow")
                  /\ UNCHANGED <<breakerVars, attempt, ctxDone, sem, inFlight,
                                 counters, ghosts>>

BackoffCancelled(c) == /\ pc[c] = "backoff"
                       /\ ctxDone[c]
                       /\ aborted' = aborted + 1
                       /\ Goto(c, "leave")
                       /\ UNCHANGED <<breakerVars, attempt, ctxDone, sem,
                                      inFlight, counters, calls, prober,
                                      lateStarts>>

----------------------------------------------------------------------------
(* Leaving Do: the deferred functions run last in, first out.              *)

Leave(c) == /\ pc[c] = "leave"
            /\ inFlight' = inFlight - 1
            /\ attempt' = [attempt EXCEPT ![c] = 0]
            /\ Goto(c, "release")
            /\ UNCHANGED <<breakerVars, ctxDone, sem, counters, ghosts>>

\* Mutant: the slot is never given back.
ReleaseLeaks(c) == /\ pc[c] = "release"
                   /\ EndCall(c)
                   /\ UNCHANGED <<breakerVars, attempt, sem, inFlight,
                                  counters, ghosts>>

Release(c) == /\ pc[c] = "release"
              /\ sem' = sem - 1
              /\ EndCall(c)
              /\ UNCHANGED <<breakerVars, attempt, inFlight, counters, ghosts>>

Tick == /\ CooldownTick
        /\ UNCHANGED poolVars

Step(c) == \/ Enter(c) \/ Allowed(c) \/ Rejected(c)
           \/ Granted(c) \/ LimitFailed(c)
           \/ CallSucceeded(c) \/ CallFailed(c)
           \/ BackoffDone(c) \/ BackoffCancelled(c)
           \/ Leave(c) \/ Release(c) \/ GiveUpSlot(c)

Next == \/ \E c \in Callers : Start(c) \/ Cancel(c) \/ Acquire(c) \/ Step(c)
        \/ Tick

\* A goroutine inside Do keeps running: the limiter grants, the transport has a
\* timeout, a timer fires.  Senders blocked on a channel are served in order, so
\* a slot that is freed again and again reaches every waiter: strong fairness.
\* Nothing makes a caller start a call or a context end.
Fairness == /\ \A c \in Callers : WF_vars(Step(c)) /\ SF_vars(Acquire(c))
            /\ WF_vars(Tick)

Spec == Init /\ [][Next]_vars
FairSpec == Spec /\ Fairness

----------------------------------------------------------------------------
(* Properties.                                                             *)

\* Every variable has its type.
TypeOK == /\ BreakerTypeOK
          /\ pc \in [Callers -> ProgramPoint]
          /\ attempt \in [Callers -> 0..MaxRetries]
          /\ ctxDone \in [Callers -> BOOLEAN]
          /\ sem \in Nat /\ inFlight \in Nat
          /\ completed \in Nat /\ failed \in Nat
          /\ retried \in Nat /\ rejected \in Nat
          /\ calls \in 0..MaxCalls /\ aborted \in Nat
          /\ prober \in Callers
          /\ lateStarts \in Nat

\* Whatever way out of Do a call takes (pool.go:125-172), the slots taken are
\* those of the calls inside Do, never more than Workers, and the in-flight
\* counter that the status endpoint shows never exceeds them.  A call that sleeps
\* between two attempts is one of these, as the code has it and the comment at
\* pool.go:123-124 denies (SleepersHoldNoSlot).
SlotsAccounted == /\ sem = Cardinality(At(Holding))
                  /\ inFlight = Cardinality(At(Counted))
                  /\ inFlight <= sem
                  /\ sem <= Workers

\* pool.go:123-124, "a retrying call does not hold a slot while it sleeps": the slots
\* taken are those of calls that are awake.
SleepersHoldNoSlot == sem <= Cardinality(At(Holding \ {"backoff"}))

\* Allow (pool.go:145) and transport.Call (pool.go:154) are not one step: calls
\* admitted earlier still go out after the breaker has opened.  One opening lets
\* through fewer than Workers of them, however often its cooldown is restarted.
OpenEpisodeBounded == brState = "open" => lateStarts < Workers

\* A half-open breaker turns everyone away because a probe is out (breaker.go:87):
\* the caller that took the probe really is between Allow and its report, unless
\* its context can end while it waits for the limiter.
ProbeIsOut == brState = "half-open" => pc[prober] \in {"limit", "call"}
HalfOpenHasProbe == ProbeIsOut \/ prober \in Cancellable

\* One half-open episode admits one probe (breaker.go:80-81, "exactly one caller"):
\* as long as it lasts, nobody else is let through, whoever calls Allow.
OneProbePerEpisode ==
  [][brState = "half-open" /\ brState' = "half-open" => prober' = prober]_vars

\* Every call of Do is counted once and only once: it is under way, or it is
\* completed, failed, rejected, or was given up by its context (pool.go:126-172).
CallsAccounted ==
  calls = Cardinality(At(ProgramPoint \ {"idle", "leave", "release"}))
          + completed + failed + rejected + aborted

\* A call of Do that has begun returns (pool.go:122): no slot, probe or backoff
\* keeps a caller forever, whatever the breaker and the other callers do.
EveryCallReturns == \A c \in Callers : pc[c] = "acquire" ~> pc[c] = "idle"
=============================================================================
