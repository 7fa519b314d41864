------------------------------ MODULE Limiter ------------------------------
(***************************************************************************)
(* The rate limiter of internal/rpc/limiter.go: concurrent callers of Wait *)
(* on a token bucket that accrues lazily, from the time elapsed since it   *)
(* was last looked at, with deadlines and cancellation.                    *)
(*                                                                         *)
(* Tokens are counted in units (the code has a float64): a token is Unit   *)
(* units and a clock tick is worth Rate of them, so that a rate that does  *)
(* not divide a token, and the truncation of the delay, are kept.  A tick  *)
(* is the resolution of time.Duration, and MinDelay ticks the millisecond  *)
(* a caller sleeps at least.  One iteration of Wait's loop reads the clock *)
(* and the bucket and starts the timer without blocking, within one tick:  *)
(* it is one step.                                                         *)
(*                                                                         *)
(* Timers and deadlines are kept as the ticks left, and now - last as the  *)
(* ticks elapsed, which stop counting once they fill the whole bucket.     *)
(***************************************************************************)
EXTENDS Integers

CONSTANTS Callers,   \* goroutines that call Wait
          Unit,      \* units that make one token
          Rate,      \* units accrued per tick
          Burst,     \* tokens the bucket holds
          MinDelay,  \* ticks a caller sleeps at least
          Deadlines  \* ticks to the deadline a caller's context may start with

\* newLimiterWithClock raises a rate of zero or less, and a burst below one, to one.
ASSUME LimiterAssumption == /\ Unit \in Nat \ {0}
                            /\ Rate \in Nat \ {0}
                            /\ Burst \in Nat \ {0}
                            /\ MinDelay \in Nat \ {0}
                            /\ Deadlines \subseteq Nat

NoDeadline == -1

Capacity == Burst * Unit

VARIABLES tokens,     \* Limiter.tokens, in units
          elapsed,    \* ticks since Limiter.last, up to Capacity
          pc,         \* where each caller is in Wait
          timer,      \* ticks until the caller's timer fires
          toDeadline, \* ticks until its context's deadline, or NoDeadline
          ctxDone,    \* ctx.Err() # nil
          debt        \* bookkeeping, see RateBound

vars == <<tokens, elapsed, pc, timer, toDeadline, ctxDone, debt>>

\* "check": at the top of the loop.  "sleep": in the select on the timer.
ProgramPoint == {"idle", "check", "sleep", "granted", "refused"}

Goto(c, point) == pc' = [pc EXCEPT ![c] = point]

Init == /\ tokens = Capacity
        /\ elapsed = 0
        /\ pc = [c \in Callers |-> "idle"]
        /\ timer = [c \in Callers |-> 0]
        /\ toDeadline = [c \in Callers |-> NoDeadline]
        /\ ctxDone = [c \in Callers |-> FALSE]
        /\ debt = 0

----------------------------------------------------------------------------
(* reserve                                                                 *)

\* Mutant: the accrual is not capped at the burst.
AccruedUncapped == tokens + Rate * elapsed

\* The tokens after reserve has credited the time since it last ran.
Accrued == IF tokens + Rate * elapsed > Capacity THEN Capacity
                                                 ELSE tokens + Rate * elapsed

\* Mutant: last is not moved, so the same time is credited again.
CreditKeepsLast(left) == tokens' = left /\ UNCHANGED elapsed

\* l.tokens = left, l.last = now.
Credit(left) == tokens' = left /\ elapsed' = 0

\* Mutant: a caller waits for a whole token, not for what is missing of one.
DelayWholeToken == IF Unit \div Rate < MinDelay THEN MinDelay ELSE Unit \div Rate

\* How long until the next token, truncated, and at least a millisecond.
Delay == IF (Unit - Accrued) \div Rate < MinDelay THEN MinDelay
                                                 ELSE (Unit - Accrued) \div Rate

----------------------------------------------------------------------------
(* Wait                                                                    *)

Call(c) == /\ pc[c] = "idle"
           /\ \E d \in Deadlines \cup {NoDeadline} :
                toDeadline' = [toDeadline EXCEPT ![c] = d]
           /\ Goto(c, "check")
           /\ UNCHANGED <<tokens, elapsed, timer, ctxDone, debt>>

\* The deadline passes, or the caller gives up.
ContextEnds(c) == /\ pc[c] \in {"check", "sleep"}
                  /\ ~ctxDone[c]
                  /\ ctxDone' = [ctxDone EXCEPT ![c] = TRUE]
                  /\ UNCHANGED <<tokens, elapsed, pc, timer, toDeadline, debt>>

\* Either way out with the context's error: the check at the top of the loop,
\* or the select while the caller sleeps.
GiveUp(c) == /\ pc[c] \in {"check", "sleep"}
             /\ ctxDone[c]
             /\ timer' = [timer EXCEPT ![c] = 0]
             /\ Goto(c, "refused")
             /\ UNCHANGED <<tokens, elapsed, toDeadline, ctxDone, debt>>

Grant(c) == /\ pc[c] = "check"
            /\ ~ctxDone[c]
            /\ Accrued >= Unit
            /\ Credit(Accrued - Unit)
            /\ debt' = debt + Unit
            /\ Goto(c, "granted")
            /\ UNCHANGED <<timer, toDeadline, ctxDone>>

\* Mutant: a delay that ends exactly at the deadline is refused as well.
MissesDeadlineOffByOne(c) == toDeadline[c] # NoDeadline /\ Delay >= toDeadline[c]

\* now + delay is after the deadline.
MissesDeadline(c) == toDeadline[c] # NoDeadline /\ Delay > toDeadline[c]

\* Mutant: the credit of a caller that finds too little is dropped.
NoTokenDropsCredit(c) == /\ pc[c] = "check"
                         /\ ~ctxDone[c]
                         /\ Accrued < Unit
                         /\ Credit(tokens)

\* reserve finds less than a token; what has accrued stays in the bucket.
NoToken(c) == /\ pc[c] = "check"
              /\ ~ctxDone[c]
              /\ Accrued < Unit
              /\ Credit(Accrued)

Refuse(c) == /\ NoToken(c)
             /\ MissesDeadline(c)
             /\ Goto(c, "refused")
             /\ UNCHANGED <<timer, toDeadline, ctxDone, debt>>

Sleep(c) == /\ NoToken(c)
            /\ ~MissesDeadline(c)
            /\ timer' = [timer EXCEPT ![c] = Delay]
            /\ Goto(c, "sleep")
            /\ UNCHANGED <<toDeadline, ctxDone, debt>>

Wake(c) == /\ pc[c] = "sleep"
           /\ timer[c] = 0
           /\ Goto(c, "check")
           /\ UNCHANGED <<tokens, elapsed, timer, toDeadline, ctxDone, debt>>

\* Wait has returned; the caller and its context go their way.
Return(c) == /\ pc[c] \in {"granted", "refused"}
             /\ Goto(c, "idle")
             /\ toDeadline' = [toDeadline EXCEPT ![c] = NoDeadline]
             /\ ctxDone' = [ctxDone EXCEPT ![c] = FALSE]
             /\ UNCHANGED <<tokens, elapsed, timer, debt>>

----------------------------------------------------------------------------
CountDown(n) == IF n > 0 THEN n - 1 ELSE n

Tick == /\ elapsed' = IF elapsed < Capacity THEN elapsed + 1 ELSE elapsed
        /\ timer' = [c \in Callers |-> CountDown(timer[c])]
        /\ toDeadline' = [c \in Callers |-> CountDown(toDeadline[c])]
        /\ debt' = IF debt > Rate THEN debt - Rate ELSE 0
        /\ UNCHANGED <<tokens, pc, ctxDone>>

Step(c) == \/ GiveUp(c) \/ Grant(c) \/ Refuse(c) \/ Sleep(c) \/ Wake(c)
           \/ Return(c)

Next == \/ \E c \in Callers : Call(c) \/ ContextEnds(c) \/ Step(c)
        \/ Tick

\* Goroutines inside Wait run, timers fire and time goes on; nothing makes a
\* caller call Wait, or its context end.
Fairness == WF_vars(Tick) /\ \A c \in Callers : WF_vars(Step(c))

Spec == Init /\ [][Next]_vars
FairSpec == Spec /\ Fairness

----------------------------------------------------------------------------
(* Properties.                                                             *)

\* Every variable has its type; the bucket is never overdrawn or overfull.
TypeOK == /\ tokens \in 0..Capacity
          /\ elapsed \in 0..Capacity
          /\ pc \in [Callers -> ProgramPoint]
          /\ timer \in [Callers -> Nat]
          /\ toDeadline \in [Callers -> Nat \cup {NoDeadline}]
          /\ ctxDone \in [Callers -> BOOLEAN]
          /\ debt \in Nat

\* The units in the bucket if it accrued at every tick.
Level == IF tokens + Rate * elapsed > Capacity THEN Capacity
                                               ELSE tokens + Rate * elapsed

\* The lazy bucket is a token bucket: crediting the elapsed time at the next look
\* (limiter.go:103-110), whoever looks and however often, is the same as crediting
\* every tick.
Bucket == INSTANCE TokenBucket WITH level <- Level, Capacity <- Capacity
ImplementsBucket == Bucket!Spec

\* In no interval are more tokens granted than the burst plus what the rate accrues
\* over it (limiter.go:42-43).  debt is the largest, over all intervals that end now,
\* of the units granted in the interval less Rate for each of its ticks: a grant
\* adds Unit to it, a tick takes Rate, and the empty interval keeps it from falling
\* below zero.
RateBound == debt <= Capacity

\* Nobody sleeps through a token for as long as a millisecond (limiter.go:118-124):
\* while a caller's timer has that long to run there is none in the bucket, in spite
\* of truncation, and of what other callers do to the bucket in the meantime.
NoTokenWhileTimerRuns == \A c \in Callers : timer[c] >= MinDelay => Level < Unit

\* A caller is refused for its deadline only if even with the bucket to itself it
\* could not have had a token by then, or if the deadline is less than a millisecond
\* away (limiter.go:75-86).
RefusedOnlyIfHopeless ==
  [][\A c \in Callers : Refuse(c) => \/ toDeadline[c] < MinDelay
                                     \/ Level + Rate * toDeadline[c] < Unit]_vars

\* As long as somebody waits, somebody gets out again (limiter.go:68-95): the loop
\* cannot spend the credit of the elapsed time without granting anything.
WaitersProgress == (\E c \in Callers : pc[c] \in {"check", "sleep"})
                     ~> (\E c \in Callers : pc[c] \in {"granted", "refused"})
=============================================================================
