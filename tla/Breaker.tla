------------------------------ MODULE Breaker ------------------------------
(***************************************************************************)
(* The circuit breaker of internal/rpc/breaker.go.  Every method takes the *)
(* breaker's mutex for its whole body, so each is one atomic step; Pool    *)
(* conjoins these steps with the step of the caller that makes the call.   *)
(*                                                                         *)
(* The code keeps openedAt and compares now - openedAt with the cooldown.  *)
(* Only that comparison is ever made, so the model keeps what is left of   *)
(* the cooldown and lets the clock count it down to zero.                  *)
(***************************************************************************)
EXTENDS Integers

CONSTANTS Threshold,  \* consecutive failures before the breaker opens
          Cooldown    \* clock ticks the breaker stays open before probing

\* newBreakerWithClock replaces a cooldown of zero or less by five seconds.
\* The threshold is any integer: one below 1 disables the breaker.
ASSUME BreakerAssumption == /\ Threshold \in Int
                            /\ Cooldown \in Nat \ {0}

VARIABLES brState,      \* Breaker.state
          failures,     \* Breaker.failures
          cooldownLeft, \* cooldown - (now - openedAt), never below zero
          probeInFlig   \* Breaker.probeInFlig

breakerVars == <<brState, failures, cooldownLeft, probeInFlig>>

BreakerState == {"closed", "open", "half-open"}

BreakerTypeOK == /\ brState \in BreakerState
                 /\ failures \in Nat
                 /\ cooldownLeft \in 0..Cooldown
                 /\ probeInFlig \in BOOLEAN

NewBreaker == /\ brState = "closed"
              /\ failures = 0
              /\ cooldownLeft = 0
              /\ probeInFlig = FALSE

Disabled == Threshold <= 0

----------------------------------------------------------------------------
(* Allow.  Its three outcomes: pass through, admit as the probe, reject.   *)

\* Mutant: the half-open case forgets that a probe is already out.
MayProbeAgain == \/ brState = "open" /\ cooldownLeft = 0
                 \/ brState = "half-open"

\* The cases in which Allow turns the caller into the probe.
MayProbe == \/ brState = "open" /\ cooldownLeft = 0
            \/ brState = "half-open" /\ ~probeInFlig

AllowPass == /\ Disabled \/ brState = "closed"
             /\ UNCHANGED breakerVars

AllowProbe == /\ ~Disabled
              /\ MayProbe
              /\ brState' = "half-open"
              /\ probeInFlig' = TRUE
              /\ UNCHANGED <<failures, cooldownLeft>>

AllowReject == /\ ~Disabled
               /\ brState # "closed"
               /\ ~MayProbe
               /\ UNCHANGED breakerVars

----------------------------------------------------------------------------
(* Success and Failure: how a call that was made is reported.              *)

\* Mutant: a success only clears the count, and leaves the state alone.
SuccessKeepsState == /\ failures' = IF brState = "closed" THEN 0 ELSE failures
                     /\ UNCHANGED <<brState, cooldownLeft, probeInFlig>>

Success == IF Disabled
             THEN UNCHANGED breakerVars
             ELSE /\ failures' = 0
                  /\ brState' = "closed"
                  /\ probeInFlig' = FALSE
                  /\ UNCHANGED cooldownLeft

\* The breaker opens, or stays open and restarts its cooldown.
Trip == /\ brState' = "open"
        /\ cooldownLeft' = Cooldown
        /\ probeInFlig' = FALSE

Failure ==
  \/ /\ Disabled
     /\ UNCHANGED breakerVars
  \/ /\ ~Disabled
     /\ brState = "half-open"
     /\ Trip
     /\ UNCHANGED failures
  \/ /\ ~Disabled
     /\ brState # "half-open"
     /\ failures' = failures + 1
     /\ IF failures + 1 >= Threshold
          THEN Trip
          ELSE UNCHANGED <<brState, cooldownLeft, probeInFlig>>

----------------------------------------------------------------------------
\* The clock: the only way a cooldown elapses.
CooldownTick == /\ cooldownLeft > 0
                /\ cooldownLeft' = cooldownLeft - 1
                /\ UNCHANGED <<brState, failures, probeInFlig>>

\* What the four fields say about each other, always: the breaker is closed
\* exactly while fewer than Threshold failures in a row were reported, and a
\* probe is recorded exactly in the half-open state.  Every report, in every
\* order of late and early reports, has to keep them together.
BreakerShape == IF Disabled
                  THEN brState = "closed" /\ ~probeInFlig /\ failures = 0
                  ELSE /\ brState = "closed" <=> failures < Threshold
                       /\ brState = "half-open" <=> probeInFlig
=============================================================================
