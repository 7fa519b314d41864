--------------------------- MODULE LimiterProofs ---------------------------
(***************************************************************************)
(* Proofs about Limiter, for every set of callers, every rate (also one    *)
(* that does not divide a token, or that accrues several tokens per tick), *)
(* every burst and all deadlines.                                          *)
(***************************************************************************)
EXTENDS Limiter, TLAPS

----------------------------------------------------------------------------
(* Arithmetic.                                                             *)

\* The bucket holds at least one token.
LEMMA CapacityType == Capacity \in Nat /\ Capacity >= Unit
BY LimiterAssumption, SMT DEF Capacity

\* Accrual over one more tick.
LEMMA RateStep ==
  ASSUME NEW n \in Nat
  PROVE  Rate * n \in Nat /\ Rate * (n + 1) = Rate * n + Rate /\ Rate * n >= n
BY LimiterAssumption, SMT

\* A delay that is not rounded up is no longer than what is missing takes to accrue.
LEMMA DelayBound ==
  ASSUME NEW a \in Nat
  PROVE  /\ a \div Rate \in Nat
         /\ Rate * (a \div Rate) <= a
         /\ a < Rate * (a \div Rate) + Rate
BY LimiterAssumption, SMT

----------------------------------------------------------------------------
(* The level of the bucket, step by step.                                  *)

Min2(a, b) == IF a > b THEN b ELSE a

\* The level is a number of units between an empty and a full bucket.
LEMMA LevelType ==
  ASSUME TypeOK
  PROVE  /\ Level \in Nat /\ Level <= Capacity
         /\ Accrued = Level
<1>1. Rate * elapsed \in Nat
  BY CapacityType, RateStep DEF TypeOK
<1> QED
  BY <1>1, CapacityType DEF TypeOK, Level, Accrued

\* A tick adds Rate to the level, up to the capacity.
LEMMA LevelTick ==
  ASSUME TypeOK, Tick
  PROVE  Level' = Min2(Level + Rate, Capacity)
<1>1. /\ tokens \in Nat /\ tokens <= Capacity /\ elapsed \in Nat /\ Capacity \in Nat
      /\ elapsed <= Capacity /\ Rate \in Nat /\ tokens' = tokens
  BY CapacityType, LimiterAssumption DEF TypeOK, Tick
<1>2. /\ Rate * elapsed \in Nat /\ Rate * elapsed >= elapsed
      /\ Rate * (elapsed + 1) = Rate * elapsed + Rate
  BY <1>1, RateStep
<1>3. CASE elapsed < Capacity
  <2>1. elapsed' = elapsed + 1
    BY <1>3 DEF Tick
  <2>2. Rate * elapsed' = Rate * elapsed + Rate
    BY <1>2, <2>1
  <2> HIDE DEF Capacity
  <2> QED
    BY <1>1, <1>2, <2>2 DEF Level, Min2
<1>4. CASE ~(elapsed < Capacity)
  <2>1. elapsed' = elapsed /\ elapsed = Capacity
    BY <1>1, <1>4 DEF Tick
  <2>2. Rate * elapsed' = Rate * elapsed
    BY <2>1
  <2> QED
    BY <1>1, <1>2, <2>1, <2>2 DEF Level, Min2
<1> QED
  BY <1>3, <1>4

\* Writing the credited tokens back with last = now sets the level to them.
LEMMA LevelCredit ==
  ASSUME TypeOK, NEW n \in Nat, n <= Capacity, Credit(n)
  PROVE  Level' = n
<1>1. tokens' = n /\ elapsed' = 0
  BY DEF Credit
<1>2. Rate * elapsed' = 0
  BY <1>1, LimiterAssumption
<1> QED
  BY <1>1, <1>2, CapacityType DEF Level

\* The bucket's part of every step: a tick, a token taken, or nothing.
LEMMA LevelStep ==
  ASSUME TypeOK, [Next]_vars
  PROVE  \/ Tick /\ Level' = Min2(Level + Rate, Capacity)
         \/ /\ \E c \in Callers : Grant(c)
            /\ Level >= Unit /\ Level' = Level - Unit /\ debt' = debt + Unit
            /\ UNCHANGED timer
         \/ Level' = Level /\ debt' = debt
<1>0. Level \in Nat /\ Level <= Capacity /\ Accrued = Level /\ Unit \in Nat
  BY LevelType, LimiterAssumption
<1>1. CASE Tick
  BY <1>1, LevelTick
<1>2. ASSUME NEW c \in Callers, Grant(c)
      PROVE  Level >= Unit /\ Level' = Level - Unit /\ debt' = debt + Unit
             /\ UNCHANGED timer
  <2>1. Level >= Unit /\ Credit(Level - Unit) /\ debt' = debt + Unit /\ UNCHANGED timer
    BY <1>0, <1>2 DEF Grant
  <2>2. Level - Unit \in Nat /\ Level - Unit <= Capacity
    BY <1>0, <2>1, CapacityType
  <2>3. Level' = Level - Unit
    BY <2>1, <2>2, LevelCredit
  <2> QED
    BY <2>1, <2>3
<1>3. ASSUME NEW c \in Callers, Refuse(c) \/ Sleep(c)
      PROVE  Level' = Level /\ debt' = debt
  <2>1. Credit(Level) /\ debt' = debt
    BY <1>0, <1>3 DEF Refuse, Sleep, NoToken
  <2> QED
    BY <1>0, <2>1, LevelCredit
<1>4. ASSUME NEW c \in Callers,
             \/ Call(c) \/ ContextEnds(c) \/ GiveUp(c) \/ Wake(c) \/ Return(c)
      PROVE  Level' = Level /\ debt' = debt
  BY <1>4 DEF Call, ContextEnds, GiveUp, Wake, Return, Level
<1>5. CASE UNCHANGED vars
  BY <1>5 DEF vars, Level
<1> QED
  BY <1>1, <1>2, <1>3, <1>4, <1>5 DEF Next, Step

----------------------------------------------------------------------------
(* The inductive invariant.                                                *)

\* What was granted too early is missing from the bucket.
Balance == debt + Level <= Capacity

\* A running timer ends no later than MinDelay ticks after the bucket has a token.
Timers == \A c \in Callers :
            timer[c] >= MinDelay => Level + Rate * (timer[c] - MinDelay) < Unit

IInv == TypeOK /\ Balance /\ Timers

\* The invariant holds initially.
LEMMA InitIInv == ASSUME Init PROVE IInv
<1>1. TypeOK
  BY CapacityType DEF Init, TypeOK, ProgramPoint
<1>2. Level = Capacity
  BY CapacityType, LimiterAssumption DEF Init, Level
<1>3. Balance /\ Timers
  BY <1>2, CapacityType, LimiterAssumption DEF Init, Balance, Timers
<1> QED
  BY <1>1, <1>3 DEF IInv

\* The delay is at least MinDelay, and MinDelay less would find no token.
LEMMA DelayFits ==
  ASSUME TypeOK, Level < Unit
  PROVE  /\ Delay \in Nat /\ Delay >= MinDelay
         /\ Level + Rate * (Delay - MinDelay) < Unit
<1> DEFINE d == (Unit - Level) \div Rate
<1>1. /\ Level \in Nat /\ Accrued = Level /\ Unit \in Nat /\ Rate \in Nat /\ Rate > 0
      /\ MinDelay \in Nat /\ MinDelay > 0
  BY LevelType, LimiterAssumption
<1>2. d \in Nat /\ Rate * d <= Unit - Level
  BY <1>1, DelayBound
<1>3. Delay = IF d < MinDelay THEN MinDelay ELSE d
  BY <1>1 DEF Delay
<1> HIDE DEF d
<1>4. CASE d < MinDelay
  <2>1. Delay = MinDelay /\ Delay - MinDelay = 0
    BY <1>1, <1>3, <1>4
  <2>2. Rate * (Delay - MinDelay) = 0
    BY <1>1, <2>1
  <2> QED
    BY <1>1, <2>1, <2>2
<1>5. CASE ~(d < MinDelay)
  <2> DEFINE k == d - MinDelay
             m == MinDelay - 1
  <2>1. k \in Nat /\ m \in Nat /\ Delay = d /\ d = k + m + 1 /\ Delay - MinDelay = k
    BY <1>1, <1>2, <1>3, <1>5
  <2> HIDE DEF k, m
  <2>2. Rate * d = Rate * k + Rate * m + Rate /\ Rate * m \in Nat /\ Rate * k \in Nat
    BY <1>1, <2>1, SMT
  <2>3. Rate * (Delay - MinDelay) = Rate * k
    BY <2>1
  <2> QED
    BY <1>1, <1>2, <1>5, <2>1, <2>2, <2>3
<1> QED
  BY <1>4, <1>5

\* Every step keeps the types.
LEMMA TypeStep == ASSUME TypeOK, [Next]_vars PROVE TypeOK'
<1>0. /\ Level \in Nat /\ Level <= Capacity /\ Accrued = Level
      /\ Capacity \in Nat /\ Unit \in Nat /\ Rate \in Nat
  BY LevelType, CapacityType, LimiterAssumption
<1> USE DEF TypeOK, ProgramPoint, Goto
<1>1. ASSUME NEW c \in Callers, Call(c) PROVE TypeOK'
  BY <1>1, LimiterAssumption DEF Call
<1>2. ASSUME NEW c \in Callers, ContextEnds(c) \/ GiveUp(c) \/ Wake(c) \/ Return(c)
      PROVE  TypeOK'
  <2>1. CASE ContextEnds(c)
    BY <2>1 DEF ContextEnds
  <2>2. CASE GiveUp(c)
    BY <2>2 DEF GiveUp
  <2>3. CASE Wake(c)
    BY <2>3 DEF Wake
  <2>4. CASE Return(c)
    BY <2>4 DEF Return
  <2> QED
    BY <1>2, <2>1, <2>2, <2>3, <2>4
<1>3. ASSUME NEW c \in Callers, Grant(c) PROVE TypeOK'
  BY <1>0, <1>3 DEF Grant, Credit
<1>4. ASSUME NEW c \in Callers, Refuse(c) PROVE TypeOK'
  BY <1>0, <1>4 DEF Refuse, NoToken, Credit
<1>5. ASSUME NEW c \in Callers, Sleep(c) PROVE TypeOK'
  <2>1. Delay \in Nat
    BY <1>0, <1>5, DelayFits DEF Sleep, NoToken
  <2> QED
    BY <1>0, <1>5, <2>1 DEF Sleep, NoToken, Credit
<1>6. CASE Tick
  <2>1. \A n \in Nat : CountDown(n) \in Nat
    BY DEF CountDown
  <2>2. CountDown(NoDeadline) = NoDeadline
    BY DEF CountDown, NoDeadline
  <2>3. timer' \in [Callers -> Nat]
    BY <1>6, <2>1 DEF Tick
  <2>4. toDeadline' \in [Callers -> Nat \cup {NoDeadline}]
    BY <1>6, <2>1, <2>2 DEF Tick
  <2>5. elapsed' \in 0..Capacity /\ debt' \in Nat
    BY <1>0, <1>6 DEF Tick
  <2> QED
    BY <1>6, <2>3, <2>4, <2>5 DEF Tick
<1>7. CASE UNCHANGED vars
  BY <1>7 DEF vars
<1> QED
  BY <1>1, <1>2, <1>3, <1>4, <1>5, <1>6, <1>7 DEF Next, Step

\* Every step keeps the balance of units granted and units accrued.
LEMMA BalanceStep == ASSUME IInv, [Next]_vars PROVE Balance'
<1>1. /\ Level \in Nat /\ Capacity \in Nat /\ Unit \in Nat /\ Rate \in Nat
      /\ debt \in Nat /\ debt + Level <= Capacity
  BY LevelType, CapacityType, LimiterAssumption DEF IInv, TypeOK, Balance
<1>2. CASE Tick /\ Level' = Min2(Level + Rate, Capacity)
  BY <1>1, <1>2 DEF Tick, Balance, Min2
<1>3. CASE Level' = Level - Unit /\ debt' = debt + Unit
  BY <1>1, <1>3 DEF Balance
<1>4. CASE Level' = Level /\ debt' = debt
  BY <1>1, <1>4 DEF Balance
<1> QED
  BY <1>2, <1>3, <1>4, LevelStep DEF IInv

\* Only a tick raises the level, and it takes a tick off every timer.
LEMMA TimersStep == ASSUME IInv, [Next]_vars PROVE Timers'
<1> SUFFICES ASSUME NEW c \in Callers, timer'[c] >= MinDelay
             PROVE  Level' + Rate * (timer'[c] - MinDelay) < Unit
  BY DEF Timers
<1>1. /\ Level \in Nat /\ Capacity \in Nat /\ Unit \in Nat /\ Rate \in Nat
      /\ timer[c] \in Nat /\ timer'[c] \in Nat /\ Level' \in Nat
      /\ MinDelay \in Nat /\ MinDelay > 0
  <2>1. TypeOK /\ TypeOK'
    BY TypeStep DEF IInv
  <2>2. Level \in Nat /\ Level' \in Nat
    BY <2>1, LevelStep, LevelType, CapacityType, LimiterAssumption DEF Min2
  <2> QED
    BY <2>1, <2>2, CapacityType, LimiterAssumption DEF TypeOK
<1>2. timer[c] >= MinDelay => Level + Rate * (timer[c] - MinDelay) < Unit
  BY DEF IInv, Timers
<1>3. CASE Tick
  <2>1. Level' <= Level + Rate
    BY <1>1, <1>3, LevelTick DEF IInv, Min2
  <2> DEFINE k == timer'[c] - MinDelay
  <2>2. k \in Nat /\ timer[c] - MinDelay = k + 1 /\ timer[c] >= MinDelay
    BY <1>1, <1>3 DEF Tick, CountDown
  <2>3. Level + Rate * (timer[c] - MinDelay) < Unit
    BY <1>2, <2>2
  <2> HIDE DEF k
  <2>4. Rate * (k + 1) = Rate * k + Rate /\ Rate * k \in Nat
    BY <2>2, RateStep
  <2>5. Level + Rate * (k + 1) < Unit
    BY <2>2, <2>3
  <2>6. Level' + Rate * k < Unit
    BY <1>1, <2>1, <2>4, <2>5
  <2> QED
    BY <2>6 DEF k
<1>4. CASE timer'[c] = timer[c] /\ Level' <= Level
  <2>1. timer[c] - MinDelay \in Nat /\ Rate * (timer[c] - MinDelay) \in Nat
    BY <1>1, <1>4, RateStep
  <2> QED
    BY <1>1, <1>2, <1>4, <2>1
<1>5. CASE Sleep(c)
  <2>1. TypeOK /\ Accrued = Level /\ Level < Unit
    BY <1>5, LevelType DEF IInv, Sleep, NoToken
  <2>2. Level' = Level
    <3>1. Credit(Level) /\ Level <= Capacity
      BY <1>5, <2>1, LevelType DEF Sleep, NoToken
    <3> QED
      BY <1>1, <2>1, <3>1, LevelCredit
  <2>3. timer'[c] = Delay
    BY <1>5 DEF Sleep, IInv, TypeOK
  <2> QED
    BY <2>1, <2>2, <2>3, DelayFits
<1>6. CASE ~Tick /\ ~Sleep(c)
  <2>1. timer'[c] = timer[c]
    <3>1. ASSUME NEW d \in Callers, GiveUp(d) PROVE timer'[c] = timer[c]
      BY <1>1, <3>1 DEF GiveUp, IInv, TypeOK
    <3>2. ASSUME NEW d \in Callers, Sleep(d) PROVE timer'[c] = timer[c]
      BY <1>6, <3>2 DEF Sleep, IInv, TypeOK
    <3>3. ASSUME NEW d \in Callers,
                 Call(d) \/ ContextEnds(d) \/ Grant(d) \/ Refuse(d) \/ Wake(d) \/ Return(d)
          PROVE  timer'[c] = timer[c]
      BY <3>3 DEF Call, ContextEnds, Grant, Refuse, Wake, Return
    <3>4. CASE UNCHANGED vars
      BY <3>4 DEF vars
    <3> QED
      BY <1>6, <3>1, <3>2, <3>3, <3>4 DEF Next, Step
  <2>2. Level' <= Level
    BY <1>1, <1>6, LevelStep DEF IInv
  <2> QED
    BY <1>4, <2>1, <2>2
<1> QED
  BY <1>3, <1>5, <1>6

\* Every step keeps the invariant.
LEMMA NextIInv == ASSUME IInv, [Next]_vars PROVE IInv'
BY TypeStep, BalanceStep, TimersStep DEF IInv

----------------------------------------------------------------------------
(* The theorems.                                                           *)

\* Every reachable state satisfies the inductive invariant.
THEOREM LimiterInvariant == Spec => []IInv
<1>1. Init => IInv
  BY InitIInv
<1>2. IInv /\ [Next]_vars => IInv'
  BY NextIInv
<1> QED
  BY <1>1, <1>2, PTL DEF Spec

\* All variables of the limiter always have their types: the bucket is never
\* overdrawn and never holds more than its burst (limiter.go:106-115).
THEOREM LimiterTypeCorrect == Spec => []TypeOK
<1>1. IInv => TypeOK
  BY DEF IInv
<1> QED
  BY <1>1, LimiterInvariant, PTL

\* No interval sees more grants than the burst and the rate allow (limiter.go:42-43).
THEOREM RateNeverExceeded == Spec => []RateBound
<1>1. IInv => RateBound
  <2> SUFFICES ASSUME IInv PROVE debt <= Capacity
    BY DEF RateBound
  <2>1. Level \in Nat /\ Capacity \in Nat /\ debt \in Nat
    BY LevelType, CapacityType DEF IInv, TypeOK
  <2> QED
    BY <2>1 DEF IInv, Balance
<1> QED
  BY <1>1, LimiterInvariant, PTL

\* No caller sleeps a millisecond while there is a token for it (limiter.go:118-124).
THEOREM NobodySleepsThroughAToken == Spec => []NoTokenWhileTimerRuns
<1>1. IInv => NoTokenWhileTimerRuns
  <2> SUFFICES ASSUME IInv, NEW c \in Callers, timer[c] >= MinDelay PROVE Level < Unit
    BY DEF NoTokenWhileTimerRuns
  <2>1. Level \in Nat /\ Unit \in Nat /\ timer[c] - MinDelay \in Nat
    BY LevelType, LimiterAssumption DEF IInv, TypeOK
  <2>2. Rate * (timer[c] - MinDelay) \in Nat
    BY <2>1, RateStep
  <2>3. Level + Rate * (timer[c] - MinDelay) < Unit
    BY DEF IInv, Timers
  <2> QED
    BY <2>1, <2>2, <2>3
<1> QED
  BY <1>1, LimiterInvariant, PTL

\* Failing fast never turns away a caller that could have had a token in time, unless
\* its deadline is less than a millisecond away (limiter.go:75-86).
THEOREM OnlyHopelessRefused == Spec => RefusedOnlyIfHopeless
<1>1. IInv /\ [Next]_vars
       => [\A c \in Callers : Refuse(c) => \/ toDeadline[c] < MinDelay
                                           \/ Level + Rate * toDeadline[c] < Unit]_vars
  <2> SUFFICES ASSUME IInv, NEW c \in Callers, Refuse(c), ~(toDeadline[c] < MinDelay)
               PROVE  Level + Rate * toDeadline[c] < Unit
    OBVIOUS
  <2> DEFINE t == toDeadline[c]
             d == (Unit - Level) \div Rate
  <2>1. /\ Level \in Nat /\ Accrued = Level /\ Unit \in Nat /\ Rate \in Nat /\ Rate > 0
        /\ Level < Unit /\ t \in Nat /\ MinDelay \in Nat /\ MinDelay > 0
    BY LevelType, LimiterAssumption
    DEF IInv, TypeOK, Refuse, NoToken, MissesDeadline
  <2>2. t < (IF d < MinDelay THEN MinDelay ELSE d) /\ t >= MinDelay
    BY <2>1 DEF Refuse, MissesDeadline, Delay
  <2>3. d \in Nat /\ Rate * d <= Unit - Level
    BY <2>1, DelayBound
  <2> HIDE DEF t, d
  <2>4. ~(d < MinDelay)
    BY <2>1, <2>2, <2>3
  <2>5. Level + Rate * t < Unit
    <3>1. PICK k \in Nat : d = (t + 1) + k
      <4>1. d - (t + 1) \in Nat /\ d = (t + 1) + (d - (t + 1))
        BY <2>1, <2>2, <2>3, <2>4
      <4> QED
        BY <4>1
    <3>2. Rate * d = Rate * (t + 1) + Rate * k /\ Rate * k \in Nat
      BY <2>1, <3>1, SMT
    <3>3. Rate * (t + 1) = Rate * t + Rate /\ Rate * t \in Nat
      BY <2>1, RateStep
    <3> QED
      BY <2>1, <2>3, <3>2, <3>3
  <2> QED
    BY <2>5 DEF t
<1> QED
  BY <1>1, LimiterInvariant, PTL DEF Spec, RefusedOnlyIfHopeless

\* The lazy limiter implements the token bucket (limiter.go:98-125).
THEOREM LimiterImplementsBucket == Spec => ImplementsBucket
<1>1. Init => Bucket!Init
  BY CapacityType, LimiterAssumption DEF Init, Bucket!Init, Level
<1>2. IInv /\ [Next]_vars => [Bucket!Next]_Level
  <2> SUFFICES ASSUME IInv, [Next]_vars PROVE [Bucket!Next]_Level
    OBVIOUS
  <2>1. CASE Level' = Min2(Level + Rate, Capacity)
    BY <2>1 DEF Min2, Bucket!Next, Bucket!Accrue
  <2>2. CASE Level >= Unit /\ Level' = Level - Unit
    BY <2>2 DEF Bucket!Next, Bucket!Take
  <2>3. CASE Level' = Level
    BY <2>3
  <2> QED
    BY <2>1, <2>2, <2>3, LevelStep DEF IInv
<1> QED
  BY <1>1, <1>2, LimiterInvariant, PTL DEF Spec, ImplementsBucket, Bucket!Spec

=============================================================================
