---------------------------- MODULE SwapV3Proofs ----------------------------
(***************************************************************************)
(* The walk of SwapV3Into is sound for every pool, every input and every   *)
(* scale of prices and fees: whatever is rounded, it stays within the      *)
(* range it trades in, uses the input exactly, and ends for lack of        *)
(* liquidity only; its liquidity is the one in force, and a round trip     *)
(* never gains.                                                            *)
(***************************************************************************)
EXTENDS SwapV3, FiniteSetTheorems, WellFoundedInduction, TLAPS

----------------------------------------------------------------------------
(* Division.                                                               *)

\* A product grows with its factors.
LEMMA Products ==
  ASSUME NEW a \in Nat, NEW b \in Nat, NEW c \in Nat, a <= b
  PROVE  /\ c * a <= c * b
         /\ c * a \in Nat /\ c * b \in Nat
<1>1. PICK d \in Nat : b = a + d
  BY SMT
<1>2. c * d \in Nat /\ c * a \in Nat /\ c * b \in Nat
  BY <1>1, SMT
<1>3. c * b = c * a + c * d
  BY <1>1, SMT
<1>4. QED
  BY <1>2, <1>3, SMT

LEMMA Division ==
  ASSUME NEW a \in Nat, NEW b \in Nat \ {0}
  PROVE  /\ a \div b \in Nat
         /\ b * (a \div b) <= a
         /\ a < b * (a \div b) + b
BY SMT

\* A quotient is the largest number whose product fits.
LEMMA FloorIsGreatest ==
  ASSUME NEW a \in Nat, NEW b \in Nat \ {0}, NEW n \in Nat
  PROVE  n <= a \div b <=> b * n <= a
<1> DEFINE q == a \div b
<1>1. q \in Nat /\ b * q <= a /\ a < b * q + b
  BY Division
<1>2. ASSUME n <= q PROVE b * n <= a
  <2>1. b * n <= b * q /\ b * n \in Nat /\ b * q \in Nat
    BY <1>1, <1>2, Products
  <2>2. QED
    BY <1>1, <2>1, SMT
<1>3. ASSUME ~(n <= q) PROVE ~(b * n <= a)
  <2>1. q + 1 \in Nat /\ q + 1 <= n
    BY <1>1, <1>3, SMT
  <2>2. b * (q + 1) <= b * n
    BY <2>1, Products
  <2>3. b * (q + 1) = b * q + b
    BY <1>1, SMT
  <2>4. b * q \in Int /\ b * n \in Int
    BY <1>1, SMT
  <2>5. QED
    BY <1>1, <2>2, <2>3, <2>4, SMT
<1>4. QED
  BY <1>2, <1>3

\* A quotient rounded up is the least number whose product suffices.
LEMMA CeilIsLeast ==
  ASSUME NEW a \in Nat, NEW b \in Nat \ {0}
  PROVE  /\ CeilDiv(a, b) \in Nat
         /\ \A n \in Nat : CeilDiv(a, b) <= n <=> a <= b * n
<1> DEFINE q == CeilDiv(a, b)
<1>1. a + b - 1 \in Nat
  BY SMT
<1>2. q \in Nat /\ b * q <= a + b - 1 /\ a + b - 1 < b * q + b
  BY <1>1, Division DEF CeilDiv
<1>3. b * q \in Nat
  BY <1>2, SMT
<1>4. ASSUME NEW n \in Nat, q <= n PROVE a <= b * n
  <2>1. b * q <= b * n /\ b * n \in Nat
    BY <1>2, <1>4, Products
  <2>2. QED
    BY <1>2, <1>3, <2>1, SMT
<1>5. ASSUME NEW n \in Nat, ~(q <= n) PROVE ~(a <= b * n)
  <2>1. n + 1 \in Nat /\ n + 1 <= q
    BY <1>2, <1>5, SMT
  <2>2. b * (n + 1) <= b * q
    BY <1>2, <2>1, Products
  <2>3. b * (n + 1) = b * n + b /\ b * n \in Nat
    BY SMT
  <2>4. QED
    BY <1>2, <1>3, <2>2, <2>3, SMT
<1>6. QED
  BY <1>2, <1>4, <1>5

----------------------------------------------------------------------------
(* Amounts and prices.                                                     *)

\* What the code computes with in a step: positive liquidity and prices.
Positive == liquidity \in Nat \ {0} /\ sqrtPrice \in Nat \ {0}

LEMMA Token0Up ==
  ASSUME Positive, NEW lo \in Nat \ {0}, NEW hi \in Nat \ {0}, lo <= hi
  PROVE  /\ Amount0Up(lo, hi) \in Nat
         /\ \A n \in Nat : Amount0Up(lo, hi) <= n
                             <=> (liquidity * Q) * (hi - lo) <= hi * (lo * n)
<1> DEFINE a == (liquidity * Q) * (hi - lo)
           c == CeilDiv(a, hi)
<1>1. a \in Nat
  BY SwapAssumption, SMT DEF Positive
<1>2. c \in Nat /\ \A n \in Nat : c <= n <=> a <= hi * n
  BY <1>1, CeilIsLeast
<1>3. CeilDiv(c, lo) \in Nat /\ \A n \in Nat : CeilDiv(c, lo) <= n <=> c <= lo * n
  BY <1>2, CeilIsLeast
<1>4. \A n \in Nat : lo * n \in Nat
  BY SMT
<1>5. Amount0Up(lo, hi) = CeilDiv(c, lo)
  BY DEF Amount0Up
<1>6. QED
  BY <1>2, <1>3, <1>4, <1>5

LEMMA Token1Up ==
  ASSUME Positive, NEW lo \in Nat \ {0}, NEW hi \in Nat \ {0}, lo <= hi
  PROVE  /\ Amount1Up(lo, hi) \in Nat
         /\ \A n \in Nat : Amount1Up(lo, hi) <= n <=> liquidity * (hi - lo) <= Q * n
<1>1. liquidity * (hi - lo) \in Nat
  BY SMT DEF Positive
<1>2. QED
  BY <1>1, SwapAssumption, CeilIsLeast DEF Amount1Up

\* What is paid out is an amount.
LEMMA PaidOut ==
  ASSUME Positive, NEW lo \in Nat \ {0}, NEW hi \in Nat \ {0}, lo <= hi
  PROVE  Amount0Down(lo, hi) \in Nat /\ Amount1Down(lo, hi) \in Nat
<1>1. /\ liquidity * (hi - lo) \in Nat
      /\ liquidity * Q * (hi - lo) \in Nat
  BY SwapAssumption, SMT DEF Positive
<1>2. Amount1Down(lo, hi) \in Nat
  BY <1>1, SwapAssumption, Division DEF Amount1Down
<1>3. (liquidity * Q * (hi - lo)) \div hi \in Nat
  BY <1>1, Division
<1>4. QED
  BY <1>2, <1>3, Division DEF Amount0Down

\* Selling token0, in numbers: k is L Q, s the price, a the input.  The new price is
\* not below 1 nor above the old one, moving there takes no more than the input, and
\* a target the input does not pay for is not passed.
LEMMA PriceFalls ==
  ASSUME NEW k \in Nat \ {0}, NEW s \in Nat \ {0}, NEW a \in Nat
  PROVE  LET n == CeilDiv(k * s, k + a * s)
         IN  /\ n \in Nat \ {0} /\ n <= s
             /\ k * (s - n) <= s * (n * a)
             /\ \A t \in Nat \ {0} : ~(k * (s - t) <= s * (t * a)) => t <= n
<1> DEFINE n == CeilDiv(k * s, k + a * s)
           m == k + a * s
<1>1. m \in Nat \ {0} /\ k * s \in Nat \ {0} /\ a * s \in Nat
  BY SMT
<1>2. n \in Nat /\ \A x \in Nat : n <= x <=> k * s <= m * x
  BY <1>1, CeilIsLeast
<1>3. k * s <= m * n
  BY <1>2
<1>4. n # 0
  <2>1. m * 0 = 0
    BY <1>1, SMT
  <2>2. QED
    BY <1>1, <1>3, <2>1, SMT
<1>5. n <= s
  <2>1. m * s = k * s + (a * s) * s /\ (a * s) * s \in Nat
    BY <1>1, SMT
  <2>2. k * s <= m * s
    BY <1>1, <2>1, SMT
  <2>3. QED
    BY <1>2, <2>2
<1>6. \A x \in Nat : /\ m * x = k * x + s * (x * a)
                     /\ k * (s - x) = k * s - k * x
                     /\ k * x \in Nat /\ s * (x * a) \in Nat
  BY SMT
<1>7. k * (s - n) <= s * (n * a)
  BY <1>1, <1>2, <1>3, <1>6, SMT
<1>8. ASSUME NEW t \in Nat \ {0}, ~(k * (s - t) <= s * (t * a)) PROVE t <= n
  <2>1. m * t < k * s
    BY <1>1, <1>6, <1>8, SMT
  <2>2. ~(n <= t)
    BY <1>1, <1>2, <2>1, SMT
  <2>3. QED
    BY <1>2, <2>2, SMT
<1>9. QED
  BY <1>2, <1>4, <1>5, <1>7, <1>8

\* Selling token1, in numbers: l is the liquidity, q the scale of prices.
LEMMA PriceRises ==
  ASSUME NEW l \in Nat \ {0}, NEW q \in Nat \ {0}, NEW s \in Nat \ {0}, NEW a \in Nat
  PROVE  LET n == s + (a * q) \div l
         IN  /\ n \in Nat \ {0} /\ s <= n
             /\ l * (n - s) <= q * a
             /\ \A t \in Nat : s <= t /\ ~(l * (t - s) <= q * a) => n <= t
<1> DEFINE d == (a * q) \div l
<1>1. a * q \in Nat /\ a * q = q * a
  BY SMT
<1>2. d \in Nat /\ l * d <= a * q
  BY <1>1, Division
<1>3. ASSUME NEW t \in Nat, s <= t, ~(l * (t - s) <= q * a) PROVE s + d <= t
  <2>1. t - s \in Nat
    BY <1>3, SMT
  <2>2. ~(t - s <= d)
    BY <1>1, <1>3, <2>1, FloorIsGreatest
  <2>3. QED
    BY <1>2, <2>1, <2>2, SMT
<1>4. (s + d) - s = d
  BY <1>2, SMT
<1>5. QED
  BY <1>1, <1>2, <1>3, <1>4, SMT

----------------------------------------------------------------------------
(* The inductive invariant.                                                *)

\* Prices at the ticks of the window are positive and grow with the tick.
RatiosGrow ==
  \A i, j \in DOMAIN Ticks :
    /\ Ratio(Ticks[i].index) \in Nat \ {0}
    /\ Ticks[i].index <= Ticks[j].index => Ratio(Ticks[i].index) <= Ratio(Ticks[j].index)

\* A pool whose fee is all of the input is never walked.
FeeLeavesSome == status \notin {"idle", "refused"} => pool.fee < Bps

\* The counter of the loop cannot run ahead of the ticks left behind.
TicksLeft == status = "walk" => crossed + Cardinality(InReach) <= Len(Ticks)

SwapInv == /\ TypeOK /\ RatiosGrow /\ FeeLeavesSome
           /\ NeverOvershoots /\ InputAccounted
           /\ status = "quoted" => liquidity > 0
           /\ TicksLeft /\ RefusedOnlyAtWindowEnd

----------------------------------------------------------------------------
(* The next tick.                                                          *)

\* A set of numbers that is not empty has a least one.
LEMMA LeastNumber ==
  ASSUME NEW T, T \subseteq Nat, T # {}
  PROVE  \E x \in T : \A y \in T : x <= y
<1>1. PICK x \in T : \A y \in T : ~(<<y, x>> \in OpToRel(<, Nat))
  BY WFMin, NatLessThanWellFounded
<1>2. ASSUME NEW y \in T PROVE x <= y
  <2>1. ~(<<y, x>> \in OpToRel(<, Nat))
    BY <1>1
  <2>2. ~(y < x)
    BY <2>1 DEF OpToRel
  <2>3. QED
    BY <2>2
<1>3. QED
  BY <1>2

\* And a greatest one, when it is bounded.
LEMMA GreatestNumber ==
  ASSUME NEW N \in Nat, NEW T, T \subseteq 1..N, T # {}
  PROVE  \E x \in T : \A y \in T : y <= x
<1> DEFINE U == {N - y : y \in T}
<1>1. U \subseteq Nat /\ U # {}
  <2>1. \A y \in T : y \in 1..N
    OBVIOUS
  <2>2. \A y \in T : N - y \in Nat
    BY <2>1, SMT
  <2>3. QED
    BY <2>2
<1>2. PICK u \in U : \A v \in U : u <= v
  BY <1>1, LeastNumber
<1>3. PICK x \in T : u = N - x
  BY <1>2
<1>4. ASSUME NEW y \in T PROVE y <= x
  <2>1. N - x <= N - y
    BY <1>2, <1>3
  <2>2. x \in Int /\ y \in Int
    BY SMT
  <2>3. QED
    BY <2>1, <2>2, SMT
<1>5. QED
  BY <1>4

\* The ticks of the window.
LEMMA WindowFacts ==
  ASSUME TypeOK
  PROVE  /\ Len(Ticks) \in Nat /\ DOMAIN Ticks = 1..Len(Ticks)
         /\ \A i \in DOMAIN Ticks : Ticks[i].index \in Int /\ Ticks[i].net \in Int
         /\ \A i, j \in DOMAIN Ticks : i < j => Ticks[i].index <= Ticks[j].index
         /\ InReach \subseteq DOMAIN Ticks
         /\ IsFiniteSet(InReach) /\ Cardinality(InReach) \in Nat
         /\ Cardinality(InReach) <= Len(Ticks)
<1>1. Ticks \in Seq([index : Int, net : Int])
  BY DEF TypeOK, WellFormed, Ticks
<1>2. Len(Ticks) \in Nat /\ DOMAIN Ticks = 1..Len(Ticks)
  BY <1>1
<1>3. \A i \in DOMAIN Ticks : Ticks[i].index \in Int /\ Ticks[i].net \in Int
  <2>1. ASSUME NEW R, NEW w \in Seq(R), NEW i \in 1..Len(w) PROVE w[i] \in R
    OBVIOUS
  <2>2. \A i \in 1..Len(Ticks) : Ticks[i] \in [index : Int, net : Int]
    BY <1>1, <2>1
  <2>3. QED
    BY <1>2, <2>2
<1>4. \A i, j \in DOMAIN Ticks : i < j => Ticks[i].index <= Ticks[j].index
  <2>1. \A i, j \in DOMAIN Ticks : i < j => Ticks[i].index < Ticks[j].index
    BY DEF TypeOK, WellFormed, Ticks
  <2>2. QED
    BY <1>3, <2>1
<1>5. InReach \subseteq DOMAIN Ticks
  BY DEF InReach
<1>6. IsFiniteSet(1..Len(Ticks)) /\ Cardinality(1..Len(Ticks)) = Len(Ticks)
  <2>1. 1 \in Int /\ Len(Ticks) \in Int
    BY <1>2
  <2>2. /\ IsFiniteSet(1..Len(Ticks))
        /\ Cardinality(1..Len(Ticks)) = IF 1 > Len(Ticks) THEN 0 ELSE Len(Ticks) - 1 + 1
    BY <2>1, FS_Interval
  <2>3. QED
    BY <1>2, <2>2, SMT
<1>7. IsFiniteSet(InReach) /\ Cardinality(InReach) <= Len(Ticks)
  BY <1>2, <1>5, <1>6, FS_Subset
<1>8. Cardinality(InReach) \in Nat
  BY <1>7, FS_CardinalityType
<1>9. QED
  BY <1>2, <1>3, <1>4, <1>5, <1>7, <1>8

\* nextInitializedTick returns a tick of the window that is in reach, and no other
\* tick in reach comes before it.
LEMMA NextTickIsNearest ==
  ASSUME TypeOK, InReach # {}
  PROVE  \E i \in InReach :
           /\ NextTick = Ticks[i]
           /\ \A j \in InReach : IF zeroForOne THEN Ticks[j].index <= Ticks[i].index
                                               ELSE Ticks[i].index <= Ticks[j].index
<1> DEFINE Best(i) == \A j \in InReach : IF zeroForOne THEN j <= i ELSE i <= j
           c == CHOOSE i \in InReach : Best(i)
<1>1. /\ Len(Ticks) \in Nat /\ DOMAIN Ticks = 1..Len(Ticks)
      /\ InReach \subseteq DOMAIN Ticks
      /\ \A i, j \in DOMAIN Ticks : i < j => Ticks[i].index <= Ticks[j].index
      /\ \A i \in DOMAIN Ticks : Ticks[i].index \in Int
  BY WindowFacts
<1>2. \E i \in InReach : Best(i)
  <2>1. CASE zeroForOne
    <3>1. \E x \in InReach : \A y \in InReach : y <= x
      BY <1>1, GreatestNumber
    <3>2. QED
      BY <2>1, <3>1
  <2>2. CASE ~zeroForOne
    <3>1. \E x \in InReach : \A y \in InReach : x <= y
      BY <1>1, LeastNumber, SMT
    <3>2. QED
      BY <2>2, <3>1
  <2>3. QED
    BY <2>1, <2>2
<1>3. c \in InReach /\ Best(c)
  BY <1>2
<1>4. NextTick = Ticks[c]
  BY DEF NextTick
<1>5. ASSUME NEW j \in InReach
      PROVE  IF zeroForOne THEN Ticks[j].index <= Ticks[c].index
                           ELSE Ticks[c].index <= Ticks[j].index
  <2>1. c \in 1..Len(Ticks) /\ j \in 1..Len(Ticks)
    BY <1>1, <1>3
  <2>2. IF zeroForOne THEN j <= c ELSE c <= j
    BY <1>3
  <2> HIDE DEF c
  <2>3. Ticks[j].index \in Int /\ Ticks[c].index \in Int
    BY <1>1, <2>1
  <2>4. CASE zeroForOne
    <3>1. j < c \/ j = c
      BY <2>1, <2>2, <2>4, SMT
    <3>2. QED
      BY <1>1, <2>1, <2>3, <2>4, <3>1
  <2>5. CASE ~zeroForOne
    <3>1. c < j \/ c = j
      BY <2>1, <2>2, <2>5, SMT
    <3>2. QED
      BY <1>1, <2>1, <2>3, <2>5, <3>1
  <2>6. QED
    BY <2>4, <2>5
<1>6. QED
  BY <1>3, <1>4, <1>5

----------------------------------------------------------------------------
(* One step of the walk.                                                   *)

\* What holds when a step is taken.
Stepping == SwapInv /\ status = "walk" /\ CanStep

LEMMA SteppingFacts ==
  ASSUME Stepping
  PROVE  /\ TypeOK /\ RatiosGrow /\ NeverOvershoots /\ Positive
         /\ remaining \in Nat \ {0}
         /\ pool.fee \in Nat /\ pool.fee < Bps
         /\ InReach # {}
<1>1. TypeOK /\ RatiosGrow /\ NeverOvershoots /\ InReach # {} /\ liquidity > 0
  BY DEF Stepping, SwapInv, CanStep
<1>2. remaining > 0
  BY DEF Stepping, SwapInv, InputAccounted
<1>3. pool.fee < Bps
  BY DEF Stepping, SwapInv, FeeLeavesSome
<1>4. pool.fee \in Nat
  BY <1>1 DEF TypeOK, WellFormed
<1>5. remaining \in Nat \ {0}
  BY <1>1, <1>2, SMT DEF TypeOK
<1>6. Positive
  BY <1>1, SMT DEF TypeOK, Positive
<1>7. QED
  BY <1>1, <1>3, <1>4, <1>5, <1>6

\* The target lies ahead of the price, and no tick in reach lies before it.
LEMMA TargetAhead ==
  ASSUME Stepping
  PROVE  /\ \E i \in DOMAIN Ticks : NextTick = Ticks[i] /\ i \in InReach
         /\ NextTick.index \in Int /\ NextTick.net \in Int
         /\ Target \in Nat \ {0}
         /\ IF zeroForOne THEN Target <= sqrtPrice ELSE sqrtPrice <= Target
         /\ \A j \in InReach : IF zeroForOne THEN Ratio(Ticks[j].index) <= Target
                                             ELSE Target <= Ratio(Ticks[j].index)
<1>1. TypeOK /\ RatiosGrow /\ NeverOvershoots /\ InReach # {}
  BY SteppingFacts
<1>2. PICK i \in InReach :
        /\ NextTick = Ticks[i]
        /\ \A j \in InReach : IF zeroForOne THEN Ticks[j].index <= Ticks[i].index
                                            ELSE Ticks[i].index <= Ticks[j].index
  BY <1>1, NextTickIsNearest
<1>3. /\ InReach \subseteq DOMAIN Ticks
      /\ \A j \in DOMAIN Ticks : Ticks[j].index \in Int /\ Ticks[j].net \in Int
  BY <1>1, WindowFacts
<1>4. Target = Ratio(Ticks[i].index) /\ i \in DOMAIN Ticks
  BY <1>2, <1>3 DEF Target
<1>5. Target \in Nat \ {0}
  BY <1>1, <1>4 DEF RatiosGrow
<1>6. IF zeroForOne THEN Target <= sqrtPrice ELSE sqrtPrice <= Target
  <2>1. IF zeroForOne THEN Ticks[i].index <= currentTick ELSE Ticks[i].index > currentTick
    BY <1>2 DEF InReach
  <2>2. QED
    BY <1>1, <1>4, <2>1 DEF NeverOvershoots
<1>7. \A j \in InReach : IF zeroForOne THEN Ratio(Ticks[j].index) <= Target
                                       ELSE Target <= Ratio(Ticks[j].index)
  BY <1>1, <1>2, <1>3, <1>4 DEF RatiosGrow
<1>8. QED
  BY <1>2, <1>3, <1>4, <1>5, <1>6, <1>7

\* The fee leaves some of the input, and never more than all.
LEMMA FeeIsAPart ==
  ASSUME Stepping
  PROVE  /\ Pips \in Nat \ {0}
         /\ pool.fee * PipsPerBp \in Nat
         /\ Pips - pool.fee * PipsPerBp \in Nat \ {0}
         /\ LessFee \in Nat /\ LessFee <= remaining
         /\ Pips * LessFee <= remaining * (Pips - pool.fee * PipsPerBp)
<1> DEFINE f == pool.fee
           F == f * PipsPerBp
           D == Pips - F
<1>1. f \in Nat /\ f < Bps /\ remaining \in Nat \ {0}
  BY SteppingFacts
<1>2. Bps \in Nat \ {0} /\ PipsPerBp \in Nat \ {0}
  BY SwapAssumption
<1> HIDE DEF f
<1>3. Pips \in Nat \ {0} /\ F \in Nat /\ Pips = PipsPerBp * Bps
  BY <1>1, <1>2, SMT DEF Pips
<1>4. PipsPerBp * (f + 1) <= PipsPerBp * Bps
  BY <1>1, <1>2, Products, SMT
<1>5. PipsPerBp * (f + 1) = F + PipsPerBp
  BY <1>1, <1>2, SMT
<1>6. D \in Nat \ {0}
  BY <1>2, <1>3, <1>4, <1>5, SMT
<1>7. D <= Pips /\ remaining * D \in Nat
  BY <1>1, <1>3, <1>6, SMT
<1>8. LessFee = (remaining * D) \div Pips
  BY DEF LessFee, f
<1>9. LessFee \in Nat /\ Pips * LessFee <= remaining * D
  BY <1>3, <1>7, <1>8, Division
<1>10. LessFee <= remaining
  <2>1. remaining * D <= remaining * Pips
    BY <1>1, <1>3, <1>6, <1>7, Products
  <2>2. Pips * (remaining + 1) = remaining * Pips + Pips /\ remaining * Pips \in Nat
    BY <1>1, <1>3, SMT
  <2>3. ~(Pips * (remaining + 1) <= remaining * D)
    BY <1>3, <1>7, <2>1, <2>2, SMT
  <2>4. ~(remaining + 1 <= LessFee)
    BY <1>1, <1>3, <1>7, <1>8, <2>3, FloorIsGreatest
  <2>5. QED
    BY <1>1, <1>9, <2>4, SMT
<1>11. QED
  BY <1>3, <1>6, <1>9, <1>10 DEF f

\* What lies between the price and the price after the step.
Within(n) == IF zeroForOne THEN Target <= n /\ n <= sqrtPrice
                           ELSE sqrtPrice <= n /\ n <= Target

\* A step that stops within the range, on the way down.
LEMMA StopsAbove ==
  ASSUME Stepping, ~ReachesTarget, zeroForOne
  PROVE  /\ StepNext \in Nat \ {0} /\ Within(StepNext)
         /\ NetIn \in Nat /\ NetIn <= LessFee
<1> DEFINE K == liquidity * Q
           a == LessFee
           n == CeilDiv(K * sqrtPrice, K + a * sqrtPrice)
<1>1. Positive /\ Target \in Nat \ {0} /\ Target <= sqrtPrice /\ a \in Nat
  BY SteppingFacts, TargetAhead, FeeIsAPart
<1>2. K \in Nat \ {0} /\ sqrtPrice \in Nat \ {0}
  BY <1>1, SwapAssumption, SMT DEF Positive
<1>3. ~(K * (sqrtPrice - Target) <= sqrtPrice * (Target * a))
  <2>1. ~(Amount0Up(Target, sqrtPrice) <= a)
    <3>1. InToTarget = Amount0Up(Target, sqrtPrice)
      BY DEF InToTarget
    <3>2. InToTarget \in Nat
      BY <1>1, <1>2, <3>1, Token0Up
    <3>3. QED
      BY <1>1, <3>1, <3>2, SMT DEF ReachesTarget
  <2>2. QED
    BY <1>1, <1>2, <2>1, Token0Up
<1> HIDE DEF K, a
<1>4. /\ n \in Nat \ {0} /\ n <= sqrtPrice
      /\ K * (sqrtPrice - n) <= sqrtPrice * (n * a)
      /\ Target <= n
  BY <1>1, <1>2, <1>3, PriceFalls
<1> HIDE DEF n
<1>5. StepNext \in Nat \ {0} /\ Target <= StepNext /\ StepNext <= sqrtPrice
      /\ K * (sqrtPrice - StepNext) <= sqrtPrice * (StepNext * a)
  <2>1. CASE a = 0
    <3>1. StepNext = sqrtPrice
      BY <2>1 DEF StepNext, NextPrice, a
    <3>2. /\ K * (sqrtPrice - sqrtPrice) = 0
          /\ sqrtPrice * (sqrtPrice * a) = 0
      BY <1>2, <2>1, SMT
    <3>3. QED
      BY <1>1, <1>2, <3>1, <3>2, SMT
  <2>2. CASE a # 0
    <3>1. StepNext = n
      BY <2>2 DEF StepNext, NextPrice, n, a, K
    <3>2. QED
      BY <1>4, <3>1
  <2>3. QED
    BY <2>1, <2>2
<1>6. NetIn = Amount0Up(StepNext, sqrtPrice)
  BY DEF NetIn
<1>7. NetIn \in Nat /\ NetIn <= a
  BY <1>1, <1>2, <1>5, <1>6, Token0Up DEF K
<1>8. QED
  BY <1>5, <1>7 DEF Within, a

\* And on the way up.
LEMMA StopsBelow ==
  ASSUME Stepping, ~ReachesTarget, ~zeroForOne
  PROVE  /\ StepNext \in Nat \ {0} /\ Within(StepNext)
         /\ NetIn \in Nat /\ NetIn <= LessFee
<1> DEFINE a == LessFee
           n == sqrtPrice + (a * Q) \div liquidity
<1>1. Positive /\ Target \in Nat \ {0} /\ sqrtPrice <= Target /\ a \in Nat
  BY SteppingFacts, TargetAhead, FeeIsAPart
<1>2. liquidity \in Nat \ {0} /\ sqrtPrice \in Nat \ {0} /\ Q \in Nat \ {0}
  BY <1>1, SwapAssumption DEF Positive
<1>3. ~(liquidity * (Target - sqrtPrice) <= Q * a)
  <2>1. ~(Amount1Up(sqrtPrice, Target) <= a)
    <3>1. InToTarget = Amount1Up(sqrtPrice, Target)
      BY DEF InToTarget
    <3>2. InToTarget \in Nat
      BY <1>1, <1>2, <3>1, Token1Up
    <3>3. QED
      BY <1>1, <3>1, <3>2, SMT DEF ReachesTarget
  <2>2. QED
    BY <1>1, <1>2, <2>1, Token1Up
<1> HIDE DEF a
<1>4. /\ n \in Nat \ {0} /\ sqrtPrice <= n
      /\ liquidity * (n - sqrtPrice) <= Q * a
      /\ n <= Target
  BY <1>1, <1>2, <1>3, PriceRises
<1> HIDE DEF n
<1>5. StepNext \in Nat \ {0} /\ sqrtPrice <= StepNext /\ StepNext <= Target
      /\ liquidity * (StepNext - sqrtPrice) <= Q * a
  <2>1. CASE a = 0
    <3>1. StepNext = sqrtPrice
      BY <2>1 DEF StepNext, NextPrice, a
    <3>2. liquidity * (sqrtPrice - sqrtPrice) = 0 /\ Q * a = 0
      BY <1>2, <2>1, SMT
    <3>3. QED
      BY <1>1, <1>2, <3>1, <3>2, SMT
  <2>2. CASE a # 0
    <3>1. StepNext = n
      BY <2>2 DEF StepNext, NextPrice, n, a
    <3>2. QED
      BY <1>4, <3>1
  <2>3. QED
    BY <2>1, <2>2
<1>6. NetIn = Amount1Up(sqrtPrice, StepNext)
  BY DEF NetIn
<1>7. NetIn \in Nat /\ NetIn <= a
  BY <1>1, <1>2, <1>5, <1>6, Token1Up
<1>8. QED
  BY <1>5, <1>7 DEF Within, a

\* At a boundary, the input used and its fee are covered by what is left.
LEMMA BoundaryIsPaidFor ==
  ASSUME Stepping, ReachesTarget
  PROVE  /\ StepNext = Target
         /\ StepIn \in Nat /\ StepIn <= remaining
<1> DEFINE F == pool.fee * PipsPerBp
           D == Pips - F
           t == InToTarget
           R == remaining
<1>1. /\ Pips \in Nat \ {0} /\ F \in Nat /\ D \in Nat \ {0}
      /\ LessFee \in Nat /\ LessFee <= R /\ Pips * LessFee <= R * D
  BY FeeIsAPart
<1>2. R \in Nat /\ Positive /\ sqrtPrice \in Nat \ {0} /\ Target \in Nat \ {0}
      /\ (IF zeroForOne THEN Target <= sqrtPrice ELSE sqrtPrice <= Target)
  BY SteppingFacts, TargetAhead DEF Positive
<1>3. t \in Nat
  <2>1. CASE zeroForOne
    BY <1>2, <2>1, Token0Up DEF InToTarget
  <2>2. CASE ~zeroForOne
    BY <1>2, <2>2, Token1Up DEF InToTarget
  <2>3. QED
    BY <2>1, <2>2
<1>4. t <= LessFee
  BY <1>1, <1>3, SMT DEF ReachesTarget
<1>5. StepNext = Target /\ NetIn = t /\ StepFee = CeilDiv(t * F, D)
  BY DEF StepNext, NetIn, StepFee
<1> HIDE DEF F, t, R
<1>6. Pips = F + D
  BY <1>1, SMT DEF D
<1> HIDE DEF D
<1>7. Pips * t <= R * D
  <2>1. Pips * t <= Pips * LessFee /\ Pips * t \in Nat /\ Pips * LessFee \in Nat
    BY <1>1, <1>3, <1>4, Products
  <2>2. R * D \in Nat
    BY <1>1, <1>2, SMT
  <2>3. QED
    BY <1>1, <2>1, <2>2, SMT
<1>8. R - t \in Nat
  BY <1>1, <1>2, <1>3, <1>4, SMT
<1>9. t * F <= D * (R - t)
  <2>1. /\ Pips * t = t * F + t * D
        /\ D * (R - t) = R * D - t * D
        /\ t * F \in Nat /\ t * D \in Nat /\ R * D \in Nat
    BY <1>1, <1>2, <1>3, <1>6, SMT
  <2>2. QED
    BY <1>7, <2>1, SMT
<1>10. t * F \in Nat
  BY <1>1, <1>3, SMT
<1>11. StepFee \in Nat /\ StepFee <= R - t
  BY <1>1, <1>5, <1>8, <1>9, <1>10, CeilIsLeast
<1>12. QED
  BY <1>2, <1>3, <1>5, <1>11, SMT DEF StepIn, R

\* A step pays out an amount, takes in no more than there is, and everything if it
\* stops within the range, and leaves the price between the old one and the target.
LEMMA StepFacts ==
  ASSUME Stepping
  PROVE  /\ StepNext \in Nat \ {0} /\ Within(StepNext)
         /\ StepOut \in Nat
         /\ StepIn \in Nat /\ StepIn <= remaining
         /\ ~ReachesTarget => StepIn = remaining
<1>1. Positive /\ sqrtPrice \in Nat \ {0} /\ remaining \in Nat /\ Target \in Nat \ {0}
      /\ (IF zeroForOne THEN Target <= sqrtPrice ELSE sqrtPrice <= Target)
  BY SteppingFacts, TargetAhead DEF Positive
<1>2. StepNext \in Nat \ {0} /\ Within(StepNext)
  <2>1. CASE ReachesTarget
    BY <1>1, <2>1, BoundaryIsPaidFor DEF Within
  <2>2. CASE ~ReachesTarget
    BY <2>2, StopsAbove, StopsBelow
  <2>3. QED
    BY <2>1, <2>2
<1>3. StepOut \in Nat
  BY <1>1, <1>2, PaidOut DEF StepOut, Within
<1>4. CASE ReachesTarget
  BY <1>2, <1>3, <1>4, BoundaryIsPaidFor
<1>5. CASE ~ReachesTarget
  <2>1. NetIn \in Nat /\ NetIn <= LessFee
    BY <1>5, StopsAbove, StopsBelow
  <2>2. LessFee \in Nat /\ LessFee <= remaining
    BY FeeIsAPart
  <2>3. NetIn <= remaining
    BY <1>1, <2>1, <2>2, SMT
  <2>4. StepFee = remaining - NetIn
    BY <1>1, <1>5, <2>1, <2>3, SMT DEF StepFee
  <2>5. StepIn = remaining
    BY <1>1, <2>1, <2>4, SMT DEF StepIn
  <2>6. QED
    BY <1>1, <1>2, <1>3, <2>5
<1>6. QED
  BY <1>4, <1>5

----------------------------------------------------------------------------
(* The invariant holds.                                                    *)

LEMMA InitSwap == Init => SwapInv
<1> SUFFICES ASSUME Init PROVE SwapInv
  OBVIOUS
<1>1. pool \in Pools /\ WellFormed(pool)
  BY SwapAssumption DEF Init
<1>2. TypeOK
  BY <1>1 DEF Init, TypeOK, WellFormed
<1>3. RatiosGrow
  BY <1>1, RatioAssumption DEF RatiosGrow, Ticks
<1>4. NeverOvershoots
  BY <1>1 DEF Init, NeverOvershoots, WellFormed, Ticks
<1>5. QED
  BY <1>2, <1>3, <1>4 DEF Init, SwapInv, FeeLeavesSome, InputAccounted, TicksLeft,
                          RefusedOnlyAtWindowEnd

\* The window stays, and with it what is known of its prices.
LEMMA SameWindow ==
  ASSUME RatiosGrow, pool'.ticks = pool.ticks
  PROVE  RatiosGrow'
BY DEF RatiosGrow, Ticks

LEMMA AskKeeps ==
  ASSUME SwapInv, NEW a \in Inputs, NEW d \in BOOLEAN, Ask(a, d)
  PROVE  SwapInv'
<1>1. TypeOK /\ RatiosGrow /\ a \in Int /\ a > 0
  BY SwapAssumption DEF SwapInv, Ask, Servable
<1>2. TypeOK'
  BY <1>1 DEF Ask, TypeOK, WellFormed
<1>3. RatiosGrow'
  BY <1>1, SameWindow DEF Ask
<1>4. NeverOvershoots'
  BY <1>1 DEF Ask, TypeOK, WellFormed, NeverOvershoots, Ticks
<1>5. TicksLeft'
  <2>1. (Cardinality(InReach) <= Len(Ticks) /\ Cardinality(InReach) \in Nat)'
    BY <1>2, WindowFacts, PTL
  <2>2. crossed' = 0
    BY DEF Ask
  <2>3. QED
    BY <2>1, <2>2, SMT DEF TicksLeft
<1>6. QED
  BY <1>1, <1>2, <1>3, <1>4, <1>5
  DEF Ask, Servable, SwapInv, FeeLeavesSome, InputAccounted, RefusedOnlyAtWindowEnd

LEMMA RefuseKeeps ==
  ASSUME SwapInv, NEW a \in Inputs, Refuse(a)
  PROVE  SwapInv'
<1>1. TypeOK' /\ RatiosGrow' /\ NeverOvershoots'
  BY DEF Refuse, SwapInv, TypeOK, RatiosGrow, NeverOvershoots, Ticks, scratch
<1>2. QED
  BY <1>1 DEF Refuse, SwapInv, FeeLeavesSome, InputAccounted, TicksLeft,
              RefusedOnlyAtWindowEnd

LEMMA QuotedKeeps ==
  ASSUME SwapInv, Quoted
  PROVE  SwapInv'
<1>1. Stepping
  BY DEF Quoted, Stepping
<1>2. /\ StepNext \in Nat \ {0} /\ Within(StepNext) /\ StepOut \in Nat
      /\ StepIn \in Nat /\ StepIn <= remaining
  BY <1>1, StepFacts
<1>3. TypeOK /\ RatiosGrow /\ NeverOvershoots /\ remaining \in Nat /\ liquidity > 0
  BY <1>1, SteppingFacts DEF Quoted, CanStep
<1>4. remaining' = 0
  BY <1>2, <1>3, SMT DEF Quoted, TakeStep
<1>5. TypeOK'
  <2>1. out' \in Nat
    BY <1>2, <1>3 DEF Quoted, TakeStep, TypeOK
  <2>2. QED
    BY <1>2, <1>3, <1>4, <2>1 DEF Quoted, TakeStep, TypeOK
<1>6. RatiosGrow'
  BY <1>3, SameWindow DEF Quoted
<1>7. NeverOvershoots'
  <2>1. sqrtPrice' = StepNext /\ pool' = pool /\ currentTick' = currentTick
    BY DEF Quoted, TakeStep
  <2>2. Target \in Nat /\ sqrtPrice \in Nat
    BY <1>1, <1>3, TargetAhead DEF TypeOK
  <2>3. \A i \in DOMAIN Ticks : Ratio(Ticks[i].index) \in Nat
    BY <1>3 DEF RatiosGrow
  <2>4. ASSUME NEW i \in DOMAIN Ticks, Ticks[i].index <= currentTick
        PROVE  Ratio(Ticks[i].index) <= StepNext
    <3>1. CASE zeroForOne
      <4>1. Ratio(Ticks[i].index) <= Target
        BY <1>1, <2>4, <3>1, TargetAhead DEF InReach
      <4>2. QED
        BY <1>2, <2>2, <2>3, <3>1, <4>1, SMT DEF Within
    <3>2. CASE ~zeroForOne
      <4>1. Ratio(Ticks[i].index) <= sqrtPrice
        BY <1>3, <2>4 DEF NeverOvershoots
      <4>2. QED
        BY <1>2, <2>2, <2>3, <3>2, <4>1, SMT DEF Within
    <3>3. QED
      BY <3>1, <3>2
  <2>5. ASSUME NEW i \in DOMAIN Ticks, Ticks[i].index > currentTick
        PROVE  StepNext <= Ratio(Ticks[i].index)
    <3>1. CASE zeroForOne
      <4>1. sqrtPrice <= Ratio(Ticks[i].index)
        BY <1>3, <2>5 DEF NeverOvershoots
      <4>2. QED
        BY <1>2, <2>2, <2>3, <3>1, <4>1, SMT DEF Within
    <3>2. CASE ~zeroForOne
      <4>1. Target <= Ratio(Ticks[i].index)
        BY <1>1, <2>5, <3>2, TargetAhead DEF InReach
      <4>2. QED
        BY <1>2, <2>2, <2>3, <3>2, <4>1, SMT DEF Within
    <3>3. QED
      BY <3>1, <3>2
  <2>6. QED
    BY <2>1, <2>4, <2>5 DEF NeverOvershoots, Ticks
<1>8. QED
  BY <1>3, <1>4, <1>5, <1>6, <1>7
  DEF Quoted, TakeStep, SwapInv, FeeLeavesSome, InputAccounted, TicksLeft,
      RefusedOnlyAtWindowEnd

LEMMA CrossKeeps ==
  ASSUME SwapInv, Cross
  PROVE  SwapInv'
<1>1. Stepping /\ ReachesTarget /\ remaining - StepIn > 0
  BY DEF Cross, Stepping
<1>2. /\ StepNext = Target /\ Target \in Nat \ {0} /\ StepOut \in Nat
      /\ StepIn \in Nat /\ NextTick.index \in Int /\ NextTick.net \in Int
  BY <1>1, StepFacts, BoundaryIsPaidFor, TargetAhead
<1>3. TypeOK /\ RatiosGrow /\ remaining \in Nat
  BY <1>1, SteppingFacts
<1>4. PICK i \in DOMAIN Ticks : NextTick = Ticks[i] /\ i \in InReach
  BY <1>1, TargetAhead
<1>5. /\ pool' = pool /\ zeroForOne' = zeroForOne /\ sqrtPrice' = Target
      /\ currentTick' = IF zeroForOne THEN NextTick.index - 1 ELSE NextTick.index
      /\ crossed' = crossed + 1 /\ status' = "walk"
      /\ remaining' = remaining - StepIn /\ out' = out + StepOut
  BY <1>2 DEF Cross, TakeStep
<1>6. TypeOK'
  <2>1. out' \in Nat /\ remaining' \in Int
    BY <1>2, <1>3, <1>5 DEF TypeOK
  <2>2. liquidity' \in Int /\ currentTick' \in Int /\ crossed' \in Nat
    BY <1>2, <1>3, <1>5 DEF Cross, TypeOK
  <2>3. WellFormed(pool)' /\ amountIn' \in Int /\ spent' \in Int /\ zeroForOne' \in BOOLEAN
    BY <1>3, <1>5 DEF Cross, TypeOK, WellFormed
  <2>4. QED
    BY <1>2, <1>5, <2>1, <2>2, <2>3 DEF TypeOK
<1>7. RatiosGrow'
  BY <1>3, <1>5, SameWindow
<1>8. \A j \in DOMAIN Ticks : Ticks[j].index \in Int
  BY <1>3, WindowFacts
<1>9. NeverOvershoots'
  <2>1. Target = Ratio(Ticks[i].index) /\ Ticks[i].index \in Int
    BY <1>4, <1>8 DEF Target
  <2>2. ASSUME NEW j \in DOMAIN Ticks, Ticks[j].index <= currentTick'
        PROVE  Ratio(Ticks[j].index) <= Target
    <3>1. Ticks[j].index <= Ticks[i].index
      BY <1>4, <1>5, <1>8, <2>2, SMT
    <3>2. QED
      BY <1>3, <2>1, <3>1 DEF RatiosGrow
  <2>3. ASSUME NEW j \in DOMAIN Ticks, Ticks[j].index > currentTick'
        PROVE  Target <= Ratio(Ticks[j].index)
    <3>1. Ticks[i].index <= Ticks[j].index
      BY <1>4, <1>5, <1>8, <2>3, SMT
    <3>2. QED
      BY <1>3, <2>1, <3>1 DEF RatiosGrow
  <2>4. QED
    BY <1>5, <2>2, <2>3 DEF NeverOvershoots, Ticks
<1>10. TicksLeft'
  <2>1. InReach' \subseteq InReach \ {i}
    <3>1. Ticks' = Ticks
      BY <1>5 DEF Ticks
    <3>2. ASSUME NEW j \in InReach' PROVE j \in InReach \ {i}
      <4>1. j \in DOMAIN Ticks /\ IF zeroForOne THEN Ticks[j].index <= currentTick'
                                                ELSE Ticks[j].index > currentTick'
        BY <1>5, <3>1 DEF InReach
      <4>2. IF zeroForOne THEN Ticks[i].index <= currentTick
                          ELSE Ticks[i].index > currentTick
        BY <1>4 DEF InReach
      <4>3. currentTick \in Int /\ Ticks[j].index \in Int /\ Ticks[i].index \in Int
        BY <1>3, <1>8, <4>1 DEF TypeOK
      <4>4. j # i
        BY <1>4, <1>5, <4>1, <4>3, SMT
      <4>5. IF zeroForOne THEN Ticks[j].index <= currentTick
                          ELSE Ticks[j].index > currentTick
        BY <1>4, <1>5, <4>1, <4>2, <4>3, SMT
      <4>6. QED
        BY <4>1, <4>4, <4>5 DEF InReach
    <3>3. QED
      BY <3>2
  <2>2. IsFiniteSet(InReach) /\ Cardinality(InReach) \in Nat
    BY <1>3, WindowFacts
  <2>3. /\ IsFiniteSet(InReach \ {i})
        /\ Cardinality(InReach \ {i}) = Cardinality(InReach) - 1
    BY <1>4, <2>2, FS_RemoveElement
  <2>4. IsFiniteSet(InReach') /\ Cardinality(InReach') <= Cardinality(InReach) - 1
    BY <2>1, <2>3, FS_Subset
  <2>5. Cardinality(InReach') \in Nat
    BY <2>4, FS_CardinalityType
  <2>6. crossed + Cardinality(InReach) <= Len(Ticks) /\ crossed \in Nat
    BY <1>1, <1>3 DEF Stepping, SwapInv, TicksLeft, TypeOK
  <2>7. Len(Ticks') = Len(Ticks) /\ Len(Ticks) \in Nat
    BY <1>3, <1>5, WindowFacts DEF Ticks
  <2>8. crossed' + Cardinality(InReach') <= Len(Ticks')
    BY <1>5, <2>2, <2>4, <2>5, <2>6, <2>7, SMT
  <2>9. QED
    BY <2>8 DEF TicksLeft
<1>11. FeeLeavesSome' /\ InputAccounted'
  BY <1>1, <1>5, SteppingFacts DEF FeeLeavesSome, InputAccounted
<1>12. QED
  BY <1>5, <1>6, <1>7, <1>9, <1>10, <1>11 DEF SwapInv, RefusedOnlyAtWindowEnd

LEMMA GiveUpKeeps ==
  ASSUME SwapInv, GiveUp
  PROVE  SwapInv'
<1>1. TypeOK' /\ RatiosGrow' /\ NeverOvershoots'
  BY DEF GiveUp, SwapInv, TypeOK, RatiosGrow, NeverOvershoots, Ticks, scratch
<1>2. ~CanStep
  <2>1. SUFFICES ASSUME CanStep PROVE FALSE
    OBVIOUS
  <2>2. Stepping /\ ~ReachesTarget /\ remaining - StepIn > 0
    BY <2>1 DEF GiveUp, Stepping
  <2>3. StepIn = remaining /\ remaining \in Nat
    BY <2>2, StepFacts, SteppingFacts
  <2>4. QED
    BY <2>2, <2>3, SMT
<1>3. liquidity <= 0 \/ InReach = {}
  <2>1. crossed + Cardinality(InReach) <= Len(Ticks) /\ crossed \in Nat
    BY DEF GiveUp, SwapInv, TicksLeft, TypeOK
  <2>2. Cardinality(InReach) \in Nat /\ Len(Ticks) \in Nat
    BY WindowFacts DEF SwapInv
  <2>3. crossed <= Len(Ticks)
    BY <2>1, <2>2, SMT
  <2>4. liquidity \in Int
    BY DEF SwapInv, TypeOK
  <2>5. QED
    BY <1>2, <2>3, <2>4, SMT DEF CanStep
<1>4. RefusedOnlyAtWindowEnd'
  BY <1>3 DEF GiveUp, RefusedOnlyAtWindowEnd, InReach, Ticks, scratch
<1>5. QED
  BY <1>1, <1>4 DEF GiveUp, SwapInv, FeeLeavesSome, InputAccounted, TicksLeft

LEMMA AskBackKeeps ==
  ASSUME SwapInv, AskBack
  PROVE  SwapInv'
<1>1. /\ TypeOK /\ RatiosGrow /\ NeverOvershoots /\ liquidity > 0
      /\ out \in Nat /\ out > 0 /\ pool.fee < Bps
  BY DEF SwapInv, AskBack, FeeLeavesSome, TypeOK
<1>2. /\ pool' \in [price : Nat \ {0}, liquidity : Nat \ {0}, tick : Int, fee : Nat,
                    ticks : Seq([index : Int, net : Int])]
      /\ pool'.price = sqrtPrice /\ pool'.tick = currentTick
      /\ pool'.ticks = pool.ticks /\ pool'.fee = pool.fee
  <2>1. liquidity \in Nat \ {0} /\ sqrtPrice \in Nat \ {0} /\ currentTick \in Int
    BY <1>1 DEF TypeOK
  <2>2. pool \in [price : Nat \ {0}, liquidity : Nat \ {0}, tick : Int, fee : Nat,
                  ticks : Seq([index : Int, net : Int])]
    BY <1>1 DEF TypeOK, WellFormed
  <2>3. QED
    BY <2>1, <2>2 DEF AskBack
<1>3. WellFormed(pool)'
  BY <1>1, <1>2 DEF NeverOvershoots, TypeOK, WellFormed, Ticks
<1>4. TypeOK'
  BY <1>1, <1>3 DEF AskBack, TypeOK
<1>5. RatiosGrow'
  BY <1>1, <1>2, SameWindow
<1>6. NeverOvershoots'
  BY <1>1, <1>2 DEF AskBack, NeverOvershoots, Ticks
<1>7. TicksLeft'
  <2>1. (Cardinality(InReach) <= Len(Ticks) /\ Cardinality(InReach) \in Nat)'
    BY <1>4, WindowFacts, PTL
  <2>2. crossed' = 0
    BY DEF AskBack
  <2>3. QED
    BY <2>1, <2>2, SMT DEF TicksLeft
<1>8. QED
  BY <1>1, <1>2, <1>4, <1>5, <1>6, <1>7
  DEF AskBack, SwapInv, FeeLeavesSome, InputAccounted, RefusedOnlyAtWindowEnd

LEMMA NextSwap == SwapInv /\ [Next]_vars => SwapInv'
<1> SUFFICES ASSUME SwapInv, [Next]_vars PROVE SwapInv'
  OBVIOUS
<1>1. ASSUME NEW a \in Inputs, Refuse(a) PROVE SwapInv'
  BY <1>1, RefuseKeeps
<1>2. ASSUME NEW a \in Inputs, NEW d \in BOOLEAN, Ask(a, d) PROVE SwapInv'
  BY <1>2, AskKeeps
<1>3. CASE Quoted
  BY <1>3, QuotedKeeps
<1>4. CASE Cross
  BY <1>4, CrossKeeps
<1>5. CASE GiveUp
  BY <1>5, GiveUpKeeps
<1>6. CASE AskBack
  BY <1>6, AskBackKeeps
<1>7. CASE UNCHANGED vars
  BY <1>7 DEF vars, scratch, SwapInv, TypeOK, RatiosGrow, FeeLeavesSome, NeverOvershoots,
              InputAccounted, TicksLeft, RefusedOnlyAtWindowEnd, InReach, Ticks
<1>8. QED
  BY <1>1, <1>2, <1>3, <1>4, <1>5, <1>6, <1>7 DEF Next, Walk

\* The invariant holds in every state of every quote.
THEOREM SwapInvariant == Spec => []SwapInv
<1>1. QED
  BY InitSwap, NextSwap, PTL DEF Spec

\* Every variable keeps its type: prices stay positive, and what is paid out is an
\* amount (v3.go:106-181).
THEOREM SwapTypes == Spec => []TypeOK
<1>1. SwapInv => TypeOK
  BY DEF SwapInv
<1>2. QED
  BY <1>1, SwapInvariant, PTL

\* For every pool, price scale and fee, no step runs past the tick it is bound for
\* (v3.go:151-174), although the price is rounded.
THEOREM PriceStaysInRange == Spec => []NeverOvershoots
<1>1. SwapInv => NeverOvershoots
  BY DEF SwapInv
<1>2. QED
  BY <1>1, SwapInvariant, PTL

\* For every pool, price scale and fee, a quote uses all of the input and no more
\* (v3.go:227-240).
THEOREM InputIsUsedExactly == Spec => []InputAccounted
<1>1. SwapInv => InputAccounted
  BY DEF SwapInv
<1>2. QED
  BY <1>1, SwapInvariant, PTL

\* The bound of the loop never turns a trade down that the window could serve
\* (v3.go:129-141, 161-166).
THEOREM OnlyDryWindowsRefuse == Spec => []RefusedOnlyAtWindowEnd
<1>1. SwapInv => RefusedOnlyAtWindowEnd
  BY DEF SwapInv
<1>2. QED
  BY <1>1, SwapInvariant, PTL

----------------------------------------------------------------------------
(* The liquidity in force.                                                 *)

\* The sums of the first n nets exist, for every n: there is no least n without them.
LEMMA PartialSums ==
  ASSUME NEW N \in Nat, NEW net \in [1..N -> Int]
  PROVE  \E f \in [0..N -> Int] : f[0] = 0 /\ \A n \in 1..N : f[n] = f[n - 1] + net[n]
<1> DEFINE Sums(m) ==
             \E f \in [0..m -> Int] : f[0] = 0 /\ \A n \in 1..m : f[n] = f[n - 1] + net[n]
           T == {m \in 0..N : ~Sums(m)}
<1>1. SUFFICES ASSUME T # {} PROVE FALSE
  <2>1. N \in 0..N
    OBVIOUS
  <2>2. QED
    BY <2>1
<1>2. T \subseteq Nat
  OBVIOUS
<1>3. PICK m \in T : \A y \in T : m <= y
  <2> HIDE DEF T
  <2> QED BY <1>1, <1>2, LeastNumber
<1>4. m \in 0..N /\ ~Sums(m)
  BY <1>3
<1>5. Sums(0)
  <2> DEFINE f == [n \in 0..0 |-> 0]
  <2>1. f \in [0..0 -> Int] /\ f[0] = 0 /\ \A n \in 1..0 : f[n] = f[n - 1] + net[n]
    OBVIOUS
  <2>2. QED
    BY <2>1
<1>6. m # 0
  BY <1>4, <1>5
<1>7. m - 1 \in 0..N /\ m - 1 \notin T
  <2>1. m - 1 \in 0..N /\ ~(m <= m - 1)
    BY <1>4, <1>6
  <2> HIDE DEF T
  <2>2. QED
    BY <1>3, <2>1
<1>8. Sums(m - 1)
  BY <1>7
<1>9. PICK f \in [0..(m - 1) -> Int] :
        f[0] = 0 /\ \A n \in 1..(m - 1) : f[n] = f[n - 1] + net[n]
  BY <1>8
<1> DEFINE h == [n \in 0..m |-> IF n = m THEN f[m - 1] + net[m] ELSE f[n]]
<1>10. m \in 1..N /\ m - 1 \in 0..(m - 1)
  BY <1>4, <1>6
<1>11. h \in [0..m -> Int]
  <2>1. f[m - 1] + net[m] \in Int
    BY <1>10
  <2>2. \A n \in 0..m : n # m => n \in 0..(m - 1)
    BY <1>10
  <2>3. QED
    BY <2>1, <2>2
<1>12. h[0] = 0
  BY <1>9, <1>10
<1>13. ASSUME NEW n \in 1..m PROVE h[n] = h[n - 1] + net[n]
  <2>1. n - 1 \in 0..m /\ n - 1 # m /\ n \in 0..m
    BY <1>10
  <2>2. h[n - 1] = f[n - 1]
    BY <2>1
  <2>3. CASE n = m
    BY <2>1, <2>2, <2>3
  <2>4. CASE n # m
    <3>1. n \in 1..(m - 1)
      BY <1>10, <2>4
    <3>2. QED
      BY <1>9, <2>1, <2>2, <2>4, <3>1
  <2>5. QED
    BY <2>3, <2>4
<1>14. Sums(m)
  BY <1>11, <1>12, <1>13
<1>15. QED
  BY <1>4, <1>14

\* NetOfFirst is such a sum.
LEMMA NetFacts ==
  ASSUME TypeOK
  PROVE  /\ \A n \in 0..Len(Ticks) : NetOfFirst[n] \in Int
         /\ \A n \in DOMAIN Ticks : NetOfFirst[n] = NetOfFirst[n - 1] + Ticks[n].net
<1> DEFINE N == Len(Ticks)
           IsNet(g) == g = [n \in 0..N |-> IF n = 0 THEN 0 ELSE g[n - 1] + Ticks[n].net]
<1>1. /\ N \in Nat /\ DOMAIN Ticks = 1..N
      /\ \A i \in DOMAIN Ticks : Ticks[i].net \in Int
  BY WindowFacts
<1>2. PICK f \in [0..N -> Int] :
        f[0] = 0 /\ \A n \in 1..N : f[n] = f[n - 1] + Ticks[n].net
  <2> DEFINE net == [i \in 1..N |-> Ticks[i].net]
  <2>1. net \in [1..N -> Int]
    BY <1>1
  <2>2. \E f \in [0..N -> Int] : f[0] = 0 /\ \A n \in 1..N : f[n] = f[n - 1] + net[n]
    <3> HIDE DEF net, N
    <3> QED BY <1>1, <2>1, PartialSums
  <2>3. QED
    BY <2>2
<1>3. IsNet(f)
  <2> HIDE DEF N
  <2>1. \A n \in 0..N : f[n] = IF n = 0 THEN 0 ELSE f[n - 1] + Ticks[n].net
    BY <1>1, <1>2
  <2>2. QED
    BY <2>1
<1>4. NetOfFirst = CHOOSE g : IsNet(g)
  BY DEF NetOfFirst
<1>5. IsNet(NetOfFirst)
  <2> HIDE DEF IsNet
  <2> QED BY <1>3, <1>4
<1>6. ASSUME NEW n \in 0..N
      PROVE  NetOfFirst[n] = IF n = 0 THEN 0 ELSE NetOfFirst[n - 1] + Ticks[n].net
  BY <1>5
<1> HIDE DEF N, IsNet
<1> DEFINE T == {n \in 0..N : NetOfFirst[n] \notin Int}
<1>7. T = {}
  <2>1. SUFFICES ASSUME T # {} PROVE FALSE
    OBVIOUS
  <2>2. T \subseteq Nat
    BY <1>1
  <2>3. PICK m \in T : \A y \in T : m <= y
    <3> HIDE DEF T
    <3> QED BY <2>1, <2>2, LeastNumber
  <2>4. m \in 0..N /\ NetOfFirst[m] \notin Int
    BY <2>3
  <2>5. m # 0
    BY <1>6, <2>4
  <2>6. m - 1 \in 0..N /\ m - 1 \notin T /\ m \in 1..N
    BY <1>1, <2>3, <2>4, <2>5
  <2>7. NetOfFirst[m - 1] \in Int /\ Ticks[m].net \in Int
    BY <1>1, <2>6
  <2>8. QED
    BY <1>6, <2>4, <2>5, <2>7
<1>8. \A n \in DOMAIN Ticks : NetOfFirst[n] = NetOfFirst[n - 1] + Ticks[n].net
  BY <1>1, <1>6
<1>9. QED
  BY <1>7, <1>8 DEF N

\* The ticks up to t are the first n.
LEMMA NetOfPrefix ==
  ASSUME TypeOK, NEW t \in Int, NEW n \in 0..Len(Ticks),
         \A i \in DOMAIN Ticks : Ticks[i].index <= t <=> i <= n
  PROVE  NetUpTo(t) = NetOfFirst[n]
<1>1. Len(Ticks) \in Nat /\ DOMAIN Ticks = 1..Len(Ticks)
  BY WindowFacts
<1>2. {i \in DOMAIN Ticks : Ticks[i].index <= t} = 1..n
  BY <1>1
<1>3. Cardinality(1..n) = n
  <2>1. 1 \in Int /\ n \in Int /\ n \in Nat
    BY <1>1
  <2>2. Cardinality(1..n) = IF 1 > n THEN 0 ELSE n - 1 + 1
    BY <2>1, FS_Interval
  <2>3. QED
    BY <2>1, <2>2, SMT
<1>4. QED
  BY <1>2, <1>3 DEF NetUpTo

\* The net up to any tick is a number.
LEMMA NetUpToIsInt ==
  ASSUME TypeOK, NEW t \in Int
  PROVE  NetUpTo(t) \in Int
<1> DEFINE S == {i \in DOMAIN Ticks : Ticks[i].index <= t}
<1>1. Len(Ticks) \in Nat /\ S \subseteq 1..Len(Ticks)
  BY WindowFacts
<1>2. IsFiniteSet(1..Len(Ticks)) /\ Cardinality(1..Len(Ticks)) = Len(Ticks)
  <2>1. 1 \in Int /\ Len(Ticks) \in Int
    BY <1>1
  <2>2. /\ IsFiniteSet(1..Len(Ticks))
        /\ Cardinality(1..Len(Ticks)) = IF 1 > Len(Ticks) THEN 0 ELSE Len(Ticks) - 1 + 1
    BY <2>1, FS_Interval
  <2>3. QED
    BY <1>1, <2>2, SMT
<1>3. IsFiniteSet(S) /\ Cardinality(S) <= Len(Ticks)
  BY <1>1, <1>2, FS_Subset
<1>4. Cardinality(S) \in Nat
  BY <1>3, FS_CardinalityType
<1>5. Cardinality(S) \in 0..Len(Ticks)
  BY <1>1, <1>3, <1>4
<1>6. QED
  BY <1>5, NetFacts DEF NetUpTo

\* Going past the next tick changes the net by that of the tick.
LEMMA NetOfNextTick ==
  ASSUME TypeOK, InReach # {}
  PROVE  IF zeroForOne
           THEN NetUpTo(NextTick.index - 1) = NetUpTo(currentTick) - NextTick.net
           ELSE NetUpTo(NextTick.index) = NetUpTo(currentTick) + NextTick.net
<1>1. PICK i \in InReach :
        /\ NextTick = Ticks[i]
        /\ \A j \in InReach : IF zeroForOne THEN Ticks[j].index <= Ticks[i].index
                                            ELSE Ticks[i].index <= Ticks[j].index
  BY NextTickIsNearest
<1>2. /\ Len(Ticks) \in Nat /\ DOMAIN Ticks = 1..Len(Ticks)
      /\ \A j \in DOMAIN Ticks : Ticks[j].index \in Int /\ Ticks[j].net \in Int
      /\ i \in DOMAIN Ticks /\ currentTick \in Int
  BY WindowFacts DEF TypeOK
<1>3. \A j, h \in DOMAIN Ticks : j < h => Ticks[j].index < Ticks[h].index
  BY DEF TypeOK, WellFormed, Ticks
<1>4. /\ i \in 0..Len(Ticks) /\ i - 1 \in 0..Len(Ticks)
      /\ i \in 1..Len(Ticks) /\ Ticks[i].index - 1 \in Int
  BY <1>2
<1>5. ASSUME NEW j \in DOMAIN Ticks
      PROVE  /\ j < i => Ticks[j].index < Ticks[i].index
             /\ i < j => Ticks[i].index < Ticks[j].index
             /\ j \in Nat /\ i \in Nat
             /\ Ticks[j].index \in Int /\ Ticks[i].index \in Int
  BY <1>2, <1>3
<1>6. /\ \A j \in DOMAIN Ticks : Ticks[j].index <= Ticks[i].index <=> j <= i
      /\ \A j \in DOMAIN Ticks : Ticks[j].index <= Ticks[i].index - 1 <=> j <= i - 1
  <2>1. ASSUME NEW j \in DOMAIN Ticks
        PROVE  /\ Ticks[j].index <= Ticks[i].index <=> j <= i
               /\ Ticks[j].index <= Ticks[i].index - 1 <=> j <= i - 1
    <3>1. j < i \/ j = i \/ i < j
      BY <1>5
    <3>2. QED
      BY <1>5, <3>1, SMT
  <2>2. QED
    BY <2>1
<1>7. /\ NetUpTo(Ticks[i].index) = NetOfFirst[i]
      /\ NetUpTo(Ticks[i].index - 1) = NetOfFirst[i - 1]
  BY <1>2, <1>4, <1>6, NetOfPrefix
<1>8. /\ NetOfFirst[i] = NetOfFirst[i - 1] + Ticks[i].net
      /\ NetOfFirst[i] \in Int /\ NetOfFirst[i - 1] \in Int /\ Ticks[i].net \in Int
  BY <1>2, <1>4, NetFacts
<1>9. CASE zeroForOne
  <2>1. ASSUME NEW j \in DOMAIN Ticks PROVE Ticks[j].index <= currentTick <=> j <= i
    <3>1. Ticks[i].index <= currentTick
      BY <1>1, <1>9 DEF InReach
    <3>2. Ticks[j].index <= currentTick => Ticks[j].index <= Ticks[i].index
      BY <1>1, <1>9 DEF InReach
    <3>3. QED
      BY <1>2, <1>5, <1>6, <3>1, <3>2
  <2>2. NetUpTo(currentTick) = NetOfFirst[i]
    BY <1>2, <1>4, <2>1, NetOfPrefix
  <2>3. QED
    BY <1>1, <1>7, <1>8, <1>9, <2>2
<1>10. CASE ~zeroForOne
  <2>1. ASSUME NEW j \in DOMAIN Ticks PROVE Ticks[j].index <= currentTick <=> j <= i - 1
    <3>1. Ticks[i].index > currentTick
      BY <1>1, <1>10 DEF InReach
    <3>2. Ticks[j].index > currentTick => Ticks[i].index <= Ticks[j].index
      BY <1>1, <1>10 DEF InReach
    <3>3. j < i \/ i = j \/ i < j
      BY <1>5
    <3>4. QED
      BY <1>2, <1>5, <3>1, <3>2, <3>3, SMT
  <2>2. NetUpTo(currentTick) = NetOfFirst[i - 1]
    BY <1>2, <1>4, <2>1, NetOfPrefix
  <2>3. QED
    BY <1>1, <1>7, <1>8, <1>10, <2>2
<1>11. QED
  BY <1>9, <1>10

\* A step that stays between two ticks has the liquidity in force if it had it before.
LEMMA SameLiquidity ==
  ASSUME LiquidityIsInForce, UNCHANGED <<pool, liquidity, currentTick>>
  PROVE  LiquidityIsInForce'
BY DEF LiquidityIsInForce, NetUpTo, NetOfFirst, Ticks

LEMMA CurrentNet == TypeOK => NetUpTo(currentTick) \in Int
BY NetUpToIsInt DEF TypeOK

\* So has a walk that begins.
LEMMA FreshLiquidity ==
  ASSUME TypeOK', liquidity' = pool'.liquidity, currentTick' = pool'.tick
  PROVE  LiquidityIsInForce'
<1>1. currentTick' \in Int /\ liquidity' \in Int
  BY DEF TypeOK
<1>2. (NetUpTo(currentTick) \in Int)'
  BY CurrentNet, PTL
<1>3. QED
  BY <1>1, <1>2 DEF LiquidityIsInForce

LEMMA NextLiquidity ==
  ASSUME SwapInv, SwapInv', LiquidityIsInForce, [Next]_vars
  PROVE  LiquidityIsInForce'
<1>1. TypeOK /\ TypeOK'
  BY DEF SwapInv
<1>2. ASSUME NEW a \in Inputs, NEW d \in BOOLEAN, Ask(a, d) PROVE LiquidityIsInForce'
  BY <1>1, <1>2, FreshLiquidity DEF Ask
<1>3. CASE AskBack
  <2>1. liquidity' = pool'.liquidity /\ currentTick' = pool'.tick
    <3>1. pool \in [price : Nat \ {0}, liquidity : Nat \ {0}, tick : Int, fee : Nat,
                    ticks : Seq([index : Int, net : Int])]
      BY <1>1 DEF TypeOK, WellFormed
    <3>2. QED
      BY <1>3, <3>1 DEF AskBack
  <2>2. QED
    BY <1>1, <2>1, FreshLiquidity
<1>4. CASE Cross
  <2>1. /\ pool' = pool /\ InReach # {}
        /\ liquidity' = IF zeroForOne THEN liquidity - NextTick.net
                                      ELSE liquidity + NextTick.net
        /\ currentTick' = IF zeroForOne THEN NextTick.index - 1 ELSE NextTick.index
    BY <1>4 DEF Cross, CanStep
  <2>2. NextTick.net \in Int
    BY <1>4, TargetAhead DEF Cross, Stepping
  <2>3. /\ liquidity \in Int /\ pool.liquidity \in Int /\ pool.tick \in Int
        /\ currentTick \in Int
    BY <1>1 DEF TypeOK, WellFormed
  <2>4. NetUpTo(pool.tick) \in Int /\ NetUpTo(currentTick) \in Int
    BY <1>1, <2>3, NetUpToIsInt
  <2>5. IF zeroForOne
          THEN NetUpTo(NextTick.index - 1) = NetUpTo(currentTick) - NextTick.net
          ELSE NetUpTo(NextTick.index) = NetUpTo(currentTick) + NextTick.net
    BY <1>1, <2>1, NetOfNextTick
  <2>6. /\ NetUpTo(currentTick)' = NetUpTo(currentTick')
        /\ NetUpTo(pool.tick)' = NetUpTo(pool.tick)
    BY <2>1 DEF NetUpTo, NetOfFirst, Ticks
  <2>7. liquidity - pool.liquidity = NetUpTo(currentTick) - NetUpTo(pool.tick)
    BY DEF LiquidityIsInForce
  <2>8. liquidity' - pool.liquidity = NetUpTo(currentTick') - NetUpTo(pool.tick)
    <3>1. CASE zeroForOne
      BY <2>1, <2>2, <2>3, <2>4, <2>5, <2>7, <3>1
    <3>2. CASE ~zeroForOne
      BY <2>1, <2>2, <2>3, <2>4, <2>5, <2>7, <3>2
    <3>3. QED
      BY <3>1, <3>2
  <2>9. QED
    BY <2>1, <2>6, <2>8 DEF LiquidityIsInForce
<1>5. ASSUME NEW a \in Inputs, Refuse(a) PROVE LiquidityIsInForce'
  BY <1>5, SameLiquidity DEF Refuse, scratch
<1>6. CASE Quoted \/ GiveUp \/ UNCHANGED vars
  BY <1>6, SameLiquidity DEF Quoted, GiveUp, vars, scratch
<1>7. QED
  BY <1>2, <1>3, <1>4, <1>5, <1>6 DEF Next, Walk

\* For every pool and window, and whichever way a trade goes, every range is priced with
\* the liquidity in force there (v3.go:168-174): each tick between is counted once.
THEOREM RangesPricedWithTheirLiquidity == Spec => []LiquidityIsInForce
<1>1. Init => LiquidityIsInForce
  <2>1. SUFFICES ASSUME Init PROVE LiquidityIsInForce
    OBVIOUS
  <2>2. TypeOK /\ liquidity = pool.liquidity /\ currentTick = pool.tick
    BY <2>1, InitSwap DEF Init, SwapInv
  <2>3. NetUpTo(currentTick) \in Int /\ liquidity \in Int
    BY <2>2, CurrentNet DEF TypeOK
  <2>4. QED
    BY <2>2, <2>3 DEF LiquidityIsInForce
<1>2. SwapInv /\ SwapInv' /\ LiquidityIsInForce /\ [Next]_vars => LiquidityIsInForce'
  BY NextLiquidity
<1>3. QED
  BY <1>1, <1>2, SwapInvariant, PTL DEF Spec

----------------------------------------------------------------------------
(* A round trip, range by range.                                           *)

\* What moving from price a to price b, with liquidity l and in direction d, takes in and
\* pays out, as the code rounds it.
Takes(d, l, a, b) == IF d THEN CeilDiv(CeilDiv(l * Q * (a - b), a), b)
                          ELSE CeilDiv(l * (b - a), Q)

Pays(d, l, a, b) == IF d THEN (l * (a - b)) \div Q
                         ELSE ((l * Q * (b - a)) \div b) \div a

\* Price b is not behind price a in direction d.
Onward(d, a, b) == IF d THEN b <= a ELSE a <= b

\* Selling token0, exactly: what it takes is the least number that suffices, what it
\* pays the largest that is covered.
LEMMA FallingAmounts ==
  ASSUME NEW l \in Nat \ {0}, NEW a \in Nat \ {0}, NEW b \in Nat \ {0}, b <= a
  PROVE  /\ Takes(TRUE, l, a, b) \in Nat /\ Pays(TRUE, l, a, b) \in Nat
         /\ \A n \in Nat : /\ Takes(TRUE, l, a, b) <= n <=> (l * Q) * (a - b) <= a * (b * n)
                           /\ n <= Pays(TRUE, l, a, b) <=> Q * n <= l * (a - b)
         /\ (l * Q) * (a - b) <= a * (b * Takes(TRUE, l, a, b))
         /\ Q * Pays(TRUE, l, a, b) <= l * (a - b)
<1> DEFINE x == (l * Q) * (a - b)
           c == CeilDiv(x, a)
           y == l * (a - b)
<1>1. x \in Nat /\ y \in Nat /\ Q \in Nat \ {0}
  BY SwapAssumption, SMT
<1>2. Takes(TRUE, l, a, b) = CeilDiv(c, b) /\ Pays(TRUE, l, a, b) = y \div Q
  BY DEF Takes, Pays
<1> HIDE DEF x, y
<1>3. c \in Nat /\ \A n \in Nat : c <= n <=> x <= a * n
  BY <1>1, CeilIsLeast
<1> HIDE DEF c
<1>4. CeilDiv(c, b) \in Nat /\ \A n \in Nat : CeilDiv(c, b) <= n <=> c <= b * n
  BY <1>3, CeilIsLeast
<1>5. \A n \in Nat : b * n \in Nat
  BY SMT
<1>6. y \div Q \in Nat /\ \A n \in Nat : n <= y \div Q <=> Q * n <= y
  BY <1>1, Division, FloorIsGreatest
<1>7. \A n \in Nat : n <= n
  BY SMT
<1>8. QED
  BY <1>2, <1>3, <1>4, <1>5, <1>6, <1>7, Zenon DEF x, y

\* Selling token1, exactly.
LEMMA RisingAmounts ==
  ASSUME NEW l \in Nat \ {0}, NEW a \in Nat \ {0}, NEW b \in Nat \ {0}, a <= b
  PROVE  /\ Takes(FALSE, l, a, b) \in Nat /\ Pays(FALSE, l, a, b) \in Nat
         /\ \A n \in Nat : /\ Takes(FALSE, l, a, b) <= n <=> l * (b - a) <= Q * n
                           /\ n <= Pays(FALSE, l, a, b) <=> b * (a * n) <= (l * Q) * (b - a)
         /\ l * (b - a) <= Q * Takes(FALSE, l, a, b)
         /\ b * (a * Pays(FALSE, l, a, b)) <= (l * Q) * (b - a)
<1> DEFINE x == (l * Q) * (b - a)
           c == x \div b
           y == l * (b - a)
<1>1. x \in Nat /\ y \in Nat /\ Q \in Nat \ {0}
  BY SwapAssumption, SMT
<1>2. Pays(FALSE, l, a, b) = c \div a /\ Takes(FALSE, l, a, b) = CeilDiv(y, Q)
  BY DEF Takes, Pays
<1> HIDE DEF x, y
<1>3. c \in Nat /\ \A n \in Nat : n <= c <=> b * n <= x
  BY <1>1, Division, FloorIsGreatest
<1> HIDE DEF c
<1>4. c \div a \in Nat /\ \A n \in Nat : n <= c \div a <=> a * n <= c
  BY <1>3, Division, FloorIsGreatest
<1>5. \A n \in Nat : a * n \in Nat
  BY SMT
<1>6. CeilDiv(y, Q) \in Nat /\ \A n \in Nat : CeilDiv(y, Q) <= n <=> y <= Q * n
  BY <1>1, CeilIsLeast
<1>7. \A n \in Nat : n <= n
  BY SMT
<1>8. QED
  BY <1>2, <1>3, <1>4, <1>5, <1>6, <1>7, Zenon DEF x, y

\* Both are amounts.
LEMMA AmountsAreNat ==
  ASSUME NEW d \in BOOLEAN, NEW l \in Nat \ {0}, NEW a \in Nat \ {0}, NEW b \in Nat \ {0},
         Onward(d, a, b)
  PROVE  Takes(d, l, a, b) \in Nat /\ Pays(d, l, a, b) \in Nat
<1>1. CASE d = TRUE
  BY <1>1, FallingAmounts DEF Onward
<1>2. CASE d = FALSE
  BY <1>2, RisingAmounts DEF Onward
<1>3. QED
  BY <1>1, <1>2

\* A common factor.
LEMMA Cancel ==
  ASSUME NEW c \in Nat \ {0}, NEW m \in Nat, NEW n \in Nat, c * m <= c * n
  PROVE  m <= n
<1>1. SUFFICES ASSUME n + 1 <= m PROVE FALSE
  BY SMT
<1>2. c * (n + 1) <= c * m /\ c * m \in Nat
  BY <1>1, Products
<1>3. c * (n + 1) = c * n + c /\ c * n \in Nat
  BY SMT
<1>4. QED
  BY <1>2, <1>3, SMT

\* Going back over a range takes at least what it paid.
LEMMA BackTakesMore ==
  ASSUME NEW d \in BOOLEAN, NEW l \in Nat \ {0}, NEW a \in Nat \ {0}, NEW b \in Nat \ {0},
         Onward(d, a, b)
  PROVE  Pays(d, l, a, b) <= Takes(~d, l, b, a)
<1>0. Q \in Nat \ {0}
  BY SwapAssumption
<1>1. CASE d = TRUE
  <2> DEFINE n == Pays(TRUE, l, a, b)
             u == Takes(FALSE, l, b, a)
             y == l * (a - b)
  <2>1. b <= a
    BY <1>1 DEF Onward
  <2>2. n \in Nat /\ Q * n <= y
    BY <2>1, FallingAmounts
  <2>3. u \in Nat /\ y <= Q * u
    BY <2>1, RisingAmounts
  <2>4. y \in Int
    BY SMT
  <2> HIDE DEF n, u, y
  <2>5. Q * n \in Nat /\ Q * u \in Nat
    BY <1>0, <2>2, <2>3, SMT
  <2>6. Q * n <= Q * u
    BY <2>2, <2>3, <2>4, <2>5, SMT
  <2>7. n <= u
    BY <1>0, <2>2, <2>3, <2>6, Cancel
  <2>8. QED
    BY <1>1, <2>7 DEF n, u
<1>2. CASE d = FALSE
  <2> DEFINE n == Pays(FALSE, l, a, b)
             u == Takes(TRUE, l, b, a)
             x == (l * Q) * (b - a)
  <2>1. a <= b
    BY <1>2 DEF Onward
  <2>2. n \in Nat /\ b * (a * n) <= x
    BY <2>1, RisingAmounts
  <2>3. u \in Nat /\ x <= b * (a * u)
    BY <2>1, FallingAmounts
  <2>4. x \in Int
    BY <1>0, SMT
  <2> HIDE DEF n, u, x
  <2>5. /\ b * (a * n) \in Nat /\ b * (a * u) \in Nat /\ a * n \in Nat /\ a * u \in Nat
    BY <2>2, <2>3, SMT
  <2>6. b * (a * n) <= b * (a * u)
    BY <2>2, <2>3, <2>4, <2>5, SMT
  <2>7. a * n <= a * u
    BY <2>5, <2>6, Cancel
  <2>8. n <= u
    BY <2>2, <2>3, <2>7, Cancel
  <2>9. QED
    BY <1>2, <2>8 DEF n, u
<1>3. QED
  BY <1>1, <1>2

\* Going back over a range, or part of it, pays no more than it took.
LEMMA BackPaysLess ==
  ASSUME NEW d \in BOOLEAN, NEW l \in Nat \ {0}, NEW a \in Nat \ {0}, NEW b \in Nat \ {0},
         NEW c \in Nat \ {0}, Onward(d, a, c), Onward(d, c, b)
  PROVE  Pays(~d, l, b, c) <= Takes(d, l, a, b)
<1>0. Q \in Nat \ {0}
  BY SwapAssumption
<1>1. CASE d = TRUE
  <2> DEFINE n == Pays(FALSE, l, b, c)
             u == Takes(TRUE, l, a, b)
             k == l * Q
  <2>1. b <= c /\ c <= a /\ b <= a
    BY <1>1, SMT DEF Onward
  <2>2. n \in Nat /\ c * (b * n) <= k * (c - b)
    BY <2>1, RisingAmounts
  <2>3. u \in Nat /\ k * (a - b) <= a * (b * u)
    BY <2>1, FallingAmounts
  <2>4. k \in Nat
    BY <1>0, SMT
  <2> HIDE DEF n, u, k
  <2>5. PICK p \in Nat : c = b + p
    BY <2>1, SMT
  <2>6. PICK q \in Nat : a = c + q
    BY <2>1, SMT
  <2>7. c - b = p /\ a - b = p + q
    BY <2>5, <2>6, SMT
  <2>8. a * (c * (b * n)) <= a * (k * p)
    <3>1. c * (b * n) \in Nat /\ k * p \in Nat
      BY <2>2, <2>4, <2>5, SMT
    <3>2. QED
      BY <2>2, <2>7, <3>1, Products
  <2>9. c * (k * (p + q)) <= c * (a * (b * u))
    <3>1. k * (p + q) \in Nat /\ a * (b * u) \in Nat
      BY <2>3, <2>4, <2>5, <2>6, SMT
    <3>2. QED
      BY <2>3, <2>7, <3>1, Products
  <2>10. a * (k * p) <= c * (k * (p + q))
    <3>1. a * (k * p) = c * (k * p) + k * (q * p)
      BY <2>4, <2>5, <2>6, SMT
    <3>2. c * (k * (p + q)) = c * (k * p) + k * (q * (b + p))
      BY <2>4, <2>5, <2>6, SMT
    <3>3. k * (q * p) <= k * (q * (b + p))
      <4>1. q * p <= q * (b + p) /\ q * p \in Nat /\ q * (b + p) \in Nat
        BY <2>5, <2>6, Products
      <4>2. QED
        BY <2>4, <4>1, Products
    <3>4. c * (k * p) \in Nat /\ k * (q * p) \in Nat /\ k * (q * (b + p)) \in Nat
      BY <2>4, <2>5, <2>6, SMT
    <3>5. QED
      BY <3>1, <3>2, <3>3, <3>4, SMT
  <2> DEFINE f == a * (c * b)
  <2>11. f \in Nat \ {0} /\ a * (c * (b * n)) = f * n /\ c * (a * (b * u)) = f * u
    BY <2>2, <2>3, SMT
  <2> HIDE DEF f
  <2>12. /\ a * (k * p) \in Nat /\ c * (k * (p + q)) \in Nat
         /\ f * n \in Nat /\ f * u \in Nat
    BY <2>2, <2>3, <2>4, <2>5, <2>6, <2>11, SMT
  <2>13. f * n <= f * u
    BY <2>8, <2>9, <2>10, <2>11, <2>12, SMT
  <2>14. n <= u
    BY <2>2, <2>3, <2>11, <2>13, Cancel
  <2>15. QED
    BY <1>1, <2>14 DEF n, u
<1>2. CASE d = FALSE
  <2> DEFINE n == Pays(TRUE, l, b, c)
             u == Takes(FALSE, l, a, b)
  <2>1. a <= c /\ c <= b /\ a <= b
    BY <1>2, SMT DEF Onward
  <2>2. n \in Nat /\ Q * n <= l * (b - c)
    BY <2>1, FallingAmounts
  <2>3. u \in Nat /\ l * (b - a) <= Q * u
    BY <2>1, RisingAmounts
  <2> HIDE DEF n, u
  <2>4. l * (b - c) <= l * (b - a) /\ l * (b - c) \in Nat /\ l * (b - a) \in Nat
    <3>1. b - c \in Nat /\ b - a \in Nat /\ b - c <= b - a
      BY <2>1, SMT
    <3>2. QED
      BY <3>1, Products
  <2>5. Q * n \in Nat /\ Q * u \in Nat
    BY <1>0, <2>2, <2>3, SMT
  <2>6. Q * n <= Q * u
    BY <2>2, <2>3, <2>4, <2>5, SMT
  <2>7. n <= u
    BY <1>0, <2>2, <2>3, <2>6, Cancel
  <2>8. QED
    BY <1>2, <2>7 DEF n, u
<1>3. QED
  BY <1>1, <1>2

\* In the range where a trip began, at price a: an input r that is no more than what the
\* way from a to b paid does not take the price back past a.  First as far as a tick at
\* price t, at a or beyond.
LEMMA BackStopsAtStart ==
  ASSUME NEW d \in BOOLEAN, NEW l \in Nat \ {0}, NEW a \in Nat \ {0}, NEW b \in Nat \ {0},
         NEW t \in Nat \ {0}, Onward(d, a, b), Onward(d, t, a),
         NEW r \in Nat, r <= Pays(d, l, a, b), Takes(~d, l, b, t) <= r
  PROVE  t = a
<1>0. Q \in Nat \ {0}
  BY SwapAssumption
<1>1. CASE d = TRUE
  <2>1. b <= a /\ a <= t /\ b <= t
    BY <1>1, SMT DEF Onward
  <2>2. Q * r <= l * (a - b)
    BY <1>1, <2>1, FallingAmounts
  <2>3. l * (t - b) <= Q * r
    BY <1>1, <2>1, RisingAmounts
  <2>4. a - b \in Nat /\ t - b \in Nat
    BY <2>1, SMT
  <2>5. l * (t - b) <= l * (a - b)
    <3>1. l * (t - b) \in Nat /\ l * (a - b) \in Nat /\ Q * r \in Nat
      BY <1>0, <2>4, SMT
    <3>2. QED
      BY <2>2, <2>3, <3>1, SMT
  <2>6. t - b <= a - b
    BY <2>4, <2>5, Cancel
  <2>7. QED
    BY <2>1, <2>6, SMT
<1>2. CASE d = FALSE
  <2> DEFINE k == l * Q
  <2>1. a <= b /\ t <= a /\ t <= b
    BY <1>2, SMT DEF Onward
  <2>2. b * (a * r) <= k * (b - a)
    BY <1>2, <2>1, RisingAmounts
  <2>3. k * (b - t) <= b * (t * r)
    BY <1>2, <2>1, FallingAmounts
  <2>4. k \in Nat \ {0}
    BY <1>0, SMT
  <2> HIDE DEF k
  <2>5. PICK p \in Nat : a = t + p
    BY <2>1, SMT
  <2>6. PICK q \in Nat : b = a + q
    BY <2>1, SMT
  <2>7. b - a = q /\ b - t = p + q
    BY <2>5, <2>6, SMT
  <2>8. t * (b * (a * r)) <= t * (k * q)
    <3>1. b * (a * r) \in Nat /\ k * q \in Nat
      BY <2>4, <2>6, SMT
    <3>2. QED
      BY <2>2, <2>7, <3>1, Products
  <2>9. a * (k * (p + q)) <= a * (b * (t * r))
    <3>1. k * (p + q) \in Nat /\ b * (t * r) \in Nat
      BY <2>4, <2>5, <2>6, SMT
    <3>2. QED
      BY <2>3, <2>7, <3>1, Products
  <2>10. a * (b * (t * r)) = t * (b * (a * r))
    BY SMT
  <2>11. a * (k * (p + q)) = t * (k * q) + (k * (t * p) + k * (p * (p + q)))
    BY <2>4, <2>5, <2>6, SMT
  <2>12. /\ t * (k * q) \in Nat /\ k * (t * p) \in Nat /\ k * (p * (p + q)) \in Nat
         /\ t * (b * (a * r)) \in Nat
    BY <2>4, <2>5, <2>6, SMT
  <2>13. k * (t * p) = 0
    BY <2>8, <2>9, <2>10, <2>11, <2>12, SMT
  <2>14. p = 0
    <3>1. k * t \in Nat \ {0} /\ k * (t * p) = (k * t) * p
      BY <2>4, <2>5, SMT
    <3>2. (k * t) * p <= (k * t) * 0
      BY <2>13, <3>1, SMT
    <3>3. p <= 0
      BY <2>5, <3>1, <3>2, Cancel
    <3>4. QED
      BY <2>5, <3>3, SMT
  <2>15. QED
    BY <2>5, <2>14, SMT
<1>3. QED
  BY <1>1, <1>2

\* The price an input r leads to, from price b with liquidity l.
Moved(d, l, b, r) == IF d THEN CeilDiv(l * Q * b, l * Q + r * b) ELSE b + (r * Q) \div l

\* Then where it stops within the range.
LEMMA BackStopsBeforeStart ==
  ASSUME NEW d \in BOOLEAN, NEW l \in Nat \ {0}, NEW a \in Nat \ {0}, NEW b \in Nat \ {0},
         Onward(d, a, b), NEW r \in Nat, r <= Pays(d, l, a, b)
  PROVE  Onward(d, a, Moved(~d, l, b, r))
<1>0. Q \in Nat \ {0}
  BY SwapAssumption
<1>1. CASE d = TRUE
  <2> DEFINE n == (r * Q) \div l
  <2>1. b <= a /\ a - b \in Nat
    BY <1>1, SMT DEF Onward
  <2>2. Q * r <= l * (a - b)
    BY <1>1, <2>1, FallingAmounts
  <2>3. r * Q \in Nat /\ r * Q = Q * r
    BY <1>0, SMT
  <2>4. n \in Nat /\ l * n <= r * Q
    BY <2>3, Division
  <2> HIDE DEF n
  <2>5. l * n <= l * (a - b)
    <3>1. l * n \in Nat /\ l * (a - b) \in Nat
      BY <2>1, <2>4, SMT
    <3>2. QED
      BY <2>2, <2>3, <2>4, <3>1, SMT
  <2>6. n <= a - b
    BY <2>1, <2>4, <2>5, Cancel
  <2>7. b + n <= a
    BY <2>1, <2>4, <2>6, SMT
  <2>8. QED
    BY <1>1, <2>7 DEF Onward, Moved, n
<1>2. CASE d = FALSE
  <2> DEFINE k == l * Q
             m == k + r * b
             n == CeilDiv(k * b, m)
  <2>1. a <= b
    BY <1>2 DEF Onward
  <2>2. b * (a * r) <= k * (b - a)
    BY <1>2, <2>1, RisingAmounts
  <2>3. k \in Nat \ {0}
    BY <1>0, SMT
  <2>4. n = Moved(TRUE, l, b, r)
    BY DEF Moved
  <2> HIDE DEF k
  <2>5. m \in Nat \ {0} /\ k * b \in Nat
    BY <2>3, SMT
  <2>6. m * a <= k * b
    <3>1. m * a = k * a + b * (a * r) /\ k * (b - a) = k * b - k * a
      BY <2>3, SMT
    <3>2. k * a \in Nat /\ b * (a * r) \in Nat /\ k * b \in Nat
      BY <2>3, SMT
    <3>3. QED
      BY <2>2, <3>1, <3>2, SMT
  <2> HIDE DEF m
  <2>7. n \in Nat /\ (n <= n <=> k * b <= m * n)
    BY <2>5, CeilIsLeast
  <2> HIDE DEF n
  <2>8. k * b <= m * n
    BY <2>7, SMT
  <2>9. m * a <= m * n
    <3>1. m * a \in Nat /\ m * n \in Nat
      BY <2>5, <2>7, SMT
    <3>2. QED
      BY <2>5, <2>6, <2>8, <3>1, SMT
  <2>10. a <= n
    BY <2>5, <2>7, <2>9, Cancel
  <2>11. QED
    BY <1>2, <2>4, <2>10 DEF Onward
<1>3. QED
  BY <1>1, <1>2

\* What a step takes in, pays out, and where it leads, in these terms.
LEMMA StepAmounts ==
  ASSUME Stepping
  PROVE  /\ InToTarget = Takes(zeroForOne, liquidity, sqrtPrice, Target)
         /\ StepOut = Pays(zeroForOne, liquidity, sqrtPrice, StepNext)
         /\ Takes(zeroForOne, liquidity, sqrtPrice, StepNext) <= StepIn
         /\ ~ReachesTarget /\ LessFee # 0
              => StepNext = Moved(zeroForOne, liquidity, sqrtPrice, LessFee)
         /\ ~ReachesTarget /\ LessFee = 0 => StepNext = sqrtPrice
<1>1. zeroForOne \in BOOLEAN /\ Positive /\ remaining \in Nat /\ sqrtPrice \in Nat \ {0}
  BY SteppingFacts DEF TypeOK, Positive
<1>2. InToTarget = Takes(zeroForOne, liquidity, sqrtPrice, Target)
  BY DEF InToTarget, Takes, Amount0Up, Amount1Up
<1>3. StepOut = Pays(zeroForOne, liquidity, sqrtPrice, StepNext)
  BY DEF StepOut, Pays, Amount0Down, Amount1Down
<1>4. NetIn = Takes(zeroForOne, liquidity, sqrtPrice, StepNext)
  BY <1>2 DEF NetIn, StepNext, Takes, Amount0Up, Amount1Up
<1>5. Takes(zeroForOne, liquidity, sqrtPrice, StepNext) \in Nat
  <2>1. StepNext \in Nat \ {0} /\ Onward(zeroForOne, sqrtPrice, StepNext)
    BY StepFacts DEF Within, Onward
  <2>2. QED
    BY <1>1, <2>1, AmountsAreNat DEF Positive
<1>6. StepFee \in Nat
  <2>1. CASE ReachesTarget
    <3> DEFINE F == pool.fee * PipsPerBp
               D == Pips - F
    <3>1. F \in Nat /\ D \in Nat \ {0}
      BY FeeIsAPart
    <3>2. NetIn \in Nat /\ StepFee = CeilDiv(NetIn * F, D)
      BY <1>4, <1>5, <2>1 DEF StepFee
    <3> HIDE DEF F, D
    <3>3. NetIn * F \in Nat
      BY <3>1, <3>2, SMT
    <3>4. QED
      BY <3>1, <3>2, <3>3, CeilIsLeast
  <2>2. CASE ~ReachesTarget
    BY <1>1, <1>4, <1>5, <2>2 DEF StepFee
  <2>3. QED
    BY <2>1, <2>2
<1>7. NetIn <= StepIn
  BY <1>4, <1>5, <1>6, SMT DEF StepIn
<1>8. ~ReachesTarget => StepNext = NextPrice(LessFee)
  BY DEF StepNext
<1>9. QED
  BY <1>2, <1>3, <1>4, <1>7, <1>8 DEF NextPrice, Moved

----------------------------------------------------------------------------
(* Where the walk is, and where it has been.                               *)

\* The walk is between ticks n and n + 1 of the window.
At(n) == /\ n \in 0..Len(Ticks)
         /\ \A i \in DOMAIN Ticks : Ticks[i].index <= currentTick <=> i <= n

\* Going in direction d, the tick that ends range n and the range behind it.
Gate(d, n) == IF d THEN n ELSE n + 1
Behind(d, n) == IF d THEN n - 1 ELSE n + 1

\* A range of a walk: the price and liquidity it was entered with, and what had been
\* taken in and paid out by then.
Legs == [n : Nat, price : Nat \ {0}, liquidity : Int, in : Nat, out : Nat]

\* From range r a walk in direction d has crossed into range s.
Leaves(d, r, s) ==
  LET g == Gate(d, r.n)
  IN  /\ g \in DOMAIN Ticks /\ s.n = Behind(d, r.n) /\ r.liquidity > 0
      /\ s.price = Ratio(Ticks[g].index) /\ Onward(d, r.price, s.price)
      /\ s.liquidity = (IF d THEN r.liquidity - Ticks[g].net ELSE r.liquidity + Ticks[g].net)
      /\ r.in + Takes(d, r.liquidity, r.price, s.price) <= s.in
      /\ s.out <= r.out + Pays(d, r.liquidity, r.price, s.price)

\* The first k ranges of e are a walk in direction d that began within its first range.
Trail(d, e, k) ==
  /\ e[1].out = 0
  /\ \A i \in DOMAIN Ticks : i = Gate(~d, e[1].n)
                               => Onward(d, Ratio(Ticks[i].index), e[1].price)
  /\ \A j \in 1..(k - 1) : Leaves(d, e[j], e[j + 1])

\* The walk is in range r.
Here(r) == At(r.n) /\ r.liquidity = liquidity

\* On the way out.
Outbound(d, e, k) == /\ d = zeroForOne /\ Trail(d, e, k) /\ Here(e[k])
                     /\ e[k].price = sqrtPrice
                     /\ e[k].in + remaining <= amountIn
                     /\ out <= e[k].out

\* At the end of a walk in direction d, or on the way back along it: up to here the walk
\* took no more than in and paid no less than paid.
Turned(d, e, k, in, paid) ==
  /\ Trail(d, e, k) /\ Here(e[k])
  /\ Onward(d, e[k].price, sqrtPrice)
  /\ e[k].in + Takes(d, liquidity, e[k].price, sqrtPrice) <= in
  /\ paid <= e[k].out + Pays(d, liquidity, e[k].price, sqrtPrice)

AtTurn(d, e, k) == d = zeroForOne /\ Turned(d, e, k, amountIn, out)

\* What the walk to here paid covers what is left to sell, and what has been bought back
\* is covered by what the way from here on took.
Homebound(d, e, k) == d = ~zeroForOne /\ Turned(d, e, k, spent - out, remaining)

TripInv ==
  /\ status = "idle" => spent = 0
  /\ status \in {"walk", "quoted"} /\ spent = 0 => amountIn > 0
  /\ status = "walk" /\ spent = 0
       => \E d \in BOOLEAN : \E e \in [Nat -> Legs] : \E k \in Nat \ {0} : Outbound(d, e, k)
  /\ status = "quoted" /\ spent = 0
       => \E d \in BOOLEAN : \E e \in [Nat -> Legs] : \E k \in Nat \ {0} : AtTurn(d, e, k)
  /\ status = "walk" /\ spent # 0
       => \E d \in BOOLEAN : \E e \in [Nat -> Legs] : \E k \in Nat \ {0} : Homebound(d, e, k)
  /\ RoundTripLoses

\* The window in the terms of At.
LEMMA StrictWindow ==
  ASSUME TypeOK
  PROVE  /\ Len(Ticks) \in Nat /\ DOMAIN Ticks = 1..Len(Ticks)
         /\ \A i \in DOMAIN Ticks : Ticks[i].index \in Int /\ Ticks[i].net \in Int
         /\ \A i, j \in DOMAIN Ticks : i < j => Ticks[i].index < Ticks[j].index
         /\ currentTick \in Int
<1>1. \A i, j \in DOMAIN Ticks : i < j => Ticks[i].index < Ticks[j].index
  BY DEF TypeOK, WellFormed, Ticks
<1>2. currentTick \in Int
  BY DEF TypeOK
<1>3. QED
  BY <1>1, <1>2, WindowFacts

\* The walk is always in some range.
LEMMA SomeRange ==
  ASSUME TypeOK
  PROVE  \E n \in 0..Len(Ticks) : At(n)
<1> DEFINE S == {i \in DOMAIN Ticks : Ticks[i].index <= currentTick}
<1>1. /\ Len(Ticks) \in Nat /\ DOMAIN Ticks = 1..Len(Ticks)
      /\ \A i \in DOMAIN Ticks : Ticks[i].index \in Int
      /\ \A i, j \in DOMAIN Ticks : i < j => Ticks[i].index < Ticks[j].index
      /\ currentTick \in Int
  BY StrictWindow
<1>2. CASE S = {}
  <2>1. \A i \in DOMAIN Ticks : ~(Ticks[i].index <= currentTick) /\ ~(i <= 0)
    BY <1>1, <1>2, SMT
  <2>2. At(0)
    BY <1>1, <2>1 DEF At
  <2>3. QED
    BY <1>1, <2>2
<1>3. CASE S # {}
  <2>1. PICK n \in S : \A y \in S : y <= n
    BY <1>1, <1>3, GreatestNumber
  <2>2. n \in 1..Len(Ticks) /\ Ticks[n].index <= currentTick
    BY <1>1, <2>1
  <2>3. ASSUME NEW i \in DOMAIN Ticks PROVE Ticks[i].index <= currentTick <=> i <= n
    <3>1. ASSUME Ticks[i].index <= currentTick PROVE i <= n
      BY <2>1, <3>1
    <3>2. ASSUME i <= n PROVE Ticks[i].index <= currentTick
      <4>1. i = n \/ i < n
        BY <1>1, <2>2, <3>2, SMT
      <4>2. Ticks[i].index <= Ticks[n].index
        BY <1>1, <2>2, <4>1
      <4>3. Ticks[i].index \in Int /\ Ticks[n].index \in Int
        BY <1>1, <2>2
      <4>4. QED
        BY <1>1, <2>2, <4>2, <4>3, SMT
    <3>3. QED
      BY <3>1, <3>2
  <2>4. At(n)
    BY <1>1, <2>2, <2>3 DEF At
  <2>5. QED
    BY <1>1, <2>2, <2>4
<1>4. QED
  BY <1>2, <1>3

\* The tick that ends the range is the next one, if there is one in reach.
LEMMA GateIsNext ==
  ASSUME TypeOK, NEW n, At(n), InReach # {}
  PROVE  Gate(zeroForOne, n) \in DOMAIN Ticks /\ NextTick = Ticks[Gate(zeroForOne, n)]
<1> DEFINE g == Gate(zeroForOne, n)
           Best(i) == \A j \in InReach : IF zeroForOne THEN j <= i ELSE i <= j
<1>1. /\ Len(Ticks) \in Nat /\ DOMAIN Ticks = 1..Len(Ticks)
      /\ \A i \in DOMAIN Ticks : Ticks[i].index \in Int
      /\ currentTick \in Int
  BY StrictWindow
<1>2. n \in 0..Len(Ticks) /\ \A i \in DOMAIN Ticks : Ticks[i].index <= currentTick <=> i <= n
  BY DEF At
<1>3. InReach = {i \in 1..Len(Ticks) : IF zeroForOne THEN i <= n ELSE i > n}
  <2>1. \A i \in DOMAIN Ticks : Ticks[i].index > currentTick <=> i > n
    BY <1>1, <1>2, SMT
  <2>2. QED
    BY <1>1, <1>2, <2>1 DEF InReach
<1>4. g \in InReach /\ Best(g)
  BY <1>1, <1>2, <1>3, SMT DEF Gate
<1>5. ASSUME NEW i \in InReach, Best(i) PROVE i = g
  <2>1. IF zeroForOne THEN g <= i /\ i <= g ELSE i <= g /\ g <= i
    BY <1>4, <1>5
  <2>2. i \in Int /\ g \in Int
    BY <1>1, <1>3, <1>4
  <2> HIDE DEF g
  <2>3. QED
    BY <2>1, <2>2, SMT
<1>6. (CHOOSE i \in InReach : Best(i)) = g
  BY <1>4, <1>5, Zenon
<1>7. QED
  BY <1>1, <1>3, <1>4, <1>6 DEF NextTick

\* Crossing it leads into the range behind.
LEMMA CrossIsBehind ==
  ASSUME SwapInv, Cross, NEW n, At(n)
  PROVE  At(Behind(zeroForOne, n))'
<1>1. TypeOK /\ InReach # {}
  BY DEF SwapInv, Cross, CanStep
<1>2. Gate(zeroForOne, n) \in DOMAIN Ticks /\ NextTick = Ticks[Gate(zeroForOne, n)]
  BY <1>1, GateIsNext
<1>3. /\ Len(Ticks) \in Nat /\ DOMAIN Ticks = 1..Len(Ticks)
      /\ \A i \in DOMAIN Ticks : Ticks[i].index \in Int
      /\ \A i, j \in DOMAIN Ticks : i < j => Ticks[i].index < Ticks[j].index
  BY <1>1, StrictWindow
<1>4. n \in 0..Len(Ticks)
  BY DEF At
<1>5. /\ Ticks' = Ticks /\ zeroForOne' = zeroForOne
      /\ currentTick' = IF zeroForOne THEN NextTick.index - 1 ELSE NextTick.index
  BY DEF Cross, Ticks
<1>6. PICK g \in DOMAIN Ticks : g = Gate(zeroForOne, n) /\ NextTick = Ticks[g]
  BY <1>2
<1>7. \A i \in DOMAIN Ticks : /\ Ticks[i].index <= Ticks[g].index <=> i <= g
                              /\ Ticks[i].index <= Ticks[g].index - 1 <=> i <= g - 1
  <2>1. SUFFICES ASSUME NEW i \in DOMAIN Ticks
                 PROVE  /\ Ticks[i].index <= Ticks[g].index <=> i <= g
                        /\ Ticks[i].index <= Ticks[g].index - 1 <=> i <= g - 1
    OBVIOUS
  <2>2. Ticks[i].index \in Int /\ Ticks[g].index \in Int /\ i \in Int /\ g \in Int
    BY <1>3
  <2>3. /\ i < g => Ticks[i].index < Ticks[g].index
        /\ g < i => Ticks[g].index < Ticks[i].index
        /\ i = g => Ticks[g].index = Ticks[i].index
    BY <1>3
  <2>4. QED
    BY <2>2, <2>3, SMT
<1>8. CASE zeroForOne
  <2>1. g = n /\ currentTick' = Ticks[g].index - 1 /\ Behind(zeroForOne', n) = n - 1
    BY <1>5, <1>6, <1>8 DEF Gate, Behind
  <2>2. n - 1 \in 0..Len(Ticks)
    BY <1>3, <1>4, <2>1, SMT
  <2>3. QED
    BY <1>5, <1>7, <2>1, <2>2 DEF At
<1>9. CASE ~zeroForOne
  <2>1. g = n + 1 /\ currentTick' = Ticks[g].index /\ Behind(zeroForOne', n) = n + 1
    BY <1>5, <1>6, <1>9 DEF Gate, Behind
  <2>2. n + 1 \in 0..Len(Ticks)
    BY <1>3, <1>4, <2>1, SMT
  <2>3. QED
    BY <1>5, <1>7, <2>1, <2>2 DEF At
<1>10. QED
  BY <1>8, <1>9

\* A trail is about the window only.
LEMMA SameTrail ==
  ASSUME NEW d, NEW e, NEW k, Ticks' = Ticks, Trail(d, e, k)
  PROVE  Trail(d, e, k)'
BY DEF Trail, Leaves

----------------------------------------------------------------------------
(* The steps of a round trip.                                              *)

\* The ranges of a trail have their types.
LEMMA LegTypes ==
  ASSUME NEW r \in Legs
  PROVE  /\ r.n \in Nat /\ r.price \in Nat \ {0} /\ r.liquidity \in Int
         /\ r.in \in Nat /\ r.out \in Nat
BY DEF Legs

\* A quote begins within a range.
LEMMA AskSetsOut ==
  ASSUME SwapInv, TripInv, NEW a \in Inputs, NEW dir \in BOOLEAN, Ask(a, dir)
  PROVE  TripInv'
<1>1. /\ status' = "walk" /\ spent' = 0 /\ zeroForOne' = dir /\ amountIn' = a
      /\ remaining' = a /\ out' = 0 /\ a > 0 /\ Ticks' = Ticks
      /\ sqrtPrice' = pool.price /\ liquidity' = pool.liquidity /\ currentTick' = pool.tick
  BY DEF Ask, Servable, TripInv, Ticks
<1>2. a \in Int /\ SwapInv'
  BY SwapAssumption, AskKeeps
<1>3. TypeOK' /\ NeverOvershoots'
  BY <1>2 DEF SwapInv
<1>4. (\E n \in 0..Len(Ticks) : At(n))'
  BY <1>3, SomeRange, PTL
<1>5. PICK n \in 0..Len(Ticks') : At(n)'
  BY <1>4
<1>6. (/\ Len(Ticks) \in Nat /\ DOMAIN Ticks = 1..Len(Ticks)
       /\ \A i \in DOMAIN Ticks : Ticks[i].index \in Int /\ Ticks[i].net \in Int
       /\ currentTick \in Int)'
  BY <1>3, StrictWindow, PTL
<1>7. PICK r : r = [n |-> n, price |-> pool.price, liquidity |-> pool.liquidity,
                    in |-> 0, out |-> 0]
  OBVIOUS
<1>8. r \in Legs
  <2>1. n \in Nat
    BY <1>5, <1>6, SMT
  <2>2. pool.price \in Nat \ {0} /\ pool.liquidity \in Int
    BY DEF SwapInv, TypeOK, WellFormed
  <2>3. QED
    BY <1>7, <2>1, <2>2 DEF Legs
<1>9. PICK e : e = [j \in Nat |-> r]
  OBVIOUS
<1>10. e \in [Nat -> Legs] /\ e[1] = r
  BY <1>8, <1>9
<1>11. ASSUME NEW i \in DOMAIN Ticks', i = Gate(~dir, n)
       PROVE  Onward(dir, Ratio(Ticks'[i].index), sqrtPrice')
  <2>1. Ticks'[i].index <= currentTick' <=> i <= n
    BY <1>5 DEF At
  <2>2. Ticks'[i].index \in Int /\ currentTick' \in Int /\ n \in Int /\ i \in Int
    BY <1>5, <1>6
  <2>3. CASE dir
    <3>1. Ticks'[i].index > currentTick'
      BY <1>11, <2>1, <2>2, <2>3, SMT DEF Gate
    <3>2. QED
      BY <1>3, <2>3, <3>1 DEF NeverOvershoots, Onward
  <2>4. CASE ~dir
    <3>1. Ticks'[i].index <= currentTick'
      BY <1>11, <2>1, <2>2, <2>4, SMT DEF Gate
    <3>2. QED
      BY <1>3, <2>4, <3>1 DEF NeverOvershoots, Onward
  <2>5. QED
    BY <2>3, <2>4
<1>12. Trail(dir, e, 1)'
  <2>1. \A j \in 1..(1 - 1) : FALSE
    BY SMT
  <2>2. e[1].out = 0 /\ e[1].n = n /\ e[1].price = sqrtPrice'
    BY <1>1, <1>7, <1>10
  <2>3. QED
    BY <1>11, <2>1, <2>2 DEF Trail
<1>13. Outbound(dir, e, 1)'
  <2>1. /\ e[1].n = n /\ e[1].price = sqrtPrice' /\ e[1].liquidity = liquidity'
        /\ e[1].in = 0 /\ e[1].out = 0
    BY <1>1, <1>7, <1>10
  <2>2. e[1].in + remaining' <= amountIn' /\ out' <= e[1].out
    BY <1>1, <1>2, <2>1, SMT
  <2>3. QED
    BY <1>1, <1>5, <1>12, <2>1, <2>2 DEF Outbound, Here
<1>14. (status = "walk" /\ spent = 0
          => \E d \in BOOLEAN : \E f \in [Nat -> Legs] : \E k \in Nat \ {0} : Outbound(d, f, k))'
  <2>1. 1 \in Nat \ {0}
    BY SMT
  <2>2. QED
    BY <1>10, <1>13, <2>1
<1>15. QED
  BY <1>1, <1>14 DEF TripInv, RoundTripLoses

\* What is known when a step is taken.
LEMMA StepOnward ==
  ASSUME Stepping
  PROVE  /\ zeroForOne \in BOOLEAN /\ liquidity \in Nat \ {0} /\ sqrtPrice \in Nat \ {0}
         /\ StepNext \in Nat \ {0} /\ Target \in Nat \ {0}
         /\ Onward(zeroForOne, sqrtPrice, StepNext) /\ Onward(zeroForOne, StepNext, Target)
         /\ remaining \in Nat \ {0} /\ StepIn \in Nat /\ StepIn <= remaining /\ StepOut \in Nat
         /\ out \in Nat /\ amountIn \in Int /\ spent \in Int
         /\ LessFee \in Nat /\ LessFee <= remaining
BY SteppingFacts, StepFacts, TargetAhead, FeeIsAPart DEF TypeOK, Positive, Within, Onward

\* Crossing a tick on the way out adds a range to the trail.
LEMMA CrossOut ==
  ASSUME SwapInv, Cross, NEW d \in BOOLEAN, NEW e \in [Nat -> Legs], NEW k \in Nat \ {0},
         Outbound(d, e, k)
  PROVE  \E f \in [Nat -> Legs] : \E m \in Nat \ {0} : Outbound(d, f, m)'
<1>1. Stepping /\ ReachesTarget
  BY DEF Cross, Stepping
<1>2. StepNext = Target
  BY <1>1, BoundaryIsPaidFor
<1>3. /\ d = zeroForOne /\ Trail(d, e, k) /\ At(e[k].n) /\ e[k].liquidity = liquidity
      /\ e[k].price = sqrtPrice /\ e[k].in + remaining <= amountIn /\ out <= e[k].out
  BY DEF Outbound, Here
<1>4. /\ zeroForOne' = d /\ sqrtPrice' = StepNext /\ out' = out + StepOut
      /\ remaining' = remaining - StepIn /\ amountIn' = amountIn /\ Ticks' = Ticks
      /\ liquidity' = IF d THEN liquidity - NextTick.net ELSE liquidity + NextTick.net
  BY <1>3 DEF Cross, TakeStep, Ticks
<1>5. e[k] \in Legs
  BY SMT
<1>6. /\ e[k].n \in Nat /\ e[k].in \in Nat /\ e[k].out \in Nat
  BY <1>5, LegTypes
<1>7. Gate(d, e[k].n) \in DOMAIN Ticks /\ NextTick = Ticks[Gate(d, e[k].n)]
  BY <1>1, <1>3, SteppingFacts, GateIsNext
<1>8. Target = Ratio(Ticks[Gate(d, e[k].n)].index)
  BY <1>7 DEF Target
<1>9. At(Behind(d, e[k].n))'
  <2>1. At(Behind(zeroForOne, e[k].n))'
    BY <1>3, CrossIsBehind
  <2>2. QED
    BY <1>4, <2>1 DEF At
<1>10. /\ liquidity \in Nat \ {0} /\ StepNext \in Nat \ {0} /\ StepOut \in Nat
       /\ Onward(d, sqrtPrice, StepNext)
       /\ remaining \in Nat /\ StepIn \in Nat /\ StepIn <= remaining
       /\ out \in Nat /\ amountIn \in Int
       /\ Takes(d, liquidity, sqrtPrice, StepNext) <= StepIn
       /\ StepOut = Pays(d, liquidity, sqrtPrice, StepNext)
       /\ Takes(d, liquidity, sqrtPrice, StepNext) \in Nat
       /\ Pays(d, liquidity, sqrtPrice, StepNext) \in Nat
  BY <1>1, <1>3, StepOnward, StepAmounts, AmountsAreNat
<1>11. Behind(d, e[k].n) \in Nat /\ liquidity' \in Int
  <2>1. Behind(d, e[k].n) \in Nat
    BY <1>9, SMT DEF At
  <2>2. SwapInv'
    BY CrossKeeps
  <2>3. QED
    BY <2>1, <2>2 DEF SwapInv, TypeOK
<1>12. PICK r : r = [n |-> Behind(d, e[k].n), price |-> StepNext, liquidity |-> liquidity',
                     in |-> e[k].in + StepIn, out |-> e[k].out + StepOut]
  OBVIOUS
<1>13. r \in Legs
  <2>1. e[k].in + StepIn \in Nat /\ e[k].out + StepOut \in Nat
    BY <1>6, <1>10, SMT
  <2>2. QED
    BY <1>10, <1>11, <1>12, <2>1 DEF Legs
<1>14. PICK f : f = [e EXCEPT ![k + 1] = r]
  OBVIOUS
<1>15. /\ f \in [Nat -> Legs] /\ k + 1 \in Nat \ {0} /\ f[k + 1] = r
       /\ \A j \in 1..k : f[j] = e[j]
  BY <1>13, <1>14, SMT
<1>16. Leaves(d, e[k], r)
  <2>0. e[k].liquidity > 0
    BY <1>3, <1>10, SMT
  <2>1. /\ r.n = Behind(d, e[k].n) /\ r.price = StepNext /\ r.liquidity = liquidity'
        /\ r.in = e[k].in + StepIn /\ r.out = e[k].out + StepOut
    BY <1>12
  <2>2. /\ e[k].in + Takes(d, e[k].liquidity, e[k].price, r.price) <= r.in
        /\ r.out <= e[k].out + Pays(d, e[k].liquidity, e[k].price, r.price)
    BY <1>3, <1>6, <1>10, <2>1, SMT
  <2>3. QED
    BY <1>2, <1>3, <1>4, <1>7, <1>8, <1>10, <2>0, <2>1, <2>2, Zenon DEF Leaves
<1>17. Trail(d, f, k + 1)
  <2>1. ASSUME NEW j \in 1..((k + 1) - 1) PROVE Leaves(d, f[j], f[j + 1])
    <3>1. CASE j = k
      BY <1>15, <1>16, <3>1
    <3>2. CASE j # k
      <4>1. j \in 1..(k - 1) /\ j \in 1..k /\ j + 1 \in 1..k
        BY <3>2, SMT
      <4>2. Leaves(d, e[j], e[j + 1])
        BY <1>3, <4>1 DEF Trail
      <4>3. QED
        BY <1>15, <4>1, <4>2
    <3>3. QED
      BY <3>1, <3>2
  <2>2. f[1] = e[1]
    BY <1>15, SMT
  <2>3. QED
    BY <1>3, <2>1, <2>2 DEF Trail
<1>18. Trail(d, f, k + 1)'
  BY <1>4, <1>17, SameTrail
<1>19. /\ f[k + 1].n = Behind(d, e[k].n) /\ f[k + 1].price = sqrtPrice'
       /\ f[k + 1].liquidity = liquidity'
       /\ f[k + 1].in = e[k].in + StepIn /\ f[k + 1].out = e[k].out + StepOut
  BY <1>4, <1>12, <1>15
<1>20. f[k + 1].in + remaining' <= amountIn' /\ out' <= f[k + 1].out
  BY <1>3, <1>4, <1>6, <1>10, <1>19, SMT
<1>21. Outbound(d, f, k + 1)'
  BY <1>4, <1>9, <1>18, <1>19, <1>20 DEF Outbound, Here
<1>22. QED
  BY <1>15, <1>21

\* A quote that ends on the way out is at the turn.
LEMMA QuotedOut ==
  ASSUME SwapInv, Quoted, NEW d \in BOOLEAN, NEW e \in [Nat -> Legs], NEW k \in Nat \ {0},
         Outbound(d, e, k)
  PROVE  AtTurn(d, e, k)'
<1>1. Stepping
  BY DEF Quoted, Stepping
<1>2. /\ d = zeroForOne /\ Trail(d, e, k) /\ At(e[k].n) /\ e[k].liquidity = liquidity
      /\ e[k].price = sqrtPrice /\ e[k].in + remaining <= amountIn /\ out <= e[k].out
  BY DEF Outbound, Here
<1>3. /\ zeroForOne' = d /\ sqrtPrice' = StepNext /\ out' = out + StepOut
      /\ amountIn' = amountIn /\ Ticks' = Ticks /\ liquidity' = liquidity
      /\ currentTick' = currentTick /\ remaining - StepIn <= 0
  BY <1>2 DEF Quoted, TakeStep, Ticks
<1>4. e[k] \in Legs
  BY SMT
<1>5. e[k].in \in Nat /\ e[k].out \in Nat
  BY <1>4, LegTypes
<1>6. /\ liquidity \in Nat \ {0} /\ Onward(d, sqrtPrice, StepNext)
      /\ StepOut \in Nat /\ remaining \in Nat /\ StepIn \in Nat /\ StepIn <= remaining
      /\ out \in Nat /\ amountIn \in Int
      /\ Takes(d, liquidity, sqrtPrice, StepNext) <= StepIn
      /\ StepOut = Pays(d, liquidity, sqrtPrice, StepNext)
      /\ Takes(d, liquidity, sqrtPrice, StepNext) \in Nat
  BY <1>1, <1>2, StepOnward, StepAmounts, AmountsAreNat
<1>7. /\ e[k].in + Takes(d, liquidity, sqrtPrice, StepNext) <= amountIn
      /\ out + StepOut <= e[k].out + Pays(d, liquidity, sqrtPrice, StepNext)
  BY <1>2, <1>5, <1>6, SMT
<1>8. Trail(d, e, k)'
  BY <1>2, <1>3, SameTrail
<1>9. At(e[k].n)'
  BY <1>2, <1>3 DEF At
<1>10. QED
  BY <1>2, <1>3, <1>6, <1>7, <1>8, <1>9 DEF AtTurn, Turned, Here

\* The output is offered back.
LEMMA TurnsBack ==
  ASSUME SwapInv, AskBack, NEW d \in BOOLEAN, NEW e \in [Nat -> Legs], NEW k \in Nat \ {0},
         AtTurn(d, e, k)
  PROVE  Homebound(d, e, k)'
<1>1. /\ d = zeroForOne /\ Trail(d, e, k) /\ At(e[k].n) /\ e[k].liquidity = liquidity
      /\ Onward(d, e[k].price, sqrtPrice)
      /\ e[k].in + Takes(d, liquidity, e[k].price, sqrtPrice) <= amountIn
      /\ out <= e[k].out + Pays(d, liquidity, e[k].price, sqrtPrice)
  BY DEF AtTurn, Turned, Here
<1>2. /\ Ticks' = Ticks /\ liquidity' = liquidity /\ sqrtPrice' = sqrtPrice
      /\ currentTick' = currentTick /\ zeroForOne' = ~zeroForOne
      /\ spent' = amountIn /\ remaining' = out /\ out' = 0
  BY DEF AskBack, Ticks, SwapInv, TypeOK, WellFormed
<1>3. d = ~zeroForOne'
  BY <1>1, <1>2, Zenon DEF SwapInv, TypeOK
<1>4. spent' - out' = amountIn
  BY <1>2 DEF SwapInv, TypeOK
<1>5. Trail(d, e, k)'
  BY <1>1, <1>2, SameTrail
<1>6. At(e[k].n)'
  BY <1>1, <1>2 DEF At
<1>7. QED
  BY <1>1, <1>2, <1>3, <1>4, <1>5, <1>6 DEF Homebound, Turned, Here

\* Going back and forth through the same gate.
LEMMA SameGate ==
  ASSUME NEW d \in BOOLEAN, NEW n \in Nat
  PROVE  Gate(~d, Behind(d, n)) = Gate(d, n) /\ Behind(~d, Behind(d, n)) = n
BY SMT DEF Gate, Behind

\* What is known of a step on the way back.
LEMMA HomeFacts ==
  ASSUME Stepping, NEW d \in BOOLEAN, NEW e \in [Nat -> Legs], NEW k \in Nat \ {0},
         Homebound(d, e, k)
  PROVE  /\ zeroForOne = ~d /\ Trail(d, e, k) /\ At(e[k].n) /\ e[k].liquidity = liquidity
         /\ e[k] \in Legs
         /\ e[k].in \in Nat /\ e[k].out \in Nat /\ e[k].n \in Nat /\ e[k].price \in Nat \ {0}
         /\ Onward(d, e[k].price, sqrtPrice)
         /\ Takes(d, liquidity, e[k].price, sqrtPrice) \in Nat
         /\ Pays(d, liquidity, e[k].price, sqrtPrice) \in Nat
         /\ e[k].in + Takes(d, liquidity, e[k].price, sqrtPrice) <= spent - out
         /\ remaining <= e[k].out + Pays(d, liquidity, e[k].price, sqrtPrice)
         /\ Gate(~d, e[k].n) \in DOMAIN Ticks
         /\ NextTick = Ticks[Gate(~d, e[k].n)]
         /\ Target = Ratio(Ticks[Gate(~d, e[k].n)].index)
<1>1. /\ d = ~zeroForOne /\ Trail(d, e, k) /\ At(e[k].n) /\ e[k].liquidity = liquidity
      /\ Onward(d, e[k].price, sqrtPrice)
      /\ e[k].in + Takes(d, liquidity, e[k].price, sqrtPrice) <= spent - out
      /\ remaining <= e[k].out + Pays(d, liquidity, e[k].price, sqrtPrice)
  BY DEF Homebound, Turned, Here
<1>2. zeroForOne = ~d
  BY <1>1, StepOnward, Zenon
<1>3. e[k] \in Legs
  BY SMT
<1>4. /\ e[k].in \in Nat /\ e[k].out \in Nat /\ e[k].n \in Nat /\ e[k].price \in Nat \ {0}
  BY <1>3, LegTypes
<1>5. /\ Takes(d, liquidity, e[k].price, sqrtPrice) \in Nat
      /\ Pays(d, liquidity, e[k].price, sqrtPrice) \in Nat
  BY <1>1, <1>4, StepOnward, AmountsAreNat
<1>6. /\ Gate(zeroForOne, e[k].n) \in DOMAIN Ticks
      /\ NextTick = Ticks[Gate(zeroForOne, e[k].n)]
  BY <1>1, SteppingFacts, GateIsNext
<1>7. QED
  BY <1>1, <1>2, <1>3, <1>4, <1>5, <1>6 DEF Target

\* In a range that was entered by crossing a tick, that tick is the target of the way
\* back.
LEMMA TargetIsEntry ==
  ASSUME Stepping, NEW d \in BOOLEAN, NEW e \in [Nat -> Legs], NEW k \in Nat \ {0}, k # 1,
         Homebound(d, e, k)
  PROVE  /\ Leaves(d, e[k - 1], e[k]) /\ e[k - 1] \in Legs
         /\ Target = e[k].price
         /\ Gate(d, e[k - 1].n) = Gate(~d, e[k].n)
         /\ Behind(~d, e[k].n) = e[k - 1].n
<1>1. k - 1 \in 1..(k - 1) /\ (k - 1) + 1 = k /\ k - 1 \in Nat
  BY SMT
<1>2. Leaves(d, e[k - 1], e[k])
  BY <1>1, HomeFacts DEF Trail
<1>3. e[k - 1] \in Legs
  BY <1>1
<1>4. e[k - 1].n \in Nat
  BY <1>3, LegTypes
<1>5. e[k].n = Behind(d, e[k - 1].n)
  BY <1>2 DEF Leaves
<1>6. Gate(d, e[k - 1].n) = Gate(~d, e[k].n) /\ Behind(~d, e[k].n) = e[k - 1].n
  BY <1>4, <1>5, SameGate
<1>7. Target = e[k].price
  BY <1>2, <1>6, HomeFacts DEF Leaves
<1>8. QED
  BY <1>2, <1>3, <1>6, <1>7

\* In the range the trip began in, a tick that is reached is where it began.
LEMMA TargetIsStart ==
  ASSUME Stepping, NEW d \in BOOLEAN, NEW e \in [Nat -> Legs], Homebound(d, e, 1),
         ReachesTarget
  PROVE  Target = e[1].price
<1>1. 1 \in Nat \ {0}
  BY SMT
<1>2. /\ zeroForOne = ~d /\ Trail(d, e, 1) /\ e[1].price \in Nat \ {0}
      /\ Onward(d, e[1].price, sqrtPrice)
      /\ Pays(d, liquidity, e[1].price, sqrtPrice) \in Nat
      /\ remaining <= e[1].out + Pays(d, liquidity, e[1].price, sqrtPrice)
      /\ Gate(~d, e[1].n) \in DOMAIN Ticks
      /\ Target = Ratio(Ticks[Gate(~d, e[1].n)].index)
  BY <1>1, HomeFacts
<1>3. e[1].out = 0 /\ Onward(d, Target, e[1].price)
  BY <1>2 DEF Trail
<1>4. /\ liquidity \in Nat \ {0} /\ sqrtPrice \in Nat \ {0} /\ Target \in Nat \ {0}
      /\ remaining \in Nat /\ LessFee \in Nat /\ LessFee <= remaining
      /\ InToTarget = Takes(~d, liquidity, sqrtPrice, Target)
  BY <1>2, StepOnward, StepAmounts
<1>5. LessFee <= Pays(d, liquidity, e[1].price, sqrtPrice)
  BY <1>2, <1>3, <1>4, SMT
<1>6. Takes(~d, liquidity, sqrtPrice, Target) <= LessFee
  <2>1. Takes(~d, liquidity, sqrtPrice, Target) \in Nat
    <3>1. Onward(~d, sqrtPrice, Target)
      BY <1>2, TargetAhead DEF Onward
    <3>2. (~d) \in BOOLEAN
      BY Zenon
    <3>3. QED
      BY <1>4, <3>1, <3>2, AmountsAreNat
  <2>2. LessFee >= Takes(~d, liquidity, sqrtPrice, Target)
    BY <1>4 DEF ReachesTarget
  <2>3. QED
    BY <1>4, <2>1, <2>2, SMT
<1>7. QED
  BY <1>2, <1>3, <1>4, <1>5, <1>6, BackStopsAtStart

\* Whichever range it is, the way back does not leave it, and pays no more than the way
\* out took there.
LEMMA HomeStep ==
  ASSUME Stepping, NEW d \in BOOLEAN, NEW e \in [Nat -> Legs], NEW k \in Nat \ {0},
         Homebound(d, e, k)
  PROVE  StepOut <= Takes(d, liquidity, e[k].price, sqrtPrice)
<1>1. /\ zeroForOne = ~d /\ e[k].price \in Nat \ {0}
      /\ Onward(d, e[k].price, sqrtPrice) /\ e[k].out \in Nat
      /\ Pays(d, liquidity, e[k].price, sqrtPrice) \in Nat
      /\ remaining <= e[k].out + Pays(d, liquidity, e[k].price, sqrtPrice)
      /\ Trail(d, e, k)
  BY HomeFacts
<1>2. /\ liquidity \in Nat \ {0} /\ sqrtPrice \in Nat \ {0} /\ StepNext \in Nat \ {0}
      /\ Onward(~d, sqrtPrice, StepNext) /\ Onward(~d, StepNext, Target)
      /\ remaining \in Nat /\ LessFee \in Nat /\ LessFee <= remaining
      /\ Target \in Nat \ {0}
  BY <1>1, StepOnward
<1>3. Onward(d, StepNext, sqrtPrice) /\ Onward(d, Target, StepNext)
  BY <1>2 DEF Onward
<1>4. Onward(d, e[k].price, StepNext)
  <2>1. CASE k # 1
    BY <1>3, <2>1, TargetIsEntry
  <2>2. CASE k = 1 /\ ReachesTarget
    BY <1>3, <2>2, TargetIsStart
  <2>3. CASE k = 1 /\ ~ReachesTarget /\ LessFee = 0
    BY <1>1, <2>3, StepAmounts
  <2>4. CASE k = 1 /\ ~ReachesTarget /\ LessFee # 0
    <3>1. StepNext = Moved(~d, liquidity, sqrtPrice, LessFee)
      BY <1>1, <2>4, StepAmounts
    <3>2. e[k].out = 0
      BY <1>1, <2>4 DEF Trail
    <3>3. LessFee <= Pays(d, liquidity, e[k].price, sqrtPrice)
      BY <1>1, <1>2, <3>2, SMT
    <3>4. QED
      BY <1>1, <1>2, <3>1, <3>3, BackStopsBeforeStart
  <2>5. QED
    BY <2>1, <2>2, <2>3, <2>4
<1>5. StepOut = Pays(~d, liquidity, sqrtPrice, StepNext)
  BY <1>1, StepAmounts
<1>6. QED
  BY <1>1, <1>2, <1>3, <1>4, <1>5, BackPaysLess

\* A quote that ends on the way back has lost.
LEMMA QuotedHome ==
  ASSUME SwapInv, Quoted, NEW d \in BOOLEAN, NEW e \in [Nat -> Legs], NEW k \in Nat \ {0},
         Homebound(d, e, k)
  PROVE  out' <= spent
<1>1. Stepping
  BY DEF Quoted, Stepping
<1>2. out' = out + StepOut
  BY DEF Quoted, TakeStep
<1>3. /\ e[k].in \in Nat
      /\ Takes(d, liquidity, e[k].price, sqrtPrice) \in Nat
      /\ e[k].in + Takes(d, liquidity, e[k].price, sqrtPrice) <= spent - out
      /\ StepOut <= Takes(d, liquidity, e[k].price, sqrtPrice)
  BY <1>1, HomeFacts, HomeStep
<1>4. out \in Nat /\ spent \in Int /\ StepOut \in Nat
  BY <1>1, StepOnward
<1>5. QED
  BY <1>2, <1>3, <1>4, SMT

\* A tick crossed on the way back is the one by which the range was entered.
LEMMA CrossHome ==
  ASSUME SwapInv, Cross, NEW d \in BOOLEAN, NEW e \in [Nat -> Legs], NEW k \in Nat \ {0},
         Homebound(d, e, k)
  PROVE  k # 1 /\ Homebound(d, e, k - 1)'
<1> DEFINE l == liquidity
           a == e[k].price
           b == sqrtPrice
<1>1. Stepping /\ ReachesTarget /\ remaining - StepIn > 0
  BY DEF Cross, Stepping
<1>2. StepNext = Target
  BY <1>1, BoundaryIsPaidFor
<1>3. /\ zeroForOne = ~d /\ Trail(d, e, k) /\ At(e[k].n) /\ e[k].liquidity = l
      /\ e[k].in \in Nat /\ e[k].out \in Nat /\ a \in Nat \ {0} /\ Onward(d, a, b)
      /\ Takes(d, l, a, b) \in Nat /\ Pays(d, l, a, b) \in Nat
      /\ e[k].in + Takes(d, l, a, b) <= spent - out
      /\ remaining <= e[k].out + Pays(d, l, a, b)
      /\ Gate(~d, e[k].n) \in DOMAIN Ticks /\ NextTick = Ticks[Gate(~d, e[k].n)]
  BY <1>1, HomeFacts
<1>4. /\ l \in Nat \ {0} /\ b \in Nat \ {0}
      /\ remaining \in Nat /\ StepIn \in Nat /\ StepOut \in Nat
      /\ out \in Nat /\ spent \in Int
      /\ Takes(~d, l, b, Target) <= StepIn
  BY <1>1, <1>2, <1>3, StepOnward, StepAmounts
<1>5. Target = a
  BY <1>1, TargetIsEntry, TargetIsStart
<1>6. Pays(d, l, a, b) <= Takes(~d, l, b, a) /\ Takes(~d, l, b, a) \in Nat
  <2>1. (~d) \in BOOLEAN /\ Onward(~d, b, a)
    BY <1>3 DEF Onward
  <2>2. QED
    BY <1>3, <1>4, <2>1, BackTakesMore, AmountsAreNat
<1> HIDE DEF l, a, b
<1>7. remaining - StepIn <= e[k].out
  BY <1>3, <1>4, <1>5, <1>6, SMT
<1>8. k # 1
  <2>1. SUFFICES ASSUME k = 1 PROVE FALSE
    OBVIOUS
  <2>2. e[k].out = 0
    BY <1>3, <2>1 DEF Trail
  <2>3. QED
    BY <1>1, <1>4, <1>7, <2>2, SMT
<1>9. PICK r : r = e[k - 1]
  OBVIOUS
<1>10. /\ Leaves(d, r, e[k]) /\ r \in Legs
       /\ Gate(d, r.n) = Gate(~d, e[k].n) /\ Behind(~d, e[k].n) = r.n
  BY <1>1, <1>8, <1>9, TargetIsEntry
<1>11. /\ r.in \in Nat /\ r.out \in Nat /\ r.price \in Nat \ {0} /\ r.liquidity \in Int
  BY <1>10, LegTypes
<1>12. /\ Onward(d, r.price, a) /\ r.liquidity > 0
       /\ l = (IF d THEN r.liquidity - NextTick.net ELSE r.liquidity + NextTick.net)
       /\ r.in + Takes(d, r.liquidity, r.price, a) <= e[k].in
       /\ e[k].out <= r.out + Pays(d, r.liquidity, r.price, a)
  BY <1>3, <1>10, Zenon DEF Leaves, a
<1>13. /\ zeroForOne' = ~d /\ sqrtPrice' = a /\ out' = out + StepOut /\ spent' = spent
       /\ remaining' = remaining - StepIn /\ Ticks' = Ticks
       /\ liquidity' = IF d THEN l + NextTick.net ELSE l - NextTick.net
  BY <1>2, <1>3, <1>5 DEF Cross, TakeStep, Ticks, l
<1>14. liquidity' = r.liquidity
  <2>1. NextTick.net \in Int
    BY <1>1, TargetAhead
  <2>2. QED
    BY <1>11, <1>12, <1>13, <2>1, SMT
<1>15. At(r.n)'
  <2>1. At(Behind(zeroForOne, e[k].n))'
    BY <1>3, CrossIsBehind
  <2>2. QED
    BY <1>10, <1>13, <2>1 DEF At
<1>16. Takes(d, r.liquidity, r.price, a) \in Nat /\ Pays(d, r.liquidity, r.price, a) \in Nat
  <2>1. r.liquidity \in Nat \ {0}
    BY <1>11, <1>12, SMT
  <2>2. QED
    BY <1>3, <1>11, <1>12, <2>1, AmountsAreNat
<1>17. StepOut <= Takes(d, l, a, b)
  BY <1>1, HomeStep DEF l, a, b
<1>18. r.in + Takes(d, r.liquidity, r.price, a) <= spent - (out + StepOut)
  BY <1>3, <1>4, <1>11, <1>12, <1>16, <1>17, SMT
<1>19. remaining - StepIn <= r.out + Pays(d, r.liquidity, r.price, a)
  BY <1>3, <1>4, <1>7, <1>11, <1>12, <1>16, SMT
<1>20. Trail(d, e, k - 1)'
  <2>1. \A j \in 1..((k - 1) - 1) : j \in 1..(k - 1)
    BY SMT
  <2>2. Trail(d, e, k - 1)
    BY <1>3, <2>1 DEF Trail
  <2>3. QED
    BY <1>13, <2>2, SameTrail
<1>21. d = ~zeroForOne'
  BY <1>13, Zenon
<1>22. Homebound(d, e, k - 1)'
  BY <1>9, <1>12, <1>13, <1>14, <1>15, <1>18, <1>19, <1>20, <1>21
  DEF Homebound, Turned, Here
<1>23. QED
  BY <1>8, <1>22

\* Every step keeps the invariant of a round trip.
LEMMA NextTrip == SwapInv /\ TripInv /\ [Next]_vars => TripInv'
<1> SUFFICES ASSUME SwapInv, TripInv, [Next]_vars PROVE TripInv'
  OBVIOUS
<1>1. ASSUME NEW a \in Inputs, Refuse(a) PROVE TripInv'
  BY <1>1 DEF Refuse, TripInv, RoundTripLoses
<1>2. ASSUME NEW a \in Inputs, NEW dir \in BOOLEAN, Ask(a, dir) PROVE TripInv'
  BY <1>2, AskSetsOut
<1>3. CASE Quoted
  <2>1. status = "walk" /\ status' = "quoted" /\ spent' = spent /\ amountIn' = amountIn
    BY <1>3 DEF Quoted
  <2>2. CASE spent = 0
    <3>1. PICK d \in BOOLEAN, e \in [Nat -> Legs], k \in Nat \ {0} : Outbound(d, e, k)
      BY <2>1, <2>2 DEF TripInv
    <3>2. AtTurn(d, e, k)'
      BY <1>3, <3>1, QuotedOut
    <3>3. QED
      BY <2>1, <2>2, <3>2 DEF TripInv, RoundTripLoses
  <2>3. CASE spent # 0
    <3>1. PICK d \in BOOLEAN, e \in [Nat -> Legs], k \in Nat \ {0} : Homebound(d, e, k)
      BY <2>1, <2>3 DEF TripInv
    <3>2. out' <= spent
      BY <1>3, <3>1, QuotedHome
    <3>3. QED
      BY <2>1, <2>3, <3>2 DEF TripInv, RoundTripLoses
  <2>4. QED
    BY <2>2, <2>3
<1>4. CASE Cross
  <2>1. status = "walk" /\ status' = "walk" /\ spent' = spent /\ amountIn' = amountIn
    BY <1>4 DEF Cross
  <2>2. CASE spent = 0
    <3>1. PICK d \in BOOLEAN, e \in [Nat -> Legs], k \in Nat \ {0} : Outbound(d, e, k)
      BY <2>1, <2>2 DEF TripInv
    <3>2. \E f \in [Nat -> Legs] : \E m \in Nat \ {0} : Outbound(d, f, m)'
      BY <1>4, <3>1, CrossOut
    <3>3. QED
      BY <2>1, <2>2, <3>2 DEF TripInv, RoundTripLoses
  <2>3. CASE spent # 0
    <3>1. PICK d \in BOOLEAN, e \in [Nat -> Legs], k \in Nat \ {0} : Homebound(d, e, k)
      BY <2>1, <2>3 DEF TripInv
    <3>2. k # 1 /\ Homebound(d, e, k - 1)'
      BY <1>4, <3>1, CrossHome
    <3>3. k - 1 \in Nat \ {0}
      BY <3>2, SMT
    <3>4. QED
      BY <2>1, <2>3, <3>2, <3>3 DEF TripInv, RoundTripLoses
  <2>4. QED
    BY <2>2, <2>3
<1>5. CASE GiveUp
  BY <1>5 DEF GiveUp, TripInv, RoundTripLoses
<1>6. CASE AskBack
  <2>1. status = "quoted" /\ spent = 0 /\ status' = "walk" /\ spent' = amountIn
    BY <1>6 DEF AskBack
  <2>2. amountIn > 0 /\ amountIn \in Int
    BY <2>1 DEF TripInv, SwapInv, TypeOK
  <2>3. PICK d \in BOOLEAN, e \in [Nat -> Legs], k \in Nat \ {0} : AtTurn(d, e, k)
    BY <2>1 DEF TripInv
  <2>4. Homebound(d, e, k)'
    BY <1>6, <2>3, TurnsBack
  <2>5. spent' # 0
    BY <2>1, <2>2, SMT
  <2>6. QED
    BY <2>1, <2>4, <2>5 DEF TripInv, RoundTripLoses
<1>7. CASE UNCHANGED vars
  <2>1. /\ Ticks' = Ticks /\ status' = status /\ spent' = spent /\ amountIn' = amountIn
        /\ out' = out /\ remaining' = remaining /\ zeroForOne' = zeroForOne
        /\ liquidity' = liquidity /\ sqrtPrice' = sqrtPrice /\ currentTick' = currentTick
    BY <1>7 DEF vars, scratch, Ticks
  <2>2. ASSUME NEW d \in BOOLEAN, NEW e \in [Nat -> Legs], NEW k \in Nat \ {0}
        PROVE  /\ Outbound(d, e, k) => Outbound(d, e, k)'
               /\ AtTurn(d, e, k) => AtTurn(d, e, k)'
               /\ Homebound(d, e, k) => Homebound(d, e, k)'
    <3>1. Trail(d, e, k) => Trail(d, e, k)'
      BY <2>1, SameTrail
    <3>2. Here(e[k]) => Here(e[k])'
      BY <2>1 DEF Here, At
    <3>3. Outbound(d, e, k) => Outbound(d, e, k)'
      BY <2>1, <3>1, <3>2, Zenon DEF Outbound
    <3>4. AtTurn(d, e, k) => AtTurn(d, e, k)'
      BY <2>1, <3>1, <3>2, Zenon DEF AtTurn, Turned
    <3>5. Homebound(d, e, k) => Homebound(d, e, k)'
      BY <2>1, <3>1, <3>2, Zenon DEF Homebound, Turned
    <3>6. QED
      BY <3>3, <3>4, <3>5
  <2>3. QED
    BY <2>1, <2>2 DEF TripInv, RoundTripLoses
<1>8. QED
  BY <1>1, <1>2, <1>3, <1>4, <1>5, <1>6, <1>7 DEF Next, Walk

\* For every pool, price scale and fee, however many ranges a trade goes through and
\* wherever it is turned round: selling and buying back never gains (v3.go:244-304).
THEOREM RoundTripsNeverGain == Spec => []RoundTripLoses
<1>1. Init => TripInv
  BY DEF Init, TripInv, RoundTripLoses
<1>2. TripInv => RoundTripLoses
  BY DEF TripInv
<1>3. QED
  BY <1>1, <1>2, SwapInvariant, NextTrip, PTL DEF Spec
=============================================================================
