---------------------------- MODULE ReaderProofs ----------------------------
(***************************************************************************)
(* Proofs about Reader and Multicall, for any tokens, fee tiers, batch     *)
(* size, window and history of the chain.                                  *)
(*                                                                         *)
(* First the codec: decodeTryAggregate undoes what the contract encodes,   *)
(* and the contract finds the calls that encodeTryAggregate was given, for *)
(* any number of calls with data of any length.  So a batch adds to the    *)
(* results what its own calls were answered.                               *)
(*                                                                         *)
(* Then the read.  The invariant ReadInv says, besides what is claimed of  *)
(* the results and of the pools returned, which calls the pass under way   *)
(* makes, that the results are of blocks in order, and that what the first *)
(* pass has found was read no later than any result of the second and      *)
(* misses no pool that could quote all along.                              *)
(***************************************************************************)
EXTENDS Reader, NaturalsInduction, WellFoundedInduction, SequenceTheorems,
        FiniteSetTheorems, TLAPS

----------------------------------------------------------------------------
(* Joining sequences: what FlattenSeq makes of a list of lists.            *)

\* A set of numbers that is not empty has a least member.
LEMMA LeastNumber ==
  ASSUME NEW T, T \subseteq Nat, T # {}
  PROVE  \E x \in T : \A y \in T : x <= y
<1>1. PICK x \in T : \A y \in T : ~(<<y, x>> \in OpToRel(<, Nat))
  BY WFMin, NatLessThanWellFounded
<1>2. ASSUME NEW y \in T PROVE x <= y
  <2>1. ~(<<y, x>> \in OpToRel(<, Nat))
    BY <1>1
  <2>2. y \in Nat /\ x \in Nat
    OBVIOUS
  <2>3. ~(y < x)
    BY <2>1, <2>2 DEF OpToRel
  <2>4. QED
    BY <2>2, <2>3
<1>3. QED
  BY <1>2

\* A set that holds 0, and with a number below N the next one, holds all up to N.
LEMMA UpTo ==
  ASSUME NEW N \in Nat, NEW T, 0 \in T, \A n \in 0..(N - 1) : n \in T => n + 1 \in T
  PROVE  0..N \subseteq T
<1> DEFINE U == {n \in 0..N : n \notin T}
<1>1. SUFFICES ASSUME U # {} PROVE FALSE
  OBVIOUS
<1>2. PICK m \in U : \A y \in U : m <= y
  <2>1. U \subseteq Nat
    OBVIOUS
  <2> HIDE DEF U
  <2>2. QED
    BY <1>1, <2>1, LeastNumber
<1>3. m \in 0..N /\ m \notin T /\ m # 0
  BY <1>2
<1>4. m - 1 \in 0..(N - 1) /\ m - 1 \in 0..N /\ ~(m <= m - 1) /\ (m - 1) + 1 = m
  BY <1>3
<1>5. m - 1 \in T
  BY <1>2, <1>4
<1>6. QED
  BY <1>3, <1>4, <1>5

\* Where the members of a concatenation come from.
LEMMA Joining ==
  ASSUME NEW W, NEW a \in Seq(W), NEW b \in Seq(W)
  PROVE  /\ a \o b \in Seq(W)
         /\ Len(a) \in Nat /\ Len(b) \in Nat /\ Len(a \o b) = Len(a) + Len(b)
         /\ \A p \in 1..Len(a) : (a \o b)[p] = a[p]
         /\ \A p \in 1..Len(b) : (a \o b)[Len(a) + p] = b[p]
  OBVIOUS

----------------------------------------------------------------------------
(* FlattenSeq.                                                             *)

\* f is the concatenation of the first elements of s, for every number of them.
Concats(f, s, W) == /\ f \in [0..Len(s) -> Seq(W)]
                    /\ f[0] = <<>>
                    /\ \A n \in 1..Len(s) : f[n] = f[n - 1] \o s[n]

\* Such a list of prefixes exists, for every list of lists.
LEMMA ConcatsExist ==
  ASSUME NEW W, NEW s \in Seq(Seq(W))
  PROVE  \E f : Concats(f, s, W)
<1> DEFINE N == Len(s)
           Upto(m, f) == /\ f \in [0..m -> Seq(W)] /\ f[0] = <<>>
                         /\ \A n \in 1..m : f[n] = f[n - 1] \o s[n]
           T == {m \in 0..N : \E f : Upto(m, f)}
<1>0. N \in Nat /\ \A n \in 1..N : s[n] \in Seq(W)
  OBVIOUS
<1>1. 0 \in T
  <2> DEFINE f == [n \in 0..0 |-> <<>>]
  <2>1. Upto(0, f)
    OBVIOUS
  <2> HIDE DEF f, Upto
  <2>2. QED
    BY <1>0, <2>1
<1>2. ASSUME NEW m \in 0..(N - 1), m \in T PROVE m + 1 \in T
  <2>1. PICK f : Upto(m, f)
    BY <1>2
  <2> DEFINE h == [n \in 0..(m + 1) |-> IF n = m + 1 THEN f[m] \o s[m + 1] ELSE f[n]]
  <2>2. m + 1 \in 1..N /\ m \in 0..m /\ m \in Nat
    BY <1>0
  <2>3. f[m] \o s[m + 1] \in Seq(W)
    BY <1>0, <2>1, <2>2
  <2>4. h \in [0..(m + 1) -> Seq(W)]
    <3>1. \A n \in 0..(m + 1) : n # m + 1 => n \in 0..m
      BY <2>2
    <3>2. QED
      BY <2>1, <2>3, <3>1
  <2>5. h[0] = <<>>
    BY <2>1, <2>2
  <2>6. ASSUME NEW n \in 1..(m + 1) PROVE h[n] = h[n - 1] \o s[n]
    <3>1. n - 1 \in 0..(m + 1) /\ n - 1 # m + 1 /\ n \in 0..(m + 1)
      BY <2>2
    <3>2. h[n - 1] = f[n - 1]
      BY <3>1
    <3>3. CASE n = m + 1
      <4>1. n - 1 = m /\ h[n] = f[m] \o s[m + 1]
        <5>1. n - 1 = m
          BY <2>2, <3>3
        <5>2. h[n] = f[m] \o s[m + 1]
          BY <3>1, <3>3, Zenon
        <5>3. QED
          BY <5>1, <5>2
      <4> HIDE DEF h
      <4>2. h[n - 1] \o s[n] = f[m] \o s[m + 1]
        BY <3>2, <3>3, <4>1, Zenon
      <4>3. QED
        BY <4>1, <4>2
    <3>4. CASE n # m + 1
      <4>1. n \in 1..m /\ h[n] = f[n]
        BY <2>2, <3>1, <3>4
      <4>2. QED
        BY <2>1, <3>2, <4>1
    <3>5. QED
      BY <3>3, <3>4
  <2>7. Upto(m + 1, h)
    <3> HIDE DEF h
    <3> QED BY <2>4, <2>5, <2>6
  <2> HIDE DEF h, Upto
  <2>8. QED
    BY <1>0, <2>2, <2>7
<1>3. N \in T
  <2> HIDE DEF T, N
  <2>1. 0..N \subseteq T
    BY <1>0, <1>1, <1>2, UpTo
  <2>2. QED
    BY <1>0, <2>1
<1>4. QED
  BY <1>3 DEF Concats

\* FlattenSeq is the last of these.
LEMMA FlattenIs ==
  ASSUME NEW W, NEW s \in Seq(Seq(W)), NEW f, Concats(f, s, W)
  PROVE  FlattenSeq(s) = f[Len(s)]
<1> DEFINE N == Len(s)
<1>0. N \in Nat /\ \A n \in 1..N : s[n] \in Seq(W)
  OBVIOUS
<1>1. CASE N = 0
  <2>1. s = <<>>
    BY <1>1
  <2>2. FlattenSeq(s) = s
    BY <1>1 DEF FlattenSeq
  <2>3. QED
    BY <1>1, <2>1, <2>2 DEF Concats
<1>2. CASE N # 0
  <2> DEFINE Is(g) == g = [i \in 1..N |-> IF i = 1 THEN s[i] ELSE g[i - 1] \o s[i]]
             g0 == CHOOSE g : Is(g)
             h == [i \in 1..N |-> f[i]]
  <2>1. FlattenSeq(s) = g0[N]
    BY <1>2 DEF FlattenSeq
  <2>2. Is(h)
    <3>1. ASSUME NEW i \in 1..N
          PROVE  h[i] = IF i = 1 THEN s[i] ELSE h[i - 1] \o s[i]
      <4>1. f[i] = f[i - 1] \o s[i]
        BY DEF Concats
      <4>2. CASE i = 1
        <5>1. <<>> \o s[i] = s[i]
          BY <1>0
        <5>2. f[0] = <<>> /\ i - 1 = 0 /\ h[i] = f[i]
          BY <4>2 DEF Concats
        <5>3. h[i] = s[i]
          BY <4>1, <5>1, <5>2, Zenon
        <5> HIDE DEF h
        <5>4. QED
          BY <4>2, <5>3
      <4>3. CASE i # 1
        <5>1. i - 1 \in 1..N
          BY <1>0, <4>3
        <5>2. h[i] = f[i] /\ h[i - 1] = f[i - 1]
          BY <5>1
        <5> HIDE DEF h
        <5>3. h[i] = h[i - 1] \o s[i]
          BY <4>1, <5>2, Zenon
        <5>4. QED
          BY <4>3, <5>3
      <4>4. QED
        BY <4>2, <4>3
    <3>2. h = [i \in 1..N |-> h[i]]
      OBVIOUS
    <3> HIDE DEF h, N
    <3>3. QED
      BY <3>1, <3>2
  <2>3. Is(g0)
    <3> HIDE DEF Is, h
    <3> QED BY <2>2
  <2>4. ASSUME NEW i \in 1..N
        PROVE  g0[i] = IF i = 1 THEN s[i] ELSE g0[i - 1] \o s[i]
    <3> HIDE DEF g0, N
    <3> QED BY <2>3
  <2> HIDE DEF g0, Is, h
  <2> DEFINE T == {n \in 0..N : n # 0 => g0[n] = f[n]}
  <2>5. 0 \in T
    BY <1>0
  <2>6. ASSUME NEW n \in 0..(N - 1), n \in T PROVE n + 1 \in T
    <3>1. n + 1 \in 1..N /\ n \in 0..N /\ (n + 1) - 1 = n /\ n + 1 \in 0..N
      BY <1>0
    <3>2. f[n + 1] = f[n] \o s[n + 1]
      BY <3>1 DEF Concats
    <3>3. CASE n = 0
      <4>1. <<>> \o s[1] = s[1] /\ 1 \in 1..N
        BY <1>0, <3>1, <3>3
      <4>2. g0[1] = s[1]
        BY <2>4, <4>1
      <4>3. f[1] = s[1]
        <5>1. f[0] = <<>> /\ n + 1 = 1
          BY <3>3 DEF Concats
        <5>2. QED
          BY <3>2, <3>3, <4>1, <5>1, Zenon
      <4>4. QED
        BY <3>1, <3>3, <4>2, <4>3
    <3>4. CASE n # 0
      <4>1. n + 1 # 1 /\ g0[n] = f[n]
        BY <2>6, <3>1, <3>4
      <4>2. g0[n + 1] = g0[n] \o s[n + 1]
        BY <2>4, <3>1, <4>1
      <4>3. g0[n + 1] = f[n + 1]
        BY <3>2, <4>1, <4>2, Zenon
      <4>4. QED
        BY <3>1, <4>3
    <3>5. QED
      BY <3>3, <3>4
  <2>7. 0..N \subseteq T
    <3> HIDE DEF T, N
    <3> QED BY <1>0, <2>5, <2>6, UpTo
  <2>8. N \in T
    BY <1>0, <2>7
  <2>9. QED
    BY <1>2, <2>1, <2>8
<1>3. QED
  BY <1>1, <1>2

\* What FlattenSeq makes of the first n elements of s.
Joined(s, n) == FlattenSeq(SubSeq(s, 1, n))

\* FlattenSeq adds one element after the other to the end.
LEMMA JoinedFacts ==
  ASSUME NEW W, NEW s \in Seq(Seq(W))
  PROVE  /\ \A n \in 0..Len(s) : Joined(s, n) \in Seq(W)
         /\ Joined(s, 0) = <<>>
         /\ \A n \in 1..Len(s) : Joined(s, n) = Joined(s, n - 1) \o s[n]
         /\ Joined(s, Len(s)) = FlattenSeq(s)
<1> DEFINE N == Len(s)
<1>0. N \in Nat
  OBVIOUS
<1>1. PICK f : Concats(f, s, W)
  BY ConcatsExist
<1>2. ASSUME NEW n \in 0..N PROVE Joined(s, n) = f[n]
  <2> DEFINE t == SubSeq(s, 1, n)
             g == [i \in 0..n |-> f[i]]
  <2>1. t \in Seq(Seq(W)) /\ Len(t) = n /\ \A i \in 1..n : t[i] = s[i]
    BY <1>0
  <2>2. \A i \in 0..n : i \in 0..N /\ g[i] = f[i]
    BY <1>0
  <2>3. g \in [0..n -> Seq(W)] /\ g[0] = <<>>
    <3>1. \A i \in 0..n : f[i] \in Seq(W)
      BY <1>1, <2>2 DEF Concats
    <3>2. 0 \in 0..n
      BY <1>0
    <3>3. QED
      BY <1>1, <2>2, <3>1, <3>2 DEF Concats
  <2>4. ASSUME NEW i \in 1..n PROVE g[i] = g[i - 1] \o t[i]
    <3>1. i \in 0..n /\ i - 1 \in 0..n /\ i \in 1..N
      BY <1>0
    <3>2. f[i] = f[i - 1] \o s[i]
      BY <1>1, <3>1 DEF Concats
    <3>3. g[i] = f[i] /\ g[i - 1] = f[i - 1] /\ t[i] = s[i]
      BY <2>1, <2>2, <3>1
    <3> HIDE DEF g, t
    <3>4. QED
      BY <3>2, <3>3, Zenon
  <2> HIDE DEF g, t
  <2>5. Concats(g, t, W)
    BY <2>1, <2>3, <2>4 DEF Concats
  <2>6. FlattenSeq(t) = g[n]
    BY <2>1, <2>5, FlattenIs
  <2>7. n \in 0..n
    BY <1>0
  <2>8. QED
    BY <2>2, <2>6, <2>7 DEF Joined, t
<1>3. SubSeq(s, 1, N) = s
  OBVIOUS
<1>4. ASSUME NEW n \in 1..N PROVE Joined(s, n) = Joined(s, n - 1) \o s[n]
  <2>1. n \in 0..N /\ n - 1 \in 0..N
    BY <1>0
  <2>2. f[n] = f[n - 1] \o s[n]
    BY <1>1 DEF Concats
  <2>3. QED
    BY <1>2, <2>1, <2>2, Zenon
<1>5. 0 \in 0..N
  BY <1>0
<1>6. ASSUME NEW n \in 0..N PROVE Joined(s, n) \in Seq(W)
  BY <1>1, <1>2 DEF Concats
<1>7. Joined(s, 0) = <<>>
  BY <1>1, <1>2, <1>5 DEF Concats
<1>8. Joined(s, N) = FlattenSeq(s)
  BY <1>3 DEF Joined
<1>9. QED
  BY <1>4, <1>6, <1>7, <1>8

\* An element of s is in FlattenSeq(s) behind those before it.
LEMMA Places ==
  ASSUME NEW W, NEW s \in Seq(Seq(W)), NEW i \in 1..Len(s)
  PROVE  /\ Len(Joined(s, i - 1)) \in Nat
         /\ FlattenSeq(s) \in Seq(W)
         /\ Len(Joined(s, i - 1)) + Len(s[i]) <= Len(FlattenSeq(s))
         /\ \A j \in 1..Len(s[i]) : FlattenSeq(s)[Len(Joined(s, i - 1)) + j] = s[i][j]
<1> DEFINE N == Len(s)
           J(n) == Joined(s, n)
           L == Len(J(i - 1))
           T == {m \in 0..(N - i) : /\ L + Len(s[i]) <= Len(J(i + m))
                                    /\ \A j \in 1..Len(s[i]) : J(i + m)[L + j] = s[i][j]}
<1>0. N \in Nat /\ i \in 0..N /\ i - 1 \in 0..N /\ N - i \in Nat /\ \A n \in 1..N : s[n] \in Seq(W)
  OBVIOUS
<1>1. /\ \A n \in 0..N : J(n) \in Seq(W)
      /\ \A n \in 1..N : J(n) = J(n - 1) \o s[n]
      /\ J(N) = FlattenSeq(s)
  BY JoinedFacts
<1> HIDE DEF J
<1>2. L \in Nat
  BY <1>0, <1>1
<1>3. 0 \in T
  <2>1. J(i) = J(i - 1) \o s[i] /\ J(i - 1) \in Seq(W) /\ s[i] \in Seq(W)
    BY <1>0, <1>1
  <2>2. i + 0 = i /\ 0 \in 0..(N - i)
    BY <1>0
  <2>a. /\ Len(J(i - 1) \o s[i]) = Len(J(i - 1)) + Len(s[i]) /\ Len(s[i]) \in Nat
        /\ \A j \in 1..Len(s[i]) : (J(i - 1) \o s[i])[Len(J(i - 1)) + j] = s[i][j]
    BY <2>1, Joining
  <2>3. Len(J(i)) = L + Len(s[i]) /\ Len(s[i]) \in Nat
    BY <2>1, <2>a
  <2>4. \A j \in 1..Len(s[i]) : J(i)[L + j] = s[i][j]
    BY <2>1, <2>a, Zenon
  <2>5. L + Len(s[i]) <= Len(J(i))
    <3> HIDE DEF L
    <3> QED BY <1>2, <2>3
  <2> HIDE DEF L
  <2>6. QED
    BY <2>2, <2>4, <2>5
<1>4. ASSUME NEW m \in 0..((N - i) - 1), m \in T PROVE m + 1 \in T
  <2>1. m \in 0..(N - i) /\ m + 1 \in 0..(N - i) /\ i + (m + 1) \in 1..N /\ i + m \in 0..N
        /\ (i + (m + 1)) - 1 = i + m
    BY <1>0
  <2> DEFINE a == J(i + m)
             b == s[i + (m + 1)]
             c == J(i + (m + 1))
  <2>2. c = a \o b
    BY <1>1, <2>1
  <2>3. a \in Seq(W) /\ b \in Seq(W) /\ s[i] \in Seq(W)
    BY <1>0, <1>1, <2>1
  <2>4. L + Len(s[i]) <= Len(a) /\ \A j \in 1..Len(s[i]) : a[L + j] = s[i][j]
    BY <1>4
  <2> HIDE DEF L, a, b, c
  <2>5. /\ Len(c) = Len(a) + Len(b) /\ Len(a) \in Nat /\ Len(b) \in Nat
        /\ \A p \in 1..Len(a) : c[p] = a[p]
    BY <2>2, <2>3, Joining, Zenon
  <2>6. Len(s[i]) \in Nat
    BY <2>3, LenProperties, Zenon
  <2>7. ASSUME NEW j \in 1..Len(s[i]) PROVE c[L + j] = s[i][j]
    <3>1. PICK l, n, k : l = L /\ n = Len(a) /\ k = Len(s[i])
      OBVIOUS
    <3>2. l \in Nat /\ n \in Nat /\ k \in Nat /\ j \in 1..k /\ l + k <= n
      BY <1>2, <2>4, <2>5, <2>6, <3>1, Zenon
    <3>3. l + j \in 1..n
      BY <3>2
    <3>4. QED
      BY <2>4, <2>5, <3>1, <3>3, Zenon
  <2>8. L + Len(s[i]) <= Len(c)
    BY <1>2, <2>4, <2>5, <2>6
  <2>9. QED
    BY <2>1, <2>7, <2>8 DEF c
<1>5. N - i \in T
  <2> HIDE DEF T, N
  <2>1. 0..(N - i) \subseteq T
    BY <1>0, <1>3, <1>4, UpTo
  <2>2. QED
    BY <1>0, <2>1
<1>6. i + (N - i) = N
  BY <1>0
<1>7. L + Len(s[i]) <= Len(J(N)) /\ \A j \in 1..Len(s[i]) : J(N)[L + j] = s[i][j]
  BY <1>5, <1>6
<1>8. N \in 0..N
  BY <1>0
<1>9. QED
  BY <1>1, <1>2, <1>7, <1>8 DEF J

SameLengths(s, t) == Len(s) = Len(t) /\ \A i \in 1..Len(s) : Len(s[i]) = Len(t[i])

\* Only the lengths of the elements make the length of what they are joined to.
LEMMA JoinedLengths ==
  ASSUME NEW V, NEW W, NEW s \in Seq(Seq(V)), NEW t \in Seq(Seq(W)), SameLengths(s, t)
  PROVE  \A n \in 0..Len(s) : Len(Joined(s, n)) = Len(Joined(t, n))
<1> USE DEF SameLengths
<1> DEFINE N == Len(s)
           T == {n \in 0..N : Len(Joined(s, n)) = Len(Joined(t, n))}
<1>0. N \in Nat /\ \A n \in 1..N : s[n] \in Seq(V) /\ t[n] \in Seq(W)
  OBVIOUS
<1>1. /\ \A n \in 0..N : Joined(s, n) \in Seq(V) /\ Joined(t, n) \in Seq(W)
      /\ Joined(s, 0) = <<>> /\ Joined(t, 0) = <<>>
      /\ \A n \in 1..N : /\ Joined(s, n) = Joined(s, n - 1) \o s[n]
                         /\ Joined(t, n) = Joined(t, n - 1) \o t[n]
  BY JoinedFacts
<1>2. 0 \in T
  BY <1>0, <1>1
<1>3. ASSUME NEW n \in 0..(N - 1), n \in T PROVE n + 1 \in T
  <2>1. n \in 0..N /\ n + 1 \in 1..N /\ n + 1 \in 0..N /\ (n + 1) - 1 = n
    BY <1>0
  <2>2. Joined(s, n + 1) = Joined(s, n) \o s[n + 1] /\ Joined(t, n + 1) = Joined(t, n) \o t[n + 1]
    BY <1>1, <2>1
  <2>3. /\ Joined(s, n) \in Seq(V) /\ Joined(t, n) \in Seq(W)
        /\ s[n + 1] \in Seq(V) /\ t[n + 1] \in Seq(W)
    BY <1>0, <1>1, <2>1
  <2>4. /\ Len(Joined(s, n + 1)) = Len(Joined(s, n)) + Len(s[n + 1])
        /\ Len(Joined(t, n + 1)) = Len(Joined(t, n)) + Len(t[n + 1])
    BY <2>2, <2>3
  <2>5. QED
    BY <1>3, <2>1, <2>4
<1>4. 0..N \subseteq T
  <2> HIDE DEF T, N
  <2> QED BY <1>0, <1>2, <1>3, UpTo
<1>5. QED
  BY <1>4

\* Elements of three take three places each.
LEMMA JoinedTriples ==
  ASSUME NEW W, NEW s \in Seq(Seq(W)), \A i \in 1..Len(s) : Len(s[i]) = 3
  PROVE  \A n \in 0..Len(s) : Len(Joined(s, n)) = 3 * n
<1> DEFINE N == Len(s)
           T == {n \in 0..N : Len(Joined(s, n)) = 3 * n}
<1>0. N \in Nat /\ \A n \in 1..N : s[n] \in Seq(W)
  OBVIOUS
<1>1. /\ \A n \in 0..N : Joined(s, n) \in Seq(W)
      /\ Joined(s, 0) = <<>>
      /\ \A n \in 1..N : Joined(s, n) = Joined(s, n - 1) \o s[n]
  BY JoinedFacts
<1>2. 0 \in T
  BY <1>0, <1>1
<1>3. ASSUME NEW n \in 0..(N - 1), n \in T PROVE n + 1 \in T
  <2>1. n \in 0..N /\ n + 1 \in 1..N /\ n + 1 \in 0..N /\ (n + 1) - 1 = n
    BY <1>0
  <2> DEFINE a == Joined(s, n)
             b == s[n + 1]
  <2>2. Joined(s, n + 1) = a \o b
    BY <1>1, <2>1
  <2>3. a \in Seq(W) /\ b \in Seq(W)
    BY <1>0, <1>1, <2>1
  <2>4. Len(a) = 3 * n /\ Len(b) = 3
    BY <1>3, <2>1
  <2> HIDE DEF a, b
  <2>5. Len(a \o b) = Len(a) + Len(b)
    BY <2>3, Joining, Zenon
  <2>6. Len(Joined(s, n + 1)) = 3 * (n + 1)
    BY <2>1, <2>2, <2>4, <2>5
  <2>7. QED
    BY <2>1, <2>6
<1>4. 0..N \subseteq T
  <2> HIDE DEF T, N
  <2> QED BY <1>0, <1>2, <1>3, UpTo
<1>5. QED
  BY <1>4

----------------------------------------------------------------------------
(* The codec: what is encoded is what is decoded.                          *)

\* The words before element i of an array.
Off(e, i) == Len(Joined(e, i - 1))

\* A sequence has a length, and elements at 1 to that length.
LEMMA SeqFacts ==
  ASSUME NEW S, NEW s \in Seq(S)
  PROVE  Len(s) \in Nat /\ DOMAIN s = 1..Len(s) /\ \A i \in 1..Len(s) : s[i] \in S
  OBVIOUS

\* Every element of an array has its offset, behind the offsets of all.
LEMMA OffsetFacts ==
  ASSUME NEW W, Int \subseteq W, NEW e \in Seq(Seq(W))
  PROVE  /\ Offsets(e) \in Seq(W) /\ Len(Offsets(e)) = Len(e)
         /\ \A i \in 1..Len(e) : Off(e, i) \in Nat /\ Offsets(e)[i] = Len(e) + Off(e, i)
<1>1. Len(e) \in Nat /\ DOMAIN e = 1..Len(e)
  OBVIOUS
<1>2. \A i \in 1..Len(e) : Off(e, i) \in Nat
  BY Places DEF Off
<1>3. Offsets(e) = [i \in 1..Len(e) |-> Len(e) + Off(e, i)]
  BY <1>1 DEF Offsets, Off, Joined
<1>4. \A i \in 1..Len(e) : Len(e) + Off(e, i) \in W
  BY <1>1, <1>2
<1>5. Offsets(e) \in [1..Len(e) -> W]
  BY <1>3, <1>4
<1>6. QED
  BY <1>1, <1>2, <1>3, <1>5, IsASeq

\* Three sequences behind one another.
LEMMA JoiningThree ==
  ASSUME NEW W, NEW x \in Seq(W), NEW y \in Seq(W), NEW z \in Seq(W), NEW m, m = (x \o y) \o z
  PROVE  /\ m \in Seq(W)
         /\ Len(x) \in Nat /\ Len(y) \in Nat /\ Len(z) \in Nat
         /\ Len(m) = Len(x) + Len(y) + Len(z)
         /\ \A p \in 1..Len(x) : m[p] = x[p]
         /\ \A p \in 1..Len(y) : m[Len(x) + p] = y[p]
         /\ \A p \in 1..Len(z) : m[Len(x) + Len(y) + p] = z[p]
<1> DEFINE v == x \o y
<1>1. /\ v \in Seq(W) /\ Len(x) \in Nat /\ Len(y) \in Nat /\ Len(v) = Len(x) + Len(y)
      /\ \A p \in 1..Len(x) : v[p] = x[p]
      /\ \A p \in 1..Len(y) : v[Len(x) + p] = y[p]
  BY Joining
<1> HIDE DEF v
<1>2. m = v \o z
  BY DEF v
<1>3. /\ m \in Seq(W) /\ Len(z) \in Nat /\ Len(m) = Len(v) + Len(z)
      /\ \A p \in 1..Len(v) : m[p] = v[p]
      /\ \A p \in 1..Len(z) : m[Len(v) + p] = z[p]
  <2>1. v \in Seq(W)
    BY <1>1
  <2>2. /\ v \o z \in Seq(W) /\ Len(z) \in Nat /\ Len(v \o z) = Len(v) + Len(z)
        /\ \A p \in 1..Len(v) : (v \o z)[p] = v[p]
        /\ \A p \in 1..Len(z) : (v \o z)[Len(v) + p] = z[p]
    BY <2>1, Joining
  <2>3. QED
    BY <1>2, <2>2, Zenon
<1>4. ASSUME NEW p \in 1..Len(x) PROVE m[p] = x[p]
  <2>1. p \in 1..Len(v)
    BY <1>1
  <2>2. QED
    BY <1>1, <1>3, <2>1
<1>5. ASSUME NEW p \in 1..Len(y) PROVE m[Len(x) + p] = y[p]
  <2>1. Len(x) + p \in 1..Len(v)
    BY <1>1
  <2>2. QED
    BY <1>1, <1>3, <2>1
<1>6. QED
  BY <1>1, <1>3, <1>4, <1>5

\* The words of an array: how many, their offsets, and then the elements.
IsArray(a, e, N) ==
  /\ N \in Nat /\ Len(a) \in Nat /\ 1 <= Len(a)
  /\ a[1] = N
  /\ \A i \in 1..N :
       /\ 1 + i <= Len(a)
       /\ Off(e, i) \in Nat
       /\ a[1 + i] = N + Off(e, i)
       /\ 1 + N + Off(e, i) + Len(e[i]) <= Len(a)
       /\ \A j \in 1..Len(e[i]) : a[1 + N + Off(e, i) + j] = e[i][j]

\* An encoded array: its length, the offsets, then the elements where these say.
LEMMA ArrayWords ==
  ASSUME NEW W, Int \subseteq W, NEW e \in Seq(Seq(W)), NEW N, N = Len(e), NEW a,
         a = EncodeArray(e)
  PROVE  a \in Seq(W) /\ IsArray(a, e, N)
<1> DEFINE h == <<N>>
           o == Offsets(e)
           f == FlattenSeq(e)
           l(i) == Len(e[i])
           off(i) == Off(e, i)
<1>1. N \in Nat /\ h \in Seq(W) /\ Len(h) = 1 /\ h[1] = N
  OBVIOUS
<1>2. /\ o \in Seq(W) /\ Len(o) = N
      /\ \A i \in 1..N : off(i) \in Nat /\ o[i] = N + off(i)
  BY OffsetFacts
<1>3. f \in Seq(W)
  <2>1. Len(e) \in 0..Len(e)
    BY <1>1
  <2>2. QED
    BY <2>1, JoinedFacts
<1>4. \A i \in 1..N : /\ off(i) + l(i) <= Len(f)
                      /\ \A j \in 1..l(i) : f[off(i) + j] = e[i][j]
  BY Places DEF Off
<1>5. \A i \in 1..N : l(i) \in Nat
  OBVIOUS
<1>6. a = (h \o o) \o f
  BY DEF EncodeArray
<1> HIDE DEF h, o, f, l, off
<1>7. /\ a \in Seq(W) /\ Len(f) \in Nat /\ Len(a) = 1 + N + Len(f)
      /\ a[1] = N
      /\ \A p \in 1..N : a[1 + p] = o[p]
      /\ \A p \in 1..Len(f) : a[1 + N + p] = f[p]
  <2>1. /\ a \in Seq(W)
        /\ Len(f) \in Nat
        /\ Len(a) = Len(h) + Len(o) + Len(f)
        /\ \A p \in 1..Len(h) : a[p] = h[p]
        /\ \A p \in 1..Len(o) : a[Len(h) + p] = o[p]
        /\ \A p \in 1..Len(f) : a[Len(h) + Len(o) + p] = f[p]
    <3>1. h \in Seq(W) /\ o \in Seq(W) /\ f \in Seq(W)
      BY <1>1, <1>2, <1>3
    <3>2. QED
      BY <1>6, <3>1, JoiningThree
  <2>2. 1 \in 1..1
    OBVIOUS
  <2>3. QED
    BY <1>1, <1>2, <2>1, <2>2
<1>8. Len(a) \in Nat /\ 1 <= Len(a)
  BY <1>1, <1>7
<1>9. ASSUME NEW i \in 1..N
      PROVE  /\ 1 + i <= Len(a) /\ off(i) \in Nat /\ a[1 + i] = N + off(i)
             /\ 1 + N + off(i) + l(i) <= Len(a)
             /\ \A j \in 1..l(i) : a[1 + N + off(i) + j] = e[i][j]
  <2>1. /\ off(i) \in Nat /\ l(i) \in Nat /\ off(i) + l(i) <= Len(f)
        /\ \A j \in 1..l(i) : f[off(i) + j] = e[i][j]
    BY <1>2, <1>4, <1>5
  <2>2. Len(f) \in Nat /\ Len(a) = 1 + N + Len(f)
    BY <1>7
  <2>3. 1 + i <= Len(a) /\ 1 + N + off(i) + l(i) <= Len(a)
    BY <1>1, <2>1, <2>2
  <2>4. a[1 + i] = N + off(i)
    BY <1>2, <1>7
  <2>5. ASSUME NEW j \in 1..l(i) PROVE a[1 + N + off(i) + j] = e[i][j]
    <3>1. off(i) + j \in 1..Len(f) /\ 1 + N + (off(i) + j) = 1 + N + off(i) + j
      BY <1>1, <2>1, <2>2
    <3>2. a[1 + N + (off(i) + j)] = f[off(i) + j] /\ f[off(i) + j] = e[i][j]
      BY <1>7, <2>1, <3>1
    <3>3. QED
      BY <3>1, <3>2
  <2>6. QED
    BY <2>1, <2>3, <2>4, <2>5
<1>10. QED
  BY <1>1, <1>7, <1>8, <1>9, Zenon DEF l, off, IsArray

\* The words of some data, found where they are.
LEMMA SliceIs ==
  ASSUME NEW W, NEW d \in Seq(W), NEW data \in Seq(W), NEW t \in Nat,
         t + Len(data) <= Len(d),
         \A j \in 1..Len(data) : d[t + j] = data[j]
  PROVE  Slice(d, t, Len(data)) = data
<1> DEFINE L == Len(data)
<1>1. L \in Nat /\ Len(d) \in Nat /\ DOMAIN data = 1..L
  OBVIOUS
<1>2. Slice(d, t, L) = SubSeq(d, t + 1, t + L)
  BY DEF Slice
<1>3. SubSeq(d, t + 1, t + L) = [j \in 1..L |-> d[t + j]]
  <2>1. SubSeq(d, t + 1, t + L) \in Seq(W) /\ Len(SubSeq(d, t + 1, t + L)) = L
    BY <1>1
  <2>2. \A j \in 1..L : SubSeq(d, t + 1, t + L)[j] = d[t + j]
    BY <1>1
  <2>3. QED
    BY <1>1, <2>1, <2>2
<1>4. data = [j \in 1..L |-> data[j]]
  BY <1>1
<1>5. QED
  BY <1>2, <1>3, <1>4

\* Three words and some data.
LEMMA TupleWords ==
  ASSUME NEW W, Int \subseteq W, NEW x \in W, NEW data \in Seq(W), NEW u,
         u = <<x, 2, Len(data)>> \o data
  PROVE  /\ u \in Seq(W) /\ Len(data) \in Nat /\ Len(u) = 3 + Len(data)
         /\ u[1] = x /\ u[2] = 2 /\ u[3] = Len(data)
         /\ \A j \in 1..Len(data) : u[3 + j] = data[j]
<1> DEFINE h == <<x, 2, Len(data)>>
<1>1. Len(data) \in Nat
  OBVIOUS
<1>2. 2 \in W /\ Len(data) \in W
  BY <1>1
<1>3. h \in Seq(W) /\ Len(h) = 3 /\ h[1] = x /\ h[2] = 2 /\ h[3] = Len(data)
  BY <1>2
<1> HIDE DEF h
<1>4. /\ h \o data \in Seq(W) /\ Len(h \o data) = Len(h) + Len(data)
      /\ \A p \in 1..Len(h) : (h \o data)[p] = h[p]
      /\ \A p \in 1..Len(data) : (h \o data)[Len(h) + p] = data[p]
  <2>1. h \in Seq(W)
    BY <1>3
  <2>2. QED
    BY <2>1, Joining
<1>5. u = h \o data
  BY DEF h
<1>6. /\ u \in Seq(W) /\ Len(u) = Len(h) + Len(data)
      /\ \A p \in 1..Len(h) : u[p] = h[p]
      /\ \A p \in 1..Len(data) : u[Len(h) + p] = data[p]
  BY <1>4, <1>5, Zenon
<1>7. 1 \in 1..3 /\ 2 \in 1..3 /\ 3 \in 1..3
  OBVIOUS
<1>8. QED
  BY <1>1, <1>3, <1>6, <1>7

\* A word and an array behind it.
LEMMA BehindOne ==
  ASSUME NEW W, NEW x \in W, NEW a \in Seq(W), NEW m, m = <<x>> \o a
  PROVE  /\ m \in Seq(W) /\ Len(a) \in Nat /\ Len(m) = 1 + Len(a) /\ m[1] = x
         /\ \A p \in 1..Len(a) : m[1 + p] = a[p]
<1> DEFINE h == <<x>>
<1>1. h \in Seq(W) /\ Len(h) = 1 /\ h[1] = x
  OBVIOUS
<1> HIDE DEF h
<1>2. /\ h \o a \in Seq(W) /\ Len(a) \in Nat /\ Len(h \o a) = Len(h) + Len(a)
      /\ \A p \in 1..Len(h) : (h \o a)[p] = h[p]
      /\ \A p \in 1..Len(a) : (h \o a)[Len(h) + p] = a[p]
  <2>1. h \in Seq(W)
    BY <1>1
  <2>2. QED
    BY <2>1, Joining
<1>3. m = h \o a
  BY DEF h
<1>4. /\ m \in Seq(W) /\ Len(m) = Len(h) + Len(a)
      /\ \A p \in 1..Len(h) : m[p] = h[p]
      /\ \A p \in 1..Len(a) : m[Len(h) + p] = a[p]
  BY <1>2, <1>3, Zenon
<1>5. 1 \in 1..1
  OBVIOUS
<1>6. QED
  BY <1>1, <1>2, <1>4, <1>5

\* A tuple of three words and some data within an array that begins behind h words:
\* the word before it is number t.
TupleAt(m, t, x, data) == /\ t + 3 + Len(data) <= Len(m)
                          /\ m[t + 1] = x /\ m[t + 2] = 2 /\ m[t + 3] = Len(data)
                          /\ \A j \in 1..Len(data) : m[t + 3 + j] = data[j]

\* An array of such tuples.
Tuples(N, x, data) == [i \in 1..N |-> <<x[i], 2, Len(data[i])>> \o data[i]]

HasTuples(a, N, x, data, off) ==
  /\ 1 <= Len(a) /\ a[1] = N
  /\ \A i \in 1..N : /\ 1 + i <= Len(a) /\ a[1 + i] = N + off[i]
                     /\ TupleAt(a, 1 + N + off[i], x[i], data[i])

\* In an encoded array of tuples the offsets lead to the tuples.
LEMMA TupleArray ==
  ASSUME NEW W, Int \subseteq W, NEW N \in Nat, NEW x \in [1..N -> W],
         NEW data \in [1..N -> Seq(W)], NEW a, a = EncodeArray(Tuples(N, x, data))
  PROVE  \E off \in [1..N -> Nat] : a \in Seq(W) /\ HasTuples(a, N, x, data, off)
<1> DEFINE u(i) == <<x[i], 2, Len(data[i])>> \o data[i]
           e == [i \in 1..N |-> u(i)]
<1>1. \A i \in 1..N : data[i] \in Seq(W) /\ x[i] \in W
  OBVIOUS
<1>2. a = EncodeArray(e)
  BY DEF Tuples
<1>3. ASSUME NEW i \in 1..N
      PROVE  /\ u(i) \in Seq(W) /\ Len(data[i]) \in Nat /\ Len(u(i)) = 3 + Len(data[i])
             /\ u(i)[1] = x[i] /\ u(i)[2] = 2 /\ u(i)[3] = Len(data[i])
             /\ \A j \in 1..Len(data[i]) : u(i)[3 + j] = data[i][j]
  <2> DEFINE y == x[i]
             z == data[i]
  <2>1. z \in Seq(W) /\ y \in W
    BY <1>1
  <2> HIDE DEF y, z
  <2>2. ASSUME NEW v, v = <<y, 2, Len(z)>> \o z
        PROVE  /\ v \in Seq(W) /\ Len(z) \in Nat /\ Len(v) = 3 + Len(z)
               /\ v[1] = y /\ v[2] = 2 /\ v[3] = Len(z)
               /\ \A j \in 1..Len(z) : v[3 + j] = z[j]
    BY <2>1, <2>2, TupleWords
  <2>3. QED
    BY <2>2, Zenon DEF y, z
<1> HIDE DEF u
<1>4. e \in [1..N -> Seq(W)] /\ \A i \in 1..N : e[i] = u(i)
  BY <1>3
<1> HIDE DEF e
<1>5. e \in Seq(Seq(W)) /\ N = Len(e)
  BY <1>4, IsASeq
<1>6. /\ a \in Seq(W) /\ Len(a) \in Nat /\ 1 <= Len(a) /\ a[1] = N
      /\ \A i \in 1..N :
           /\ 1 + i <= Len(a)
           /\ Off(e, i) \in Nat
           /\ a[1 + i] = N + Off(e, i)
           /\ 1 + N + Off(e, i) + Len(e[i]) <= Len(a)
           /\ \A j \in 1..Len(e[i]) : a[1 + N + Off(e, i) + j] = e[i][j]
  <2>1. a \in Seq(W) /\ IsArray(a, e, N)
    BY <1>2, <1>5, ArrayWords
  <2>2. QED
    BY <2>1, Zenon DEF IsArray
<1> DEFINE off == [i \in 1..N |-> Off(e, i)]
<1>7. off \in [1..N -> Nat]
  BY <1>6
<1>8. ASSUME NEW i \in 1..N
      PROVE  /\ 1 + i <= Len(a) /\ a[1 + i] = N + off[i]
             /\ TupleAt(a, 1 + N + off[i], x[i], data[i])
  <2> DEFINE o == off[i]
             L == Len(data[i])
             v == u(i)
             t == 1 + N + o
  <2>1. o = Off(e, i) /\ e[i] = v
    BY <1>4
  <2>2. /\ 1 + i <= Len(a) /\ a[1 + i] = N + o
        /\ o \in Nat /\ t + Len(v) <= Len(a)
        /\ \A j \in 1..Len(v) : a[t + j] = v[j]
    BY <1>6, <2>1
  <2>3. /\ L \in Nat /\ Len(v) = 3 + L
        /\ v[1] = x[i] /\ v[2] = 2 /\ v[3] = L
        /\ \A j \in 1..L : v[3 + j] = data[i][j]
    BY <1>3
  <2> HIDE DEF o, off, L, v, t
  <2>4. t \in Nat
    BY <2>2 DEF t
  <2>5. 1 \in 1..Len(v) /\ 2 \in 1..Len(v) /\ 3 \in 1..Len(v)
    BY <2>3
  <2>6. a[t + 1] = x[i] /\ a[t + 2] = 2 /\ a[t + 3] = L
    BY <2>2, <2>3, <2>5
  <2>7. ASSUME NEW j \in 1..L PROVE a[t + 3 + j] = data[i][j]
    <3>1. 3 + j \in 1..Len(v) /\ t + (3 + j) = t + 3 + j
      BY <2>3, <2>4
    <3>2. a[t + (3 + j)] = v[3 + j] /\ v[3 + j] = data[i][j]
      BY <2>2, <2>3, <3>1
    <3>3. QED
      BY <3>1, <3>2
  <2>8. t + 3 + L <= Len(a)
    <3>1. Len(a) \in Nat
      BY <1>6
    <3>2. QED
      BY <2>2, <2>3, <2>4, <3>1
  <2>9. TupleAt(a, t, x[i], data[i])
    BY <2>6, <2>7, <2>8 DEF TupleAt, L
  <2>10. QED
    BY <2>2, <2>9 DEF t, o
<1> HIDE DEF off
<1>9. HasTuples(a, N, x, data, off)
  BY <1>6, <1>8 DEF HasTuples
<1>10. QED
  BY <1>6, <1>7, <1>9

\* An array of tuples behind h words.
TuplesBehind(m, h, N, x, data, off) ==
  /\ h + 1 <= Len(m) /\ m[h + 1] = N
  /\ \A i \in 1..N : /\ off[i] \in Nat
                     /\ h + 1 + i <= Len(m) /\ m[h + 1 + i] = N + off[i]
                     /\ TupleAt(m, h + 1 + N + off[i], x[i], data[i])

Behind(m, h, a) == Len(m) = h + Len(a) /\ \A p \in 1..Len(a) : m[h + p] = a[p]

\* They still do behind a head of h words.
LEMMA TupleArrayBehind ==
  ASSUME NEW W, Int \subseteq W, NEW N \in Nat, NEW x \in [1..N -> W],
         NEW data \in [1..N -> Seq(W)], NEW h \in Nat, NEW m,
         Behind(m, h, EncodeArray(Tuples(N, x, data)))
  PROVE  \E off : TuplesBehind(m, h, N, x, data, off)
<1> DEFINE a == EncodeArray(Tuples(N, x, data))
<1>0. a = EncodeArray(Tuples(N, x, data))
  OBVIOUS
<1>b. Behind(m, h, a)
  OBVIOUS
<1> HIDE DEF a
<1>a. PICK off \in [1..N -> Nat] : a \in Seq(W) /\ HasTuples(a, N, x, data, off)
  BY <1>0, TupleArray, Zenon
<1>1. /\ a \in Seq(W) /\ 1 <= Len(a) /\ a[1] = N
      /\ \A i \in 1..N : /\ 1 + i <= Len(a) /\ a[1 + i] = N + off[i]
                         /\ TupleAt(a, 1 + N + off[i], x[i], data[i])
  BY <1>a DEF HasTuples
<1>2. Len(a) \in Nat
  BY <1>1, LenProperties, Zenon
<1>3. Len(m) = h + Len(a) /\ \A p \in 1..Len(a) : m[h + p] = a[p]
  BY <1>b DEF Behind
<1>4. h + 1 <= Len(m) /\ m[h + 1] = N
  <2>1. 1 \in 1..Len(a)
    BY <1>1, <1>2
  <2>2. QED
    BY <1>1, <1>2, <1>3, <2>1
<1>5. ASSUME NEW i \in 1..N
      PROVE  /\ off[i] \in Nat
             /\ h + 1 + i <= Len(m) /\ m[h + 1 + i] = N + off[i]
             /\ TupleAt(m, h + 1 + N + off[i], x[i], data[i])
  <2> DEFINE o == off[i]
             L == Len(data[i])
             t == 1 + N + o
  <2>1. /\ o \in Nat /\ L \in Nat
        /\ 1 + i <= Len(a) /\ a[1 + i] = N + o
        /\ TupleAt(a, t, x[i], data[i])
    <3>1. data[i] \in Seq(W)
      OBVIOUS
    <3>2. L \in Nat
      BY <3>1, LenProperties, Zenon
    <3> HIDE DEF L
    <3>3. QED
      BY <1>1, <3>2
  <2> HIDE DEF o, L
  <2>2. h + 1 + i <= Len(m) /\ m[h + 1 + i] = N + o
    <3>1. 1 + i \in 1..Len(a) /\ h + (1 + i) = h + 1 + i
      BY <1>2, <2>1
    <3>2. m[h + (1 + i)] = a[1 + i]
      BY <1>3, <3>1
    <3>3. QED
      BY <1>2, <1>3, <2>1, <3>1, <3>2
  <2>3. /\ t + 3 + L <= Len(a) /\ a[t + 1] = x[i] /\ a[t + 2] = 2 /\ a[t + 3] = L
        /\ \A j \in 1..L : a[t + 3 + j] = data[i][j]
    BY <2>1, Zenon DEF TupleAt, L
  <2>4. t \in Nat /\ L \in Nat /\ t + 3 + L <= Len(a)
    BY <2>1, <2>3
  <2> HIDE DEF t
  <2> DEFINE s == h + t
  <2>5. /\ t + 1 \in 1..Len(a) /\ t + 2 \in 1..Len(a) /\ t + 3 \in 1..Len(a)
        /\ h + (t + 1) = s + 1 /\ h + (t + 2) = s + 2 /\ h + (t + 3) = s + 3
        /\ s + 3 + L <= h + Len(a)
    BY <1>2, <2>4
  <2>6. m[s + 1] = x[i] /\ m[s + 2] = 2 /\ m[s + 3] = L
    <3>1. /\ m[h + (t + 1)] = a[t + 1] /\ m[h + (t + 2)] = a[t + 2]
          /\ m[h + (t + 3)] = a[t + 3]
      BY <1>3, <2>5
    <3> HIDE DEF s
    <3>2. QED
      BY <2>3, <2>5, <3>1
  <2>7. ASSUME NEW j \in 1..L PROVE m[s + 3 + j] = data[i][j]
    <3>1. t + 3 + j \in 1..Len(a) /\ h + (t + 3 + j) = s + 3 + j
      BY <1>2, <2>4
    <3>2. m[h + (t + 3 + j)] = a[t + 3 + j] /\ a[t + 3 + j] = data[i][j]
      BY <1>3, <2>3, <3>1
    <3> HIDE DEF s
    <3>3. QED
      BY <3>1, <3>2
  <2>8. s = h + 1 + N + o
    BY <2>1 DEF t
  <2>9. s + 3 + L <= Len(m)
    BY <1>3, <2>5
  <2> HIDE DEF s
  <2>10. TupleAt(m, s, x[i], data[i])
    BY <2>6, <2>7, <2>9 DEF TupleAt, L
  <2>11. QED
    BY <2>1, <2>2, <2>8, <2>10 DEF o
<1>6. TuplesBehind(m, h, N, x, data, off)
  BY <1>4, <1>5 DEF TuplesBehind
<1>7. QED
  BY <1>1, <1>6

\* A tuple read where it is.
LEMMA ReadTuple ==
  ASSUME NEW W, NEW d \in Seq(W), NEW t \in Nat, NEW x, NEW data \in Seq(W),
         TupleAt(d, t, x, data)
  PROVE  /\ Word(d, t) = x /\ Word(d, t + 1) = 2 /\ Word(d, t + 2) = Len(data)
         /\ Slice(d, t + 3, Len(data)) = data
<1>1. Len(data) \in Nat
  OBVIOUS
<1>2. /\ t + 3 + Len(data) <= Len(d) /\ d[t + 1] = x /\ d[t + 2] = 2 /\ d[t + 3] = Len(data)
      /\ \A j \in 1..Len(data) : d[t + 3 + j] = data[j]
  BY DEF TupleAt
<1>3. (t + 1) + 1 = t + 2 /\ (t + 2) + 1 = t + 3 /\ t + 3 \in Nat
  OBVIOUS
<1>4. Word(d, t) = x /\ Word(d, t + 1) = 2 /\ Word(d, t + 2) = Len(data)
  BY <1>2, <1>3 DEF Word
<1>5. Slice(d, t + 3, Len(data)) = data
  BY <1>2, <1>3, SliceIs
<1>6. QED
  BY <1>4, <1>5

\* The flags and the data of results.
Flags(rs) == [i \in DOMAIN rs |-> IF rs[i].success THEN 1 ELSE 0]
Datas(rs) == [i \in DOMAIN rs |-> rs[i].data]

\* What the contract answers: results behind one word (multicall.go:136-173).
LEMMA ResultWords ==
  ASSUME NEW W, Int \subseteq W, NEW rs \in Seq([success : BOOLEAN, data : Seq(W)])
  PROVE  /\ EncodeResults(rs) \in Seq(W) /\ EncodeResults(rs)[1] = 1
         /\ \E off : TuplesBehind(EncodeResults(rs), 1, Len(rs), Flags(rs), Datas(rs), off)
<1> DEFINE N == Len(rs)
           x == Flags(rs)
           data == Datas(rs)
           a == EncodeArray(Tuples(N, x, data))
           raw == EncodeResults(rs)
<1>1. /\ N \in Nat /\ DOMAIN rs = 1..N
      /\ \A i \in 1..N : rs[i] \in [success : BOOLEAN, data : Seq(W)]
  BY SeqFacts, Zenon
<1>2. x \in [1..N -> W] /\ data \in [1..N -> Seq(W)]
  BY <1>1 DEF Flags, Datas
<1>3. raw = <<1>> \o a
  <2>1. [i \in DOMAIN rs |-> <<IF rs[i].success THEN 1 ELSE 0, 2, Len(rs[i].data)>> \o rs[i].data]
          = [i \in 1..N |-> <<x[i], 2, Len(data[i])>> \o data[i]]
    BY <1>1, Zenon DEF Flags, Datas
  <2>2. QED
    BY <2>1, Zenon DEF EncodeResults, Tuples
<1>4. a = EncodeArray(Tuples(N, x, data))
  OBVIOUS
<1> HIDE DEF N, x, data, raw, a
<1>5. a \in Seq(W)
  BY <1>1, <1>2, <1>4, TupleArray, Zenon
<1>6. /\ raw \in Seq(W) /\ Len(a) \in Nat /\ Len(raw) = 1 + Len(a) /\ raw[1] = 1
      /\ \A p \in 1..Len(a) : raw[1 + p] = a[p]
  <2>1. 1 \in W
    OBVIOUS
  <2>2. QED
    BY <1>3, <1>5, <2>1, BehindOne
<1>7. Behind(raw, 1, EncodeArray(Tuples(N, x, data)))
  BY <1>4, <1>6 DEF Behind
<1>8. \E off : TuplesBehind(raw, 1, N, x, data, off)
  <2>1. 1 \in Nat
    OBVIOUS
  <2>2. QED
    BY <1>1, <1>2, <1>7, <2>1, TupleArrayBehind, Zenon
<1>9. QED
  BY <1>6, <1>8, Zenon DEF N, x, data, raw

\* decodeTryAggregate undoes the encoding of the contract, also when what came back was
\* cut short, as long as it decodes.
THEOREM DecodeUndoes ==
  ASSUME NEW W, Int \subseteq W, NEW rs \in Seq([success : BOOLEAN, data : Seq(W)]),
         NEW d \in Seq(W), Len(d) <= Len(EncodeResults(rs)),
         \A p \in 1..Len(d) : d[p] = EncodeResults(rs)[p],
         Decodes(d, Len(rs))
  PROVE  DecodeTryAggregate(d, Len(rs)) = rs
<1> DEFINE N == Len(rs)
           raw == EncodeResults(rs)
           n == Len(d)
           x == Flags(rs)
           data == Datas(rs)
<1>1. /\ N \in Nat /\ DOMAIN rs = 1..N /\ n \in Nat
      /\ \A i \in 1..N : rs[i] \in [success : BOOLEAN, data : Seq(W)]
  BY SeqFacts, Zenon
<1>2. PICK off : raw[1] = 1 /\ TuplesBehind(raw, 1, N, x, data, off)
  BY ResultWords
<1>3. /\ \A p \in 1..n : d[p] = raw[p]
      /\ n <= Len(raw)
  OBVIOUS
<1>4. /\ n >= 2
      /\ \A i \in 1..N : ElementsBase(d) + i <= n /\ TupleFits(d, Element(d, i))
  BY DEF Decodes
<1>5. ElementsBase(d) = 2
  <2>1. 1 \in 1..n
    BY <1>1, <1>4
  <2>2. d[1] = 1
    BY <1>2, <1>3, <2>1
  <2>3. QED
    BY <2>2 DEF ElementsBase, Word
<1> HIDE DEF raw, n, N, x, data
<1>6. ASSUME NEW i \in 1..N PROVE DecodeResultTuple(d, Element(d, i)) = rs[i]
  <2> DEFINE L == Len(data[i])
             t == 2 + N + off[i]
  <2>1. /\ off[i] \in Nat /\ raw[2 + i] = N + off[i]
        /\ TupleAt(raw, t, x[i], data[i])
    BY <1>2, <1>1 DEF TuplesBehind
  <2>2. data[i] \in Seq(W) /\ data[i] = rs[i].data /\ x[i] = IF rs[i].success THEN 1 ELSE 0
    BY <1>1 DEF data, x, Flags, Datas
  <2>3. L \in Nat
    BY <2>2, LenProperties, Zenon
  <2>4. t \in Nat
    BY <1>1, <2>1
  <2>5. Element(d, i) = t
    <3>1. 2 + i \in 1..n
      <4>1. 2 + i <= n
        BY <1>4, <1>5, Zenon
      <4>2. n \in Nat /\ N \in Nat
        BY <1>1
      <4>3. QED
        BY <4>1, <4>2
    <3>2. d[2 + i] = N + off[i]
      BY <1>3, <2>1, <3>1
    <3>3. (2 + i - 1) + 1 = 2 + i
      BY <1>1
    <3>4. QED
      BY <1>1, <1>5, <2>1, <3>2, <3>3 DEF Element, Word
  <2> HIDE DEF L, t
  <2>6. TupleFits(d, t)
    BY <1>4, <2>5
  <2>7. /\ raw[t + 1] = x[i] /\ raw[t + 2] = 2 /\ raw[t + 3] = L
        /\ \A j \in 1..L : raw[t + 3 + j] = data[i][j]
    BY <2>1, Zenon DEF TupleAt, L
  <2>8. t + 2 <= n /\ (t + Word(d, t + 1)) + 1 <= n
        /\ (t + Word(d, t + 1)) + 1 + Word(d, t + Word(d, t + 1)) <= n
    BY <2>6 DEF TupleFits, n
  <2>9. d[t + 2] = 2
    <3>1. t + 2 \in 1..n
      BY <1>1, <2>4, <2>8
    <3>2. QED
      BY <1>3, <2>7, <3>1
  <2>10. Word(d, t + 1) = 2
    <3>1. (t + 1) + 1 = t + 2
      BY <2>4
    <3>2. QED
      BY <2>9, <3>1, Zenon DEF Word
  <2>11. t + 2 + 1 <= n /\ t + 2 + 1 + Word(d, t + 2) <= n
    BY <2>8, <2>10
  <2>12. d[t + 3] = L
    <3>1. t + 3 \in 1..n
      BY <1>1, <2>4, <2>11
    <3>2. QED
      BY <1>3, <2>7, <3>1
  <2>13. t + 3 + L <= n
    <3>1. (t + 2) + 1 = t + 3
      BY <2>4
    <3>2. Word(d, t + 2) = L
      BY <2>12, <3>1, Zenon DEF Word
    <3>3. QED
      BY <2>3, <2>4, <2>11, <3>2
  <2>14. ASSUME NEW j \in 1..L PROVE d[t + 3 + j] = data[i][j]
    <3>1. t + 3 + j \in 1..n
      BY <1>1, <2>3, <2>4, <2>13
    <3>2. QED
      BY <1>3, <2>7, <3>1
  <2>15. d[t + 1] = x[i]
    <3>1. t + 1 \in 1..n
      BY <1>1, <2>4, <2>8
    <3>2. QED
      BY <1>3, <2>7, <3>1
  <2>16. TupleAt(d, t, x[i], data[i])
    BY <2>9, <2>12, <2>13, <2>14, <2>15 DEF TupleAt, L, n
  <2>17. /\ Word(d, t) = x[i] /\ Word(d, t + 2) = L
         /\ Slice(d, t + 3, L) = data[i]
    BY <2>2, <2>4, <2>16, ReadTuple, SMTT(30) DEF L
  <2>18. DecodeResultTuple(d, t) = [success |-> x[i] # 0, data |-> data[i]]
    <3>1. (t + 2) + 1 = t + 3
      BY <2>4
    <3>2. QED
      BY <2>10, <2>17, <3>1, Zenon DEF DecodeResultTuple
  <2>19. rs[i] = [success |-> x[i] # 0, data |-> data[i]]
    <3>1. rs[i] = [success |-> rs[i].success, data |-> rs[i].data] /\ rs[i].success \in BOOLEAN
      BY <1>1
    <3>2. rs[i].success = (x[i] # 0)
      BY <2>2, <3>1
    <3>3. QED
      BY <2>2, <3>1, <3>2, Zenon
  <2>20. QED
    BY <2>5, <2>18, <2>19
<1>7. rs = [i \in 1..N |-> rs[i]]
  BY <1>1
<1>8. QED
  BY <1>6, <1>7, Zenon DEF DecodeTryAggregate, N

\* The contract finds the calls of a request as they were encoded.
THEOREM CallsUndo ==
  ASSUME NEW W, Int \subseteq W, NEW cs \in Seq([target : W, data : Seq(W)])
  PROVE  CallsIn(EncodeTryAggregate(cs)) = cs
<1> DEFINE N == Len(cs)
           x == [i \in 1..N |-> cs[i].target]
           data == [i \in 1..N |-> cs[i].data]
           a == EncodeArray(Tuples(N, x, data))
           m == EncodeTryAggregate(cs)
           h == <<0, 2>>
<1>1. /\ N \in Nat /\ DOMAIN cs = 1..N
      /\ \A i \in 1..N : cs[i] \in [target : W, data : Seq(W)]
  BY SeqFacts, Zenon
<1>2. x \in [1..N -> W] /\ data \in [1..N -> Seq(W)]
  BY <1>1
<1>3. m = h \o a
  <2>1. [i \in DOMAIN cs |-> EncodeCallTuple(cs[i])]
          = [i \in 1..N |-> <<x[i], 2, Len(data[i])>> \o data[i]]
    BY <1>1, Zenon DEF EncodeCallTuple
  <2>2. QED
    BY <2>1, Zenon DEF EncodeTryAggregate, Tuples
<1>4. a = EncodeArray(Tuples(N, x, data))
  OBVIOUS
<1>5. \A i \in 1..N : /\ x[i] = cs[i].target /\ data[i] = cs[i].data
                      /\ cs[i] = [target |-> cs[i].target, data |-> cs[i].data]
  BY <1>1
<1>6. h \in Seq(W) /\ Len(h) = 2 /\ h[2] = 2
  <2>1. 0 \in W /\ 2 \in W
    OBVIOUS
  <2>2. QED
    BY <2>1
<1> HIDE DEF N, x, data, m, a, h
<1>7. a \in Seq(W)
  BY <1>1, <1>2, <1>4, TupleArray, Zenon
<1>8. /\ m \in Seq(W) /\ Len(a) \in Nat /\ Len(m) = 2 + Len(a) /\ m[2] = 2
      /\ \A p \in 1..Len(a) : m[2 + p] = a[p]
  <2>1. h \in Seq(W)
    BY <1>6
  <2>2. /\ h \o a \in Seq(W) /\ Len(a) \in Nat /\ Len(h \o a) = Len(h) + Len(a)
        /\ \A p \in 1..Len(h) : (h \o a)[p] = h[p]
        /\ \A p \in 1..Len(a) : (h \o a)[Len(h) + p] = a[p]
    BY <1>7, <2>1, Joining
  <2>3. /\ m \in Seq(W) /\ Len(a) \in Nat /\ Len(m) = Len(h) + Len(a)
        /\ \A p \in 1..Len(h) : m[p] = h[p]
        /\ \A p \in 1..Len(a) : m[Len(h) + p] = a[p]
    BY <1>3, <2>2, Zenon
  <2>4. 2 \in 1..2
    OBVIOUS
  <2>5. QED
    BY <1>6, <2>3, <2>4
<1>9. Behind(m, 2, EncodeArray(Tuples(N, x, data)))
  BY <1>4, <1>8 DEF Behind
<1>10. PICK off : TuplesBehind(m, 2, N, x, data, off)
  <2>1. 2 \in Nat
    OBVIOUS
  <2>2. QED
    BY <1>1, <1>2, <1>9, <2>1, TupleArrayBehind, Zenon
<1>11. /\ m[3] = N
       /\ \A i \in 1..N : /\ off[i] \in Nat /\ m[3 + i] = N + off[i]
                          /\ TupleAt(m, 3 + N + off[i], x[i], data[i])
  BY <1>1, <1>10 DEF TuplesBehind
<1> DEFINE base == Word(m, 1) + 1
           At(i) == base + Word(m, base + i - 1)
           Data(at) == at + Word(m, at + 1)
<1>12. base = 3
  BY <1>8 DEF Word
<1>13. Word(m, base - 1) = N
  BY <1>11, <1>12 DEF Word
<1> HIDE DEF base
<1>14. ASSUME NEW i \in 1..N
       PROVE  [target |-> Word(m, At(i)),
               data |-> Slice(m, Data(At(i)) + 1, Word(m, Data(At(i))))] = cs[i]
  <2> DEFINE t == 3 + N + off[i]
  <2>1. off[i] \in Nat /\ m[3 + i] = N + off[i] /\ TupleAt(m, t, x[i], data[i])
    BY <1>11
  <2>2. t \in Nat
    BY <1>1, <2>1
  <2>3. At(i) = t
    <3>1. (3 + i - 1) + 1 = 3 + i
      BY <1>1
    <3>2. QED
      BY <1>1, <1>12, <2>1, <3>1 DEF Word
  <2> HIDE DEF t, At
  <2>4. data[i] \in Seq(W)
    BY <1>2
  <2>5. /\ Word(m, t) = x[i] /\ Word(m, t + 1) = 2 /\ Word(m, t + 2) = Len(data[i])
        /\ Slice(m, t + 3, Len(data[i])) = data[i]
    BY <1>8, <2>1, <2>2, <2>4, ReadTuple
  <2>6. Data(t) = t + 2 /\ (t + 2) + 1 = t + 3
    BY <2>2, <2>5
  <2> HIDE DEF Data
  <2>7. QED
    BY <1>5, <2>3, <2>5, <2>6, Zenon
<1>15. CallsIn(m) = [i \in 1..N |-> [target |-> Word(m, At(i)),
                        data |-> Slice(m, Data(At(i)) + 1, Word(m, Data(At(i))))]]
  BY <1>13, Zenon DEF CallsIn, base
<1> HIDE DEF At, Data
<1>16. CallsIn(m) = [i \in 1..N |-> cs[i]]
  BY <1>14, <1>15, Zenon
<1>17. cs = [i \in 1..N |-> cs[i]]
  BY <1>1
<1>18. QED
  BY <1>16, <1>17 DEF m

----------------------------------------------------------------------------
(* Ascending.                                                              *)

\* How many members of S are no greater than x.
Rank(S, x) == Cardinality({y \in S : y <= x})

\* Ranks are between 1 and the size of the set.
LEMMA RankRange ==
  ASSUME NEW S, IsFiniteSet(S), S \subseteq Int, NEW x \in S
  PROVE  Rank(S, x) \in 1..Cardinality(S)
<1> DEFINE L == {y \in S : y <= x}
<1>1. L \in SUBSET S /\ x \in L
  OBVIOUS
<1>2. IsFiniteSet(L) /\ Cardinality(L) <= Cardinality(S)
  BY <1>1, FS_Subset
<1>3. Cardinality(L) \in Nat /\ Cardinality(S) \in Nat
  BY <1>2, FS_CardinalityType
<1>4. Cardinality(L) # 0
  BY <1>1, <1>2, FS_EmptySet
<1>5. Cardinality(L) \in 1..Cardinality(S)
  BY <1>2, <1>3, <1>4
<1>6. QED
  BY <1>5 DEF Rank

\* Two members have two ranks.
LEMMA RankGrows ==
  ASSUME NEW S, IsFiniteSet(S), S \subseteq Int, NEW x \in S, NEW z \in S, x < z
  PROVE  Rank(S, x) # Rank(S, z)
<1> DEFINE L(v) == {y \in S : y <= v}
<1>1. L(z) \in SUBSET S
  OBVIOUS
<1>2. IsFiniteSet(L(z))
  BY <1>1, FS_Subset
<1>3. \A y \in S : y <= x => y <= z
  BY x \in Int, z \in Int
<1>4. L(x) \in SUBSET L(z)
  BY <1>3
<1>5. ~(z <= x)
  BY x \in Int, z \in Int
<1>6. L(x) # L(z)
  <2>1. z \in L(z)
    BY z \in Int
  <2>2. z \notin L(x)
    BY <1>5
  <2>3. QED
    BY <2>1, <2>2
<1>7. Cardinality(L(z)) # Cardinality(L(x))
  <2> HIDE DEF L
  <2>1. QED
    BY <1>2, <1>4, <1>6, FS_Subset
<1>8. QED
  BY <1>7 DEF Rank

\* There is a member of every rank.
LEMMA RankOnto ==
  ASSUME NEW S, IsFiniteSet(S), S \subseteq Int, NEW k \in 1..Cardinality(S)
  PROVE  \E x \in S : Rank(S, x) = k
<1> SUFFICES ASSUME \A x \in S : Rank(S, x) # k PROVE FALSE
  OBVIOUS
<1> DEFINE n == Cardinality(S)
           T == (1..n) \ {k}
           f == [x \in S |-> Rank(S, x)]
<1>1. n \in Nat
  BY FS_CardinalityType
<1>2. IsFiniteSet(1..n) /\ Cardinality(1..n) = n
  <2>1. 1 \in Int /\ n \in Int
    BY <1>1
  <2>2. IsFiniteSet(1..n) /\ Cardinality(1..n) = IF 1 > n THEN 0 ELSE n - 1 + 1
    BY <2>1, FS_Interval
  <2>3. QED
    BY <1>1, <2>2
<1>3. IsFiniteSet(T) /\ Cardinality(T) = n - 1
  BY <1>2, FS_RemoveElement
<1>4. Cardinality(T) < n
  BY <1>1, <1>3
<1>5. f \in [S -> T]
  BY RankRange
<1>6. PICK x \in S, y \in S : x # y /\ f[x] = f[y]
  <2> HIDE DEF f, T
  <2>1. QED
    BY <1>3, <1>4, <1>5, FS_PigeonHole
<1>7. Rank(S, x) = Rank(S, y)
  BY <1>6
<1>8. x < y \/ y < x
  BY <1>6, x \in Int, y \in Int
<1>9. QED
  BY <1>7, <1>8, RankGrows

\* Ascending lists the members of a finite set of numbers, all of them.
LEMMA AscendingFacts ==
  ASSUME NEW S, IsFiniteSet(S), S \subseteq Int
  PROVE  /\ Ascending(S) \in Seq(S) /\ Len(Ascending(S)) = Cardinality(S)
         /\ Cardinality(S) \in Nat
         /\ \A x \in S : \E k \in DOMAIN Ascending(S) : Ascending(S)[k] = x
<1> DEFINE n == Cardinality(S)
<1>1. n \in Nat
  BY FS_CardinalityType
<1>2. Ascending(S) = [k \in 1..n |-> CHOOSE x \in S : Rank(S, x) = k]
  BY DEF Ascending, Rank
<1>3. \A k \in 1..n : Ascending(S)[k] \in S /\ Rank(S, Ascending(S)[k]) = k
  BY <1>2, RankOnto
<1> HIDE DEF n
<1>4. Ascending(S) \in [1..n -> S]
  BY <1>2, <1>3
<1>5. Ascending(S) \in Seq(S)
  BY <1>1, <1>4
<1>6. Len(Ascending(S)) = n /\ DOMAIN Ascending(S) = 1..n
  BY <1>1, <1>4, <1>5
<1>7. ASSUME NEW x \in S PROVE \E k \in 1..n : Ascending(S)[k] = x
  <2> DEFINE k == Rank(S, x)
  <2>1. k \in 1..n
    BY RankRange DEF n
  <2>2. Ascending(S)[k] \in S /\ Rank(S, Ascending(S)[k]) = k
    BY <2>1, <1>3
  <2>3. Ascending(S)[k] \in Int /\ x \in Int
    BY <2>2
  <2>4. ~(Ascending(S)[k] < x) /\ ~(x < Ascending(S)[k])
    BY <2>2, RankGrows
  <2>5. Ascending(S)[k] = x
    BY <2>3, <2>4
  <2>6. QED
    BY <2>1, <2>5
<1>8. QED
  BY <1>1, <1>5, <1>6, <1>7 DEF n

----------------------------------------------------------------------------
(* Candidates and windows.                                                 *)

V3Addresses == {<<"v3", t, u, f>> : t \in Tokens, u \in Tokens, f \in Range(FeeTiers)}

V2Addresses == {<<"v2", t, u>> : t \in Tokens, u \in Tokens}

\* The address of a Uniswap pool tells that it is one.
LEMMA V3Address ==
  ASSUME NEW a \in V3Addresses
  PROVE  a[1] = "v3"
BY DEF V3Addresses

\* So does that of a Sushiswap pair.
LEMMA V2Address ==
  ASSUME NEW a \in V2Addresses
  PROVE  a[1] = "v2"
BY DEF V2Addresses

\* A sequence given by its length and its elements.
LEMMA Listing ==
  ASSUME NEW S, NEW n \in Nat, NEW s \in [1..n -> S]
  PROVE  s \in Seq(S) /\ Len(s) = n /\ DOMAIN s = 1..n
<1>1. s \in Seq(S)
  OBVIOUS
<1>2. QED
  BY <1>1

\* What FlattenSeq makes of lists of S is a list of S.
LEMMA FlatType ==
  ASSUME NEW S, NEW s \in Seq(Seq(S))
  PROVE  FlattenSeq(s) \in Seq(S)
<1>1. Len(s) \in Nat
  BY SeqFacts, Zenon
<1>2. Len(s) \in 0..Len(s)
  BY <1>1
<1>3. QED
  BY <1>2, JoinedFacts, Zenon

\* The pairs are pairs of tokens (addresses.go, pairs of the token list).
LEMMA PairsFacts ==
  PairsOf(Tokens) \in Seq(Tokens \X Tokens)
<1> DEFINE s == Ascending(Tokens)
           row(i) == [j \in 1..(Len(s) - i) |-> <<s[i], s[i + j]>>]
           rows == [i \in DOMAIN s |-> row(i)]
<1>1. s \in Seq(Tokens) /\ Len(s) \in Nat /\ DOMAIN s = 1..Len(s)
  <2>1. Tokens \subseteq Int /\ IsFiniteSet(Tokens)
    BY ReaderAssumption
  <2>2. s \in Seq(Tokens)
    BY <2>1, AscendingFacts
  <2>3. QED
    BY <2>2, SeqFacts, Zenon
<1>2. \A i \in 1..Len(s) : s[i] \in Tokens
  BY <1>1
<1> HIDE DEF s
<1>3. ASSUME NEW i \in 1..Len(s) PROVE row(i) \in Seq(Tokens \X Tokens)
  <2>1. Len(s) - i \in Nat
    BY <1>1
  <2>2. \A j \in 1..(Len(s) - i) : i + j \in 1..Len(s)
    BY <1>1
  <2>3. row(i) \in [1..(Len(s) - i) -> Tokens \X Tokens]
    BY <1>2, <2>2
  <2>4. QED
    BY <2>1, <2>3, Listing
<1>4. rows \in [1..Len(s) -> Seq(Tokens \X Tokens)]
  <2> HIDE DEF row
  <2>1. QED
    BY <1>1, <1>3
<1>5. rows \in Seq(Seq(Tokens \X Tokens))
  <2> HIDE DEF rows
  <2>1. QED
    BY <1>1, <1>4, Listing, Zenon
<1>6. FlattenSeq(rows) \in Seq(Tokens \X Tokens)
  BY <1>5, FlatType, Zenon
<1>7. PairsOf(Tokens) = FlattenSeq(rows)
  BY DEF PairsOf, s
<1>8. QED
  BY <1>6, <1>7, Zenon

CandidateSet == [address : V3Addresses, token0 : Tokens, token1 : Tokens, fee : Range(FeeTiers)]

PairSet == [address : V2Addresses, token0 : Tokens, token1 : Tokens]

\* Every candidate of the Uniswap source has the address of its tokens and fee.
LEMMA CandidatesFacts ==
  Candidates \in Seq(CandidateSet)
<1> DEFINE P == PairsOf(Tokens)
           cand(i, j) == [address |-> <<"v3", P[i][1], P[i][2], FeeTiers[j]>>,
                          token0 |-> P[i][1], token1 |-> P[i][2], fee |-> FeeTiers[j]]
           row(i) == [j \in DOMAIN FeeTiers |-> cand(i, j)]
           rows == [i \in DOMAIN P |-> row(i)]
<1>1. P \in Seq(Tokens \X Tokens)
  BY PairsFacts
<1>2. Len(P) \in Nat /\ DOMAIN P = 1..Len(P) /\ \A i \in 1..Len(P) : P[i] \in Tokens \X Tokens
  BY <1>1, SeqFacts, Zenon
<1>3. FeeTiers \in Seq(Range(FeeTiers))
  BY ReaderAssumption
<1>4. /\ Len(FeeTiers) \in Nat /\ DOMAIN FeeTiers = 1..Len(FeeTiers)
      /\ \A j \in 1..Len(FeeTiers) : FeeTiers[j] \in Range(FeeTiers)
  BY <1>3, SeqFacts, Zenon
<1> HIDE DEF P
<1>5. ASSUME NEW i \in 1..Len(P), NEW j \in 1..Len(FeeTiers)
      PROVE  cand(i, j) \in CandidateSet
  <2>1. PICK t \in Tokens, u \in Tokens : P[i] = <<t, u>>
    BY <1>2
  <2>2. PICK f \in Range(FeeTiers) : FeeTiers[j] = f
    BY <1>4
  <2>3. <<"v3", t, u, f>> \in V3Addresses
    BY DEF V3Addresses
  <2>4. QED
    BY <2>1, <2>2, <2>3 DEF CandidateSet
<1>6. ASSUME NEW i \in 1..Len(P) PROVE row(i) \in Seq(CandidateSet)
  <2> HIDE DEF cand
  <2>1. row(i) \in [1..Len(FeeTiers) -> CandidateSet]
    BY <1>4, <1>5
  <2>2. QED
    BY <1>4, <2>1, Listing
<1>7. rows \in [1..Len(P) -> Seq(CandidateSet)]
  <2> HIDE DEF row
  <2>1. QED
    BY <1>2, <1>6
<1>8. rows \in Seq(Seq(CandidateSet))
  <2> HIDE DEF rows
  <2>1. QED
    BY <1>2, <1>7, Listing, Zenon
<1>9. FlattenSeq(rows) \in Seq(CandidateSet)
  BY <1>8, FlatType, Zenon
<1>10. Candidates = FlattenSeq(rows)
  BY DEF Candidates, P
<1>11. QED
  BY <1>9, <1>10, Zenon

\* Every candidate of the Sushiswap source has the address of its tokens.
LEMMA PairCandidatesFacts ==
  PairCandidates \in Seq(PairSet)
<1> DEFINE P == PairsOf(Tokens)
<1>1. P \in Seq(Tokens \X Tokens)
  BY PairsFacts
<1>2. Len(P) \in Nat /\ DOMAIN P = 1..Len(P) /\ \A i \in 1..Len(P) : P[i] \in Tokens \X Tokens
  BY <1>1, SeqFacts, Zenon
<1>3. PairCandidates = [i \in DOMAIN P |-> [address |-> <<"v2", P[i][1], P[i][2]>>,
                                            token0 |-> P[i][1], token1 |-> P[i][2]]]
  BY DEF PairCandidates
<1> HIDE DEF P
<1>4. ASSUME NEW i \in 1..Len(P)
      PROVE  [address |-> <<"v2", P[i][1], P[i][2]>>,
              token0 |-> P[i][1], token1 |-> P[i][2]] \in PairSet
  <2>1. PICK t \in Tokens, u \in Tokens : P[i] = <<t, u>>
    BY <1>2
  <2>2. <<"v2", t, u>> \in V2Addresses
    BY DEF V2Addresses
  <2>3. QED
    BY <2>1, <2>2 DEF PairSet
<1>5. PairCandidates \in [1..Len(P) -> PairSet]
  BY <1>2, <1>3, <1>4
<1>6. QED
  BY <1>2, <1>5, Listing, Zenon

\* The members of a set of places of a sequence, the first place first.
LEMMA AscendingPlaces ==
  ASSUME NEW n \in Nat, NEW T, T \subseteq 1..n
  PROVE  /\ Ascending(T) \in Seq(T) /\ Len(Ascending(T)) \in Nat
         /\ DOMAIN Ascending(T) = 1..Len(Ascending(T))
         /\ \A k \in DOMAIN Ascending(T) : Ascending(T)[k] \in T
         /\ \A x \in T : \E k \in DOMAIN Ascending(T) : Ascending(T)[k] = x
<1>1. IsFiniteSet(1..n)
  BY FS_Interval
<1>2. IsFiniteSet(T) /\ T \subseteq Int
  <2>1. T \in SUBSET (1..n)
    OBVIOUS
  <2>2. IsFiniteSet(T)
    BY <1>1, <2>1, FS_Subset, Zenon
  <2>3. QED
    BY <2>2
<1>3. /\ Ascending(T) \in Seq(T)
      /\ \A x \in T : \E k \in DOMAIN Ascending(T) : Ascending(T)[k] = x
  BY <1>2, AscendingFacts
<1>4. /\ Len(Ascending(T)) \in Nat /\ DOMAIN Ascending(T) = 1..Len(Ascending(T))
      /\ \A k \in 1..Len(Ascending(T)) : Ascending(T)[k] \in T
  BY <1>3, SeqFacts, Zenon
<1>5. QED
  BY <1>3, <1>4, Zenon

\* A window holds ticks of the allowed range, whatever the price and the spacing.
LEMMA WindowFacts ==
  ASSUME NEW current, NEW spacing
  PROVE  WindowTicks(current, spacing) \in Seq(MinTick..MaxTick)
<1>1. MinTick \in Int /\ MaxTick \in Int
  BY WordAssumption DEF Width
<1>2. IsFiniteSet(MinTick..MaxTick)
  BY <1>1, FS_Interval
<1>3. \A T : /\ IsFiniteSet(T \cap (MinTick..MaxTick))
             /\ T \cap (MinTick..MaxTick) \subseteq Int
  <2>1. \A T : IsFiniteSet(T \cap (MinTick..MaxTick))
    BY <1>2, FS_Intersection, Zenon
  <2>2. \A T : T \cap (MinTick..MaxTick) \subseteq Int
    BY <1>1
  <2>3. QED
    BY <2>1, <2>2
<1>4. \A T : Ascending(T \cap (MinTick..MaxTick)) \in Seq(T \cap (MinTick..MaxTick))
  BY <1>3, AscendingFacts, Zenon
<1>5. \A T : Ascending(T \cap (MinTick..MaxTick)) \in Seq(MinTick..MaxTick)
  <2>1. ASSUME NEW T PROVE Ascending(T \cap (MinTick..MaxTick)) \in Seq(MinTick..MaxTick)
    <3> DEFINE U == T \cap (MinTick..MaxTick)
               a == Ascending(U)
    <3>1. a \in Seq(U) /\ U \subseteq MinTick..MaxTick
      BY <1>4
    <3> HIDE DEF a, U
    <3>2. Len(a) \in Nat /\ a \in [1..Len(a) -> U]
      BY <3>1, LenProperties, Zenon
    <3>3. a \in [1..Len(a) -> MinTick..MaxTick]
      BY <3>1, <3>2
    <3>4. a \in Seq(MinTick..MaxTick)
      BY <3>2, <3>3, Listing, Zenon
    <3>5. QED
      BY <3>4 DEF a, U
  <2>2. QED
    BY <2>1
<1>6. QED
  BY <1>5, Zenon DEF WindowTicks

----------------------------------------------------------------------------
(* Words.                                                                  *)

\* The remainder of a division.
LEMMA ModFacts ==
  ASSUME NEW a \in Int, NEW m \in Nat \ {0}
  PROVE  a % m \in 0..(m - 1)
OBVIOUS

\* A remainder is known by a quotient that fits.
LEMMA ModIs ==
  ASSUME NEW a \in Int, NEW m \in Nat \ {0}, NEW q \in Int, NEW r \in 0..(m - 1), a = m * q + r
  PROVE  a % m = r
OBVIOUS

\* Half of a number, rounded down.
LEMMA HalfFacts ==
  ASSUME NEW m \in Nat \ {0}
  PROVE  m \div 2 \in Nat /\ 2 * (m \div 2) <= m /\ m <= 2 * (m \div 2) + 1
OBVIOUS

\* An int24 survives the word it travels in.
LEMMA TickTravels ==
  ASSUME NEW t \in Width(TickMod)
  PROVE  EncodeSigned(t) \in Int /\ DecodeInt24(EncodeSigned(t)) = t
<1> DEFINE m == TickMod
           q == WordMod \div TickMod
           h == TickMod \div 2
<1>1. m \in Nat \ {0} /\ WordMod \in Nat \ {0} /\ WordMod = m * q
  BY WordAssumption
<1>2. q \in Nat
  BY <1>1
<1>3. h \in Nat /\ 2 * h <= m
  BY <1>1, HalfFacts
<1>4. t \in Int /\ -h <= t /\ t <= h - 1
  BY <1>3 DEF Width
<1>a. \A r : r = (t % WordMod) % m =>
              DecodeInt24(EncodeSigned(t)) = IF r >= h THEN r - m ELSE r
  BY DEF DecodeInt24, EncodeSigned, Signed
<1>b. EncodeSigned(t) \in Int
  <2>1. t % WordMod \in 0..(WordMod - 1)
    BY <1>1, <1>4, ModFacts
  <2>2. QED
    BY <1>1, <2>1 DEF EncodeSigned
<1> HIDE DEF m, q, h
<1>5. q >= 1 /\ m <= WordMod
  <2>1. q # 0
    BY <1>1
  <2>2. m * q >= m
    BY <1>1, <1>2, <2>1
  <2>3. QED
    BY <1>1, <1>2, <2>1, <2>2
<1>6. CASE t >= 0
  <2>1. t \in 0..(m - 1) /\ t \in 0..(WordMod - 1)
    BY <1>1, <1>3, <1>4, <1>5, <1>6
  <2>2. t % WordMod = t /\ t % m = t
    <3>1. t = WordMod * 0 + t /\ t = m * 0 + t /\ 0 \in Int
      BY <1>1, <1>4
    <3>2. QED
      BY <1>1, <1>4, <2>1, <3>1, ModIs, SMTT(30)
  <2>3. ~(t >= h)
    BY <1>3, <1>4
  <2>4. DecodeInt24(EncodeSigned(t)) = IF t >= h THEN t - m ELSE t
    BY <1>a, <2>2, Zenon
  <2>5. QED
    BY <1>b, <2>3, <2>4
<1>7. CASE t < 0
  <2>1. t + m \in 0..(m - 1) /\ t + WordMod \in 0..(WordMod - 1)
    BY <1>1, <1>3, <1>4, <1>5, <1>7
  <2>2. t % WordMod = t + WordMod
    <3>1. t = WordMod * (-1) + (t + WordMod) /\ -1 \in Int
      BY <1>1, <1>4
    <3>2. QED
      BY <1>1, <1>4, <2>1, <3>1, ModIs
  <2>3. (t + WordMod) % m = t + m
    <3>1. t + WordMod \in Int /\ q - 1 \in Int
      BY <1>1, <1>2, <1>4
    <3>2. m * (q - 1) = m * q - m
      BY <1>1, <1>2
    <3>3. t + WordMod = m * (q - 1) + (t + m)
      BY <1>1, <1>2, <1>4, <3>2
    <3>4. QED
      BY <1>1, <2>1, <3>1, <3>3, ModIs
  <2>4. PICK r : r = t + m
    OBVIOUS
  <2>5. r = (t % WordMod) % m
    BY <2>2, <2>3, <2>4, Zenon
  <2>6. DecodeInt24(EncodeSigned(t)) = IF r >= h THEN r - m ELSE r
    BY <1>a, <2>5, Zenon
  <2>7. r \in Int /\ r >= h /\ r - m = t
    BY <1>1, <1>3, <1>4, <2>4
  <2>8. QED
    BY <1>b, <2>6, <2>7
<1>8. QED
  BY <1>4, <1>6, <1>7

\* So does an int128 that is not negative.
LEMMA NetTravels ==
  ASSUME NEW n \in Width(NetMod)
  PROVE  EncodeSigned(n) \in Int /\ (n >= 0 => DecodeNet(EncodeSigned(n)) = n)
<1> DEFINE h == NetMod \div 2
<1>1. NetMod \in Nat \ {0} /\ WordMod \in Nat \ {0} /\ NetMod <= WordMod
  BY WordAssumption
<1>2. h \in Nat /\ 2 * h <= NetMod
  BY <1>1, HalfFacts
<1>3. n \in Int /\ -h <= n /\ n <= h - 1
  BY <1>2 DEF Width
<1>4. EncodeSigned(n) \in Int
  <2>1. n % WordMod \in 0..(WordMod - 1)
    BY <1>1, <1>3, ModFacts
  <2>2. QED
    BY <1>1, <2>1 DEF EncodeSigned
<1>5. ASSUME n >= 0 PROVE DecodeNet(EncodeSigned(n)) = n
  <2>1. n \in 0..(WordMod - 1) /\ n = WordMod * 0 + n /\ 0 \in Int
    BY <1>1, <1>2, <1>3, <1>5
  <2>2. n % WordMod = n
    BY <1>1, <1>3, <2>1, ModIs
  <2>3. ~(n >= h)
    BY <1>2, <1>3
  <2>4. QED
    BY <2>2, <2>3 DEF DecodeNet, EncodeSigned, Signed
<1>6. QED
  BY <1>4, <1>5

----------------------------------------------------------------------------
(* The contracts.                                                          *)

Selectors == {"slot0", "liquidity", "tickSpacing", "ticks", "getReserves"}

Words == Int \cup Selectors \cup V3Addresses \cup V2Addresses

V3Calls == {c \in [target : V3Addresses, data : Seq(Words)] :
              c.data[1] \in {"slot0", "liquidity", "tickSpacing", "ticks"}}

V2Calls == {c \in [target : V2Addresses, data : Seq(Words)] : c.data[1] = "getReserves"}

Outcomes == [success : BOOLEAN, data : Seq(Int)]

\* The types of a Uniswap pool's state.
LEMMA V3State ==
  ASSUME chain \in Chains, NEW b \in 1..Len(chain), NEW a \in V3Addresses, Deployed(a, b)
  PROVE  /\ chain[b][a].price \in Nat /\ chain[b][a].liquidity \in Nat
         /\ chain[b][a].tick \in Width(TickMod) /\ chain[b][a].spacing \in Width(TickMod)
         /\ \A i \in DOMAIN chain[b][a].nets : chain[b][a].nets[i] \in Width(NetMod)
<1>1. a[1] = "v3"
  BY V3Address
<1>2. a \in DOMAIN chain[b]
  BY DEF Deployed
<1>3. QED
  BY <1>1, <1>2, ChainAssumption

\* The types of a Sushiswap pair's state.
LEMMA V2State ==
  ASSUME chain \in Chains, NEW b \in 1..Len(chain), NEW a \in V2Addresses, Deployed(a, b)
  PROVE  chain[b][a].r0 \in Nat /\ chain[b][a].r1 \in Nat
<1>1. a[1] = "v2"
  BY V2Address
<1>2. a \in DOMAIN chain[b]
  BY DEF Deployed
<1>3. QED
  BY <1>1, <1>2, ChainAssumption

\* A call succeeds, with the data of the contract if there is one.
LEMMA Answers ==
  ASSUME NEW c, NEW b
  PROVE  /\ Answer(c, b).success = TRUE
         /\ ~Deployed(c.target, b) => Answer(c, b).data = <<>>
         /\ Deployed(c.target, b) => Answer(c, b).data = Returned(c, b)
         /\ Answer(c, b) = [success |-> TRUE, data |-> Answer(c, b).data]
BY DEF Answer

\* The data of each of the five calls.
LEMMA Returns ==
  ASSUME NEW c, NEW b
  PROVE  /\ c.data[1] = "slot0" =>
              Returned(c, b) = <<chain[b][c.target].price, EncodeSigned(chain[b][c.target].tick)>>
         /\ c.data[1] = "liquidity" => Returned(c, b) = <<chain[b][c.target].liquidity>>
         /\ c.data[1] = "tickSpacing" =>
              Returned(c, b) = <<EncodeSigned(chain[b][c.target].spacing)>>
         /\ c.data[1] = "getReserves" =>
              Returned(c, b) = <<chain[b][c.target].r0, chain[b][c.target].r1, b>>
         /\ c.data[1] = "ticks" =>
              Returned(c, b) =
                LET idx == DecodeInt24(c.data[2])
                    nets == chain[b][c.target].nets
                IN  <<0, IF idx \in DOMAIN nets THEN EncodeSigned(nets[idx]) ELSE 0,
                      0, 0, 0, 0, 0, IF idx \in DOMAIN nets THEN 1 ELSE 0>>
<1>1. CASE c.data[1] = "slot0"
  BY <1>1 DEF Returned
<1>2. CASE c.data[1] = "liquidity"
  BY <1>2 DEF Returned
<1>3. CASE c.data[1] = "tickSpacing"
  BY <1>3 DEF Returned
<1>4. CASE c.data[1] = "getReserves"
  BY <1>4 DEF Returned
<1>5. CASE c.data[1] = "ticks"
  BY <1>5 DEF Returned
<1>6. QED
  BY <1>1, <1>2, <1>3, <1>4, <1>5

\* Every answer to a call of the sources is a flag and words.
LEMMA AnswerType ==
  ASSUME chain \in Chains, NEW b \in 1..Len(chain), NEW c \in V3Calls \cup V2Calls
  PROVE  Answer(c, b) \in Outcomes
<1>1. SUFFICES Answer(c, b).data \in Seq(Int)
  <2>1. ASSUME NEW d \in Seq(Int) PROVE [success |-> TRUE, data |-> d] \in Outcomes
    BY DEF Outcomes
  <2>2. Answer(c, b) = [success |-> TRUE, data |-> Answer(c, b).data]
    BY Answers, Zenon
  <2>3. QED
    BY <2>1, <2>2, Zenon
<1>2. CASE ~Deployed(c.target, b)
  <2>1. Answer(c, b).data = <<>>
    BY <1>2, Answers, Zenon
  <2>2. <<>> \in Seq(Int)
    OBVIOUS
  <2>3. QED
    BY <2>1, <2>2, Zenon
<1>3. CASE Deployed(c.target, b)
  <2> SUFFICES Returned(c, b) \in Seq(Int)
    BY <1>3, Answers
  <2> DEFINE s == chain[b][c.target]
  <2>a. \A n \in Nat : n \in Int
    OBVIOUS
  <2>1. CASE c \in V2Calls
    <3>1. c.target \in V2Addresses /\ c.data[1] = "getReserves"
      BY <2>1 DEF V2Calls
    <3>2. s.r0 \in Int /\ s.r1 \in Int
      BY <1>3, <3>1, V2State
    <3>3. Returned(c, b) = <<s.r0, s.r1, b>>
      BY <3>1, Returns
    <3> HIDE DEF s
    <3>4. b \in Int
      BY LenProperties
    <3>5. QED
      BY <3>2, <3>3, <3>4
  <2>2. CASE c \in V3Calls
    <3>1. c.target \in V3Addresses /\ c.data[1] \in {"slot0", "liquidity", "tickSpacing", "ticks"}
      BY <2>2 DEF V3Calls
    <3>2. /\ s.price \in Int /\ s.liquidity \in Int /\ s.tick \in Width(TickMod)
          /\ s.spacing \in Width(TickMod)
          /\ \A i \in DOMAIN s.nets : s.nets[i] \in Width(NetMod)
      BY <1>3, <3>1, V3State
    <3>3. EncodeSigned(s.tick) \in Int /\ EncodeSigned(s.spacing) \in Int
      BY <3>2, TickTravels
    <3>4. \A i \in DOMAIN s.nets : EncodeSigned(s.nets[i]) \in Int
      BY <3>2, NetTravels
    <3>5. CASE c.data[1] = "slot0"
      <4>1. Returned(c, b) = <<s.price, EncodeSigned(s.tick)>>
        BY <3>5, Returns
      <4> HIDE DEF s
      <4>2. QED
        BY <3>2, <3>3, <4>1
    <3>6. CASE c.data[1] = "liquidity"
      <4>1. Returned(c, b) = <<s.liquidity>>
        BY <3>6, Returns
      <4> HIDE DEF s
      <4>2. QED
        BY <3>2, <3>3, <4>1
    <3>7. CASE c.data[1] = "tickSpacing"
      <4>1. Returned(c, b) = <<EncodeSigned(s.spacing)>>
        BY <3>7, Returns
      <4> HIDE DEF s
      <4>2. QED
        BY <3>2, <3>3, <4>1
    <3>8. CASE c.data[1] = "ticks"
      <4> DEFINE idx == DecodeInt24(c.data[2])
                 x == IF idx \in DOMAIN s.nets THEN EncodeSigned(s.nets[idx]) ELSE 0
                 y == IF idx \in DOMAIN s.nets THEN 1 ELSE 0
      <4>1. Returned(c, b) = <<0, x, 0, 0, 0, 0, 0, y>>
        BY <3>8, Returns
      <4>2. x \in Int /\ y \in Int
        BY <3>4
      <4> HIDE DEF x, y
      <4>3. QED
        BY <4>1, <4>2
    <3>9. QED
      BY <3>1, <3>5, <3>6, <3>7, <3>8
  <2>3. QED
    BY <2>1, <2>2
<1>4. QED
  BY <1>2, <1>3

----------------------------------------------------------------------------
(* Batches.                                                                *)

ReadCalls == V3Calls \cup V2Calls

\* A chunk holds the calls that follow those with results (multicall.go:76-90).
LEMMA ChunkFacts ==
  ASSUME calls \in Seq(ReadCalls), results \in Seq(Outcomes), Len(results) < Len(calls)
  PROVE  /\ Chunk \in Seq(ReadCalls) /\ Len(Chunk) \in Nat /\ DOMAIN Chunk = 1..Len(Chunk)
         /\ Len(results) + Len(Chunk) <= Len(calls)
         /\ \A i \in 1..Len(Chunk) : Chunk[i] = calls[Len(results) + i]
<1> DEFINE r == Len(results)
           c == Len(calls)
           n == IF r + BatchSize > c THEN c ELSE r + BatchSize
<1>1. r \in Nat /\ c \in Nat /\ \A i \in 1..c : calls[i] \in ReadCalls
  BY SeqFacts, Zenon
<1>2. BatchSize \in Nat \ {0}
  BY ReaderAssumption
<1>3. r < c
  OBVIOUS
<1>4. Chunk = SubSeq(calls, r + 1, n)
  BY DEF Chunk
<1> HIDE DEF r, c
<1>5. n \in Nat /\ r + 1 <= n /\ n <= c
  BY <1>1, <1>2, <1>3
<1> HIDE DEF n
<1>6. \A i \in (r + 1)..n : calls[i] \in ReadCalls
  BY <1>1, <1>5
<1>7. r + 1 \in Int /\ n \in Int
  BY <1>1, <1>5
<1>8. /\ SubSeq(calls, r + 1, n) \in Seq(ReadCalls)
      /\ Len(SubSeq(calls, r + 1, n)) = IF r + 1 <= n THEN n - (r + 1) + 1 ELSE 0
      /\ \A i \in 1..(n - (r + 1) + 1) : SubSeq(calls, r + 1, n)[i] = calls[(r + 1) + i - 1]
  BY <1>6, <1>7, SubSeqProperties
<1>9. n - (r + 1) + 1 = n - r /\ \A i \in 1..(n - r) : (r + 1) + i - 1 = r + i
  BY <1>1, <1>5
<1>10. Chunk \in Seq(ReadCalls)
  BY <1>4, <1>8, Zenon
<1>11. Len(Chunk) = n - r
  BY <1>4, <1>5, <1>8, <1>9
<1>12. \A i \in 1..(n - r) : Chunk[i] = calls[r + i]
  BY <1>4, <1>8, <1>9
<1>13. n - r \in Nat /\ r + (n - r) <= c
  BY <1>1, <1>5
<1>14. DOMAIN Chunk = 1..Len(Chunk)
  BY <1>10, SeqFacts, Zenon
<1>15. QED
  BY <1>10, <1>11, <1>12, <1>13, <1>14 DEF r, c

\* What the calls of a request are answered at block b when those in gas fail.
Given(cs, gas, b) == [i \in DOMAIN cs |-> IF i \in gas THEN OutOfGas ELSE Answer(cs[i], b)]

\* They are results, as many as calls.
LEMMA GivenType ==
  ASSUME chain \in Chains, NEW b \in 1..Len(chain), NEW cs \in Seq(ReadCalls), NEW gas
  PROVE  Given(cs, gas, b) \in Seq(Outcomes) /\ Len(Given(cs, gas, b)) = Len(cs)
<1>1. Len(cs) \in Nat /\ DOMAIN cs = 1..Len(cs) /\ \A i \in 1..Len(cs) : cs[i] \in ReadCalls
  BY SeqFacts, Zenon
<1>2. OutOfGas \in Outcomes
  BY DEF OutOfGas, Outcomes
<1>3. \A i \in 1..Len(cs) : Answer(cs[i], b) \in Outcomes
  BY <1>1, AnswerType DEF ReadCalls
<1>4. Given(cs, gas, b) \in [1..Len(cs) -> Outcomes]
  BY <1>1, <1>2, <1>3 DEF Given
<1>5. QED
  BY <1>1, <1>4, Listing, Zenon

\* A prefix of a sequence.
LEMMA Prefix ==
  ASSUME NEW S, NEW s \in Seq(S), NEW n \in 0..Len(s)
  PROVE  /\ SubSeq(s, 1, n) \in Seq(S) /\ Len(SubSeq(s, 1, n)) = n
         /\ \A p \in 1..n : SubSeq(s, 1, n)[p] = s[p]
<1>1. Len(s) \in Nat /\ \A i \in 1..Len(s) : s[i] \in S
  BY SeqFacts, Zenon
<1>2. n \in Nat /\ n <= Len(s)
  BY <1>1
<1>3. \A i \in 1..n : s[i] \in S
  BY <1>1, <1>2
<1>4. 1 \in Int /\ n \in Int
  BY <1>2
<1>5. /\ SubSeq(s, 1, n) \in Seq(S)
      /\ Len(SubSeq(s, 1, n)) = IF 1 <= n THEN n - 1 + 1 ELSE 0
      /\ \A i \in 1..(n - 1 + 1) : SubSeq(s, 1, n)[i] = s[1 + i - 1]
  BY <1>3, <1>4, SubSeqProperties
<1>6. n - 1 + 1 = n /\ \A i \in 1..n : 1 + i - 1 = i
  BY <1>2
<1>7. Len(SubSeq(s, 1, n)) = n
  BY <1>2, <1>5, <1>6
<1>8. \A i \in 1..n : SubSeq(s, 1, n)[i] = s[i]
  BY <1>5, <1>6
<1>9. QED
  BY <1>5, <1>7, <1>8, Zenon

\* What the answer to a request, cut short or not, decodes to.
LEMMA BatchGives ==
  ASSUME chain \in Chains, block \in 1..Len(chain), NEW cs \in Seq(ReadCalls), NEW gas,
         NEW raw, raw = Execute(EncodeTryAggregate(cs), gas), NEW n \in 0..Len(raw),
         NEW d, d = SubSeq(raw, 1, n), Decodes(d, Len(cs))
  PROVE  DecodeTryAggregate(d, Len(cs)) = Given(cs, gas, block)
<1> DEFINE rs == Given(cs, gas, block)
<1>1. cs \in Seq([target : Words, data : Seq(Words)])
  <2>1. Len(cs) \in Nat /\ cs \in [1..Len(cs) -> ReadCalls]
    BY LenProperties, Zenon
  <2>2. ReadCalls \subseteq [target : Words, data : Seq(Words)]
    BY DEF ReadCalls, V3Calls, V2Calls, Words
  <2>3. cs \in [1..Len(cs) -> [target : Words, data : Seq(Words)]]
    BY <2>1, <2>2
  <2>4. QED
    BY <2>1, <2>3, Listing, Zenon
<1>2. Int \subseteq Words
  BY DEF Words
<1>3. CallsIn(EncodeTryAggregate(cs)) = cs
  BY <1>1, <1>2, CallsUndo, Zenon
<1>4. raw = EncodeResults(rs)
  BY <1>3 DEF Execute, Given
<1>5. rs \in Seq(Outcomes) /\ Len(rs) = Len(cs)
  BY GivenType
<1> HIDE DEF rs
<1>6. rs \in Seq([success : BOOLEAN, data : Seq(Int)])
  BY <1>5, Zenon DEF Outcomes
<1>7. Int \subseteq Int
  OBVIOUS
<1>8. EncodeResults(rs) \in Seq(Int)
  BY <1>6, <1>7, ResultWords, Zenon
<1>9. raw \in Seq(Int)
  BY <1>4, <1>8, Zenon
<1>10. d \in Seq(Int) /\ Len(d) = n /\ \A p \in 1..n : d[p] = raw[p]
  BY <1>9, Prefix, Zenon
<1>11. n <= Len(raw)
  <2>1. Len(raw) \in Nat
    BY <1>9, SeqFacts, Zenon
  <2>2. QED
    BY <2>1
<1>12. Len(d) <= Len(EncodeResults(rs)) /\ \A p \in 1..Len(d) : d[p] = EncodeResults(rs)[p]
  BY <1>4, <1>10, <1>11, Zenon
<1>13. Decodes(d, Len(rs))
  BY <1>5, Zenon
<1>14. DecodeTryAggregate(d, Len(rs)) = rs
  BY <1>6, <1>7, <1>10, <1>12, <1>13, DecodeUndoes, Zenon
<1>15. QED
  BY <1>5, <1>14, Zenon DEF rs

----------------------------------------------------------------------------
(* The calls of the passes.                                                *)

\* A call to a Uniswap pool.
LEMMA V3CallType ==
  ASSUME NEW a \in V3Addresses, NEW d \in Seq(Words),
         d[1] \in {"slot0", "liquidity", "tickSpacing", "ticks"}
  PROVE  Call(a, d) \in V3Calls
BY DEF Call, V3Calls

\* The first pass makes three calls per candidate, in order (uniswapv3.go:99-120).
LEMMA SlotCallsFacts ==
  /\ SlotCalls \in Seq(V3Calls) /\ Len(SlotCalls) = 3 * Len(Candidates)
  /\ \A i \in 1..Len(Candidates) :
       /\ SlotCalls[3 * i - 2] = Call(Candidates[i].address, <<"slot0">>)
       /\ SlotCalls[3 * i - 1] = Call(Candidates[i].address, <<"liquidity">>)
<1> DEFINE N == Len(Candidates)
           A(i) == Candidates[i].address
           row(i) == <<Call(A(i), <<"slot0">>), Call(A(i), <<"liquidity">>),
                       Call(A(i), <<"tickSpacing">>)>>
           s == [i \in DOMAIN Candidates |-> row(i)]
<1>1. N \in Nat /\ DOMAIN Candidates = 1..N /\ \A i \in 1..N : Candidates[i] \in CandidateSet
  BY CandidatesFacts, SeqFacts, Zenon
<1>2. \A i \in 1..N : A(i) \in V3Addresses
  BY <1>1 DEF CandidateSet
<1>3. /\ <<"slot0">> \in Seq(Words) /\ <<"liquidity">> \in Seq(Words)
      /\ <<"tickSpacing">> \in Seq(Words)
  BY DEF Words, Selectors
<1>4. SlotCalls = FlattenSeq(s)
  BY DEF SlotCalls
<1> HIDE DEF N, A
<1>5. ASSUME NEW i \in 1..N
      PROVE  /\ Call(A(i), <<"slot0">>) \in V3Calls /\ Call(A(i), <<"liquidity">>) \in V3Calls
             /\ Call(A(i), <<"tickSpacing">>) \in V3Calls
  <2>1. A(i) \in V3Addresses
    BY <1>2
  <2>2. QED
    BY <1>3, <2>1, V3CallType
<1>6. ASSUME NEW i \in 1..N
      PROVE  /\ row(i) \in Seq(V3Calls) /\ Len(row(i)) = 3
             /\ row(i)[1] = Call(A(i), <<"slot0">>) /\ row(i)[2] = Call(A(i), <<"liquidity">>)
  BY <1>5
<1> HIDE DEF row
<1>7. s \in [1..N -> Seq(V3Calls)] /\ \A i \in 1..N : s[i] = row(i)
  BY <1>1, <1>6
<1> HIDE DEF s
<1>8. s \in Seq(Seq(V3Calls)) /\ Len(s) = N
  BY <1>1, <1>7, Listing, Zenon
<1>9. \A i \in 1..Len(s) : Len(s[i]) = 3
  BY <1>6, <1>7, <1>8, Zenon
<1>10. \A n \in 0..N : Len(Joined(s, n)) = 3 * n
  BY <1>8, <1>9, JoinedTriples, Zenon
<1>11. FlattenSeq(s) \in Seq(V3Calls)
  BY <1>8, FlatType, Zenon
<1>12. Joined(s, N) = FlattenSeq(s)
  BY <1>8, JoinedFacts, Zenon
<1>13. Len(FlattenSeq(s)) = 3 * N
  <2>1. N \in 0..N
    BY <1>1
  <2>2. QED
    BY <1>10, <1>12, <2>1, Zenon
<1>14. ASSUME NEW i \in 1..N
       PROVE  /\ FlattenSeq(s)[3 * i - 2] = Call(A(i), <<"slot0">>)
              /\ FlattenSeq(s)[3 * i - 1] = Call(A(i), <<"liquidity">>)
  <2>1. i - 1 \in 0..N /\ i \in Int
    BY <1>1
  <2>2. Len(Joined(s, i - 1)) = 3 * (i - 1)
    BY <1>10, <2>1, Zenon
  <2>3. \A j \in 1..Len(s[i]) : FlattenSeq(s)[Len(Joined(s, i - 1)) + j] = s[i][j]
    BY <1>8, Places, Zenon
  <2>4. \A j \in 1..3 : FlattenSeq(s)[3 * (i - 1) + j] = row(i)[j]
    BY <1>6, <1>7, <2>2, <2>3, Zenon
  <2>5. 3 * (i - 1) + 1 = 3 * i - 2 /\ 3 * (i - 1) + 2 = 3 * i - 1 /\ 1 \in 1..3 /\ 2 \in 1..3
    BY <2>1
  <2>6. FlattenSeq(s)[3 * (i - 1) + 1] = row(i)[1] /\ FlattenSeq(s)[3 * (i - 1) + 2] = row(i)[2]
    BY <2>4, <2>5, Zenon
  <2>7. QED
    BY <1>6, <2>5, <2>6, Zenon
<1>15. QED
  BY <1>4, <1>11, <1>13, <1>14, Zenon DEF N, A

\* The Sushiswap source makes one call per candidate (sushiswap.go:72-84).
LEMMA ReserveCallsFacts ==
  /\ ReserveCalls \in Seq(V2Calls) /\ Len(ReserveCalls) = Len(PairCandidates)
  /\ \A i \in 1..Len(PairCandidates) :
       ReserveCalls[i] = Call(PairCandidates[i].address, <<"getReserves">>)
<1> DEFINE N == Len(PairCandidates)
           A(i) == PairCandidates[i].address
<1>1. N \in Nat /\ DOMAIN PairCandidates = 1..N /\ \A i \in 1..N : PairCandidates[i] \in PairSet
  BY PairCandidatesFacts, SeqFacts, Zenon
<1>2. \A i \in 1..N : A(i) \in V2Addresses
  BY <1>1 DEF PairSet
<1>3. <<"getReserves">> \in Seq(Words) /\ <<"getReserves">>[1] = "getReserves"
  BY DEF Words, Selectors
<1>4. ReserveCalls = [i \in 1..N |-> Call(A(i), <<"getReserves">>)]
  BY <1>1 DEF ReserveCalls
<1> HIDE DEF N, A
<1>5. \A i \in 1..N : Call(A(i), <<"getReserves">>) \in V2Calls
  BY <1>2, <1>3 DEF V2Calls, Call
<1>6. ReserveCalls \in [1..N -> V2Calls]
  BY <1>4, <1>5
<1>7. ReserveCalls \in Seq(V2Calls) /\ Len(ReserveCalls) = N
  BY <1>1, <1>6, Listing, Zenon
<1>8. QED
  BY <1>4, <1>7 DEF N, A

\* The results of the second pass before those of pool k.
Before(fs, k) == Len(FlattenSeq([j \in 1..(k - 1) |-> Window(fs[j])]))

\* The calls of the second pass for pool k come after those of the pools before it.
LEMMA TickCallsFacts ==
  ASSUME NEW fs, NEW N \in Nat, DOMAIN fs = 1..N, \A k \in 1..N : fs[k].address \in V3Addresses
  PROVE  /\ TickCalls(fs) \in Seq(V3Calls)
         /\ \A k \in 1..N :
              /\ Window(fs[k]) \in Seq(MinTick..MaxTick) /\ Before(fs, k) \in Nat
              /\ \A n \in 1..Len(Window(fs[k])) :
                   /\ Before(fs, k) + n \in 1..Len(TickCalls(fs))
                   /\ TickCalls(fs)[Before(fs, k) + n] =
                        Call(fs[k].address, <<"ticks", EncodeSigned(Window(fs[k])[n])>>)
<1> DEFINE w(k) == Window(fs[k])
           call(k, n) == Call(fs[k].address, <<"ticks", EncodeSigned(w(k)[n])>>)
           row(k) == [n \in DOMAIN w(k) |-> call(k, n)]
           s == [k \in 1..N |-> row(k)]
           t == [k \in 1..N |-> w(k)]
<1>1. ASSUME NEW k \in 1..N
      PROVE  /\ w(k) \in Seq(MinTick..MaxTick) /\ Len(w(k)) \in Nat /\ DOMAIN w(k) = 1..Len(w(k))
             /\ \A n \in 1..Len(w(k)) : w(k)[n] \in MinTick..MaxTick
  <2>1. w(k) \in Seq(MinTick..MaxTick)
    BY WindowFacts DEF Window
  <2> HIDE DEF w
  <2>2. QED
    BY <2>1, SeqFacts, Zenon
<1>2. TickCalls(fs) = FlattenSeq(s)
  BY DEF TickCalls
<1> HIDE DEF w
<1>3. ASSUME NEW k \in 1..N, NEW n \in 1..Len(w(k)) PROVE call(k, n) \in V3Calls
  <2>1. w(k)[n] \in MinTick..MaxTick
    BY <1>1
  <2>2. w(k)[n] \in Width(TickMod)
    BY <2>1, WordAssumption DEF Width
  <2>3. EncodeSigned(w(k)[n]) \in Int
    BY <2>2, TickTravels
  <2>4. EncodeSigned(w(k)[n]) \in Words /\ "ticks" \in Words
    BY <2>3 DEF Words, Selectors
  <2>5. /\ <<"ticks", EncodeSigned(w(k)[n])>> \in Seq(Words)
        /\ <<"ticks", EncodeSigned(w(k)[n])>>[1] = "ticks"
    BY <2>4
  <2>6. QED
    BY <2>5, V3CallType
<1> HIDE DEF call
<1>4. ASSUME NEW k \in 1..N
      PROVE  /\ row(k) \in Seq(V3Calls) /\ Len(row(k)) = Len(w(k))
             /\ \A n \in 1..Len(w(k)) : row(k)[n] = call(k, n)
  <2>1. row(k) \in [1..Len(w(k)) -> V3Calls] /\ \A n \in 1..Len(w(k)) : row(k)[n] = call(k, n)
    BY <1>1, <1>3
  <2>2. Len(w(k)) \in Nat
    BY <1>1
  <2> HIDE DEF row
  <2>3. row(k) \in Seq(V3Calls) /\ Len(row(k)) = Len(w(k))
    BY <2>1, <2>2, Listing, Zenon
  <2>4. QED
    BY <2>1, <2>3, Zenon
<1> HIDE DEF row
<1>5. s \in [1..N -> Seq(V3Calls)] /\ \A k \in 1..N : s[k] = row(k)
  BY <1>4
<1>6. t \in [1..N -> Seq(MinTick..MaxTick)] /\ \A k \in 1..N : t[k] = w(k)
  BY <1>1
<1>a. \A k \in 1..N : [j \in 1..(k - 1) |-> w(j)] = [j \in 1..(k - 1) |-> t[j]]
  BY <1>6
<1> HIDE DEF s, t
<1>7. s \in Seq(Seq(V3Calls)) /\ Len(s) = N
  BY <1>5, Listing, Zenon
<1>8. t \in Seq(Seq(MinTick..MaxTick)) /\ Len(t) = N
  BY <1>6, Listing, Zenon
<1>9. \A k \in 1..Len(s) : Len(s[k]) = Len(t[k])
  BY <1>4, <1>5, <1>6, <1>7, Zenon
<1>10. \A n \in 0..N : Len(Joined(s, n)) = Len(Joined(t, n))
  <2>1. Len(s) = Len(t)
    BY <1>7, <1>8
  <2>2. \A n \in 0..Len(s) : Len(Joined(s, n)) = Len(Joined(t, n))
    <3>1. s \in Seq(Seq(V3Calls))
      BY <1>7
    <3>2. PICK U : t \in Seq(Seq(U))
      BY <1>8
    <3>3. SameLengths(s, t)
      BY <1>9, <2>1 DEF SameLengths
    <3>4. QED
      BY <3>1, <3>2, <3>3, JoinedLengths
  <2>3. QED
    BY <1>7, <2>2, Zenon
<1>11. FlattenSeq(s) \in Seq(V3Calls)
  BY <1>7, FlatType, Zenon
<1>12. ASSUME NEW k \in 1..N PROVE Before(fs, k) = Len(Joined(s, k - 1))
  <2>1. k - 1 \in 0..N /\ k - 1 \in 0..Len(t)
    BY <1>8
  <2>2. SubSeq(t, 1, k - 1) = [j \in 1..(k - 1) |-> t[j]]
    <3>1. SubSeq(t, 1, k - 1) \in Seq(Seq(MinTick..MaxTick)) /\ Len(SubSeq(t, 1, k - 1)) = k - 1
      BY <1>8, <2>1, Prefix, Zenon
    <3>2. \A p \in 1..(k - 1) : SubSeq(t, 1, k - 1)[p] = t[p]
      BY <1>8, <2>1, Prefix, Zenon
    <3>3. SubSeq(t, 1, k - 1) \in [1..(k - 1) -> Seq(MinTick..MaxTick)]
      BY <3>1, LenProperties, Zenon
    <3>4. QED
      BY <3>2, <3>3
  <2>3. Joined(t, k - 1) = FlattenSeq([j \in 1..(k - 1) |-> w(j)])
    BY <1>a, <2>2, Zenon DEF Joined
  <2>4. Before(fs, k) = Len(Joined(t, k - 1))
    BY <2>3, Zenon DEF Before, w
  <2>5. QED
    BY <1>10, <2>1, <2>4, Zenon
<1>13. ASSUME NEW k \in 1..N, NEW n \in 1..Len(w(k))
       PROVE  /\ Before(fs, k) \in Nat /\ Before(fs, k) + n \in 1..Len(FlattenSeq(s))
              /\ FlattenSeq(s)[Before(fs, k) + n] = call(k, n)
  <2> DEFINE b == Len(Joined(s, k - 1))
  <2>1. k \in 1..Len(s)
    BY <1>7
  <2>2. b \in Nat /\ b + Len(s[k]) <= Len(FlattenSeq(s))
    BY <1>7, <2>1, Places, Zenon
  <2>3. \A j \in 1..Len(s[k]) : FlattenSeq(s)[b + j] = s[k][j]
    BY <1>7, <2>1, Places, Zenon
  <2>4. Before(fs, k) = b
    BY <1>12
  <2> HIDE DEF b
  <2>5. Len(s[k]) = Len(w(k)) /\ Len(w(k)) \in Nat /\ s[k][n] = call(k, n)
    BY <1>1, <1>4, <1>5
  <2>6. FlattenSeq(s)[b + n] = call(k, n)
    BY <2>3, <2>5, Zenon
  <2>7. Len(FlattenSeq(s)) \in Nat
    BY <1>11, SeqFacts, Zenon
  <2>8. b + n \in 1..Len(FlattenSeq(s))
    BY <2>2, <2>5, <2>7
  <2>9. QED
    BY <2>2, <2>4, <2>6, <2>8, Zenon
<1>14. \A k \in 1..N : Before(fs, k) \in Nat
  <2>1. ASSUME NEW k \in 1..N PROVE Before(fs, k) \in Nat
    <3>1. k \in 1..Len(s)
      BY <1>7
    <3>2. QED
      BY <1>7, <1>12, <3>1, Places, Zenon
  <2>2. QED
    BY <2>1
<1>15. QED
  BY <1>1, <1>2, <1>11, <1>13, <1>14, Zenon DEF w, call

----------------------------------------------------------------------------
(* What an answer tells.                                                   *)

\* The parts of a call.
LEMMA CallFields ==
  ASSUME NEW a, NEW d
  PROVE  Call(a, d).target = a /\ Call(a, d).data = d
BY DEF Call

\* The words of an answer of two,
LEMMA ListOfTwo ==
  ASSUME NEW d, NEW x, NEW y, d = <<x, y>>
  PROVE  Len(d) = 2 /\ d[1] = x /\ d[2] = y
OBVIOUS

\* and of three.
LEMMA ListOfThree ==
  ASSUME NEW d, NEW x, NEW y, NEW z, d = <<x, y, z>>
  PROVE  Len(d) = 3 /\ d[1] = x /\ d[2] = y
OBVIOUS

\* The answer to slot0 tells the price and the tick of a pool, if there is one.
LEMMA SlotTells ==
  ASSUME chain \in Chains, NEW b \in 1..Len(chain), NEW a \in V3Addresses, NEW r,
         r = Answer(Call(a, <<"slot0">>), b)
  PROVE  /\ r.success = TRUE
         /\ Deployed(a, b) => Len(r.data) = 2
         /\ Len(r.data) >= 2 => /\ Deployed(a, b) /\ r.data[1] = chain[b][a].price
                                /\ DecodeInt24(r.data[2]) = chain[b][a].tick
<1> DEFINE c == Call(a, <<"slot0">>)
           s == chain[b][a]
<1>1. c.target = a /\ c.data = <<"slot0">> /\ c.data[1] = "slot0"
  BY CallFields
<1> HIDE DEF c
<1>2. r.success = TRUE
  BY Answers, Zenon DEF c
<1>3. CASE ~Deployed(a, b)
  <2>1. r.data = <<>>
    BY <1>1, <1>3, Answers DEF c
  <2>2. Len(r.data) = 0
    BY <2>1
  <2>3. QED
    BY <1>2, <1>3, <2>2
<1>4. CASE Deployed(a, b)
  <2>1. r.data = <<s.price, EncodeSigned(s.tick)>>
    <3>1. r.data = Returned(c, b)
      BY <1>1, <1>4, Answers, Zenon DEF c
    <3>2. Returned(c, b) = <<s.price, EncodeSigned(s.tick)>>
      BY <1>1, Returns
    <3>3. QED
      BY <3>1, <3>2, Zenon
  <2>2. s.tick \in Width(TickMod)
    BY <1>4, V3State
  <2>3. DecodeInt24(EncodeSigned(s.tick)) = s.tick
    BY <2>2, TickTravels
  <2> HIDE DEF s
  <2>4. Len(r.data) = 2 /\ r.data[1] = s.price /\ r.data[2] = EncodeSigned(s.tick)
    <3>1. PICK d, x, y : d = r.data /\ x = s.price /\ y = EncodeSigned(s.tick)
      OBVIOUS
    <3>2. d = <<x, y>>
      BY <2>1, <3>1, Zenon
    <3>3. Len(d) = 2 /\ d[1] = x /\ d[2] = y
      BY <3>2, ListOfTwo
    <3>4. QED
      BY <3>1, <3>3, Zenon
  <2>5. QED
    BY <1>2, <1>4, <2>3, <2>4 DEF s
<1>5. QED
  BY <1>3, <1>4

\* The answer to liquidity tells the liquidity of a pool, if there is one.
LEMMA LiquidityTells ==
  ASSUME chain \in Chains, NEW b \in 1..Len(chain), NEW a \in V3Addresses, NEW r,
         r = Answer(Call(a, <<"liquidity">>), b)
  PROVE  /\ r.success = TRUE
         /\ Deployed(a, b) => Number(r.data) = chain[b][a].liquidity
         /\ Number(r.data) > 0 => Deployed(a, b)
<1> DEFINE c == Call(a, <<"liquidity">>)
           s == chain[b][a]
<1>1. c.target = a /\ c.data = <<"liquidity">> /\ c.data[1] = "liquidity"
  BY CallFields
<1> HIDE DEF c
<1>2. r.success = TRUE
  BY Answers, Zenon DEF c
<1>3. CASE ~Deployed(a, b)
  <2>1. r.data = <<>>
    BY <1>1, <1>3, Answers DEF c
  <2>2. Number(r.data) = 0
    BY <2>1 DEF Number
  <2>3. QED
    BY <1>2, <1>3, <2>2
<1>4. CASE Deployed(a, b)
  <2>1. r.data = <<s.liquidity>>
    <3>1. r.data = Returned(c, b)
      BY <1>1, <1>4, Answers, Zenon DEF c
    <3>2. Returned(c, b) = <<s.liquidity>>
      BY <1>1, Returns
    <3>3. QED
      BY <3>1, <3>2, Zenon
  <2> HIDE DEF s
  <2>2. r.data # <<>> /\ r.data[1] = s.liquidity
    BY <2>1
  <2>3. Number(r.data) = s.liquidity
    BY <2>2 DEF Number
  <2>4. QED
    BY <1>2, <1>4, <2>3 DEF s
<1>5. QED
  BY <1>3, <1>4

\* The answer to getReserves tells the reserves of a pair, if there is one.
LEMMA ReservesTell ==
  ASSUME chain \in Chains, NEW b \in 1..Len(chain), NEW a \in V2Addresses, NEW r,
         r = Answer(Call(a, <<"getReserves">>), b)
  PROVE  /\ r.success = TRUE
         /\ Deployed(a, b) => Len(r.data) = 3
         /\ Len(r.data) >= 3 => /\ Deployed(a, b) /\ r.data[1] = chain[b][a].r0
                                /\ r.data[2] = chain[b][a].r1
<1> DEFINE c == Call(a, <<"getReserves">>)
           s == chain[b][a]
<1>1. c.target = a /\ c.data = <<"getReserves">> /\ c.data[1] = "getReserves"
  BY CallFields
<1> HIDE DEF c
<1>2. r.success = TRUE
  BY Answers, Zenon DEF c
<1>3. CASE ~Deployed(a, b)
  <2>1. r.data = <<>>
    BY <1>1, <1>3, Answers DEF c
  <2>2. Len(r.data) = 0
    BY <2>1
  <2>3. QED
    BY <1>2, <1>3, <2>2
<1>4. CASE Deployed(a, b)
  <2>1. r.data = <<s.r0, s.r1, b>>
    <3>1. r.data = Returned(c, b)
      BY <1>1, <1>4, Answers, Zenon DEF c
    <3>2. Returned(c, b) = <<s.r0, s.r1, b>>
      BY <1>1, Returns
    <3>3. QED
      BY <3>1, <3>2, Zenon
  <2> HIDE DEF s
  <2>2. Len(r.data) = 3 /\ r.data[1] = s.r0 /\ r.data[2] = s.r1
    <3>1. PICK d, x, y : d = r.data /\ x = s.r0 /\ y = s.r1
      OBVIOUS
    <3>2. d = <<x, y, b>>
      BY <2>1, <3>1, Zenon
    <3>3. Len(d) = 3 /\ d[1] = x /\ d[2] = y
      BY <3>2, ListOfThree
    <3>4. QED
      BY <3>1, <3>3, Zenon
  <2>3. QED
    BY <1>2, <1>4, <2>2 DEF s
<1>5. QED
  BY <1>3, <1>4

\* An initialised tick in the answer is one that the pool has, and its net liquidity is
\* that of the answer unless the tick takes liquidity away.
LEMMA TickTells ==
  ASSUME chain \in Chains, NEW b \in 1..Len(chain), NEW a \in V3Addresses,
         NEW i \in MinTick..MaxTick, NEW r,
         r = Answer(Call(a, <<"ticks", EncodeSigned(i)>>), b),
         Len(r.data) >= 8, r.data[8] # 0
  PROVE  /\ i \in DOMAIN chain[b][a].nets
         /\ chain[b][a].nets[i] < 0 \/ chain[b][a].nets[i] = DecodeNet(r.data[2])
<1> DEFINE c == Call(a, <<"ticks", EncodeSigned(i)>>)
           s == chain[b][a]
           x == IF i \in DOMAIN s.nets THEN EncodeSigned(s.nets[i]) ELSE 0
           y == IF i \in DOMAIN s.nets THEN 1 ELSE 0
<1>1. c.target = a /\ c.data = <<"ticks", EncodeSigned(i)>>
  BY CallFields
<1> HIDE DEF c
<1>2. c.data[1] = "ticks" /\ c.data[2] = EncodeSigned(i)
  BY <1>1
<1>3. i \in Width(TickMod)
  BY WordAssumption DEF Width
<1>4. DecodeInt24(c.data[2]) = i
  BY <1>2, <1>3, TickTravels
<1>5. Deployed(a, b)
  <2> SUFFICES ASSUME ~Deployed(a, b) PROVE FALSE
    OBVIOUS
  <2>1. r.data = <<>>
    BY <1>1, Answers DEF c
  <2>2. QED
    BY <2>1
<1>6. r.data = Returned(c, b)
  BY <1>1, <1>5, Answers DEF c
<1>7. Returned(c, b) = LET idx == DecodeInt24(c.data[2])
                           nets == chain[b][c.target].nets
                       IN  <<0, IF idx \in DOMAIN nets THEN EncodeSigned(nets[idx]) ELSE 0,
                             0, 0, 0, 0, 0, IF idx \in DOMAIN nets THEN 1 ELSE 0>>
  BY <1>2, Returns
<1>8. r.data = <<0, x, 0, 0, 0, 0, 0, y>>
  BY <1>1, <1>4, <1>6, <1>7
<1>9. \A j \in DOMAIN s.nets : s.nets[j] \in Width(NetMod)
  BY <1>5, V3State
<1>10. r.data[2] = x /\ r.data[8] = y
  <2> HIDE DEF x, y
  <2>1. QED
    BY <1>8
<1>11. i \in DOMAIN s.nets
  BY <1>10
<1>12. r.data[2] = EncodeSigned(s.nets[i]) /\ s.nets[i] \in Width(NetMod)
  BY <1>9, <1>10, <1>11
<1> HIDE DEF s
<1>13. s.nets[i] \in Int
  BY <1>12, WordAssumption DEF Width
<1>14. s.nets[i] < 0 \/ s.nets[i] >= 0
  BY <1>13
<1>15. s.nets[i] >= 0 => DecodeNet(EncodeSigned(s.nets[i])) = s.nets[i]
  BY <1>12, NetTravels
<1>16. QED
  BY <1>11, <1>12, <1>14, <1>15 DEF s

----------------------------------------------------------------------------
(* The first pass.                                                         *)

\* The types of the variables, as far as the proofs need them.
ReaderTypes ==
  /\ chain \in Chains /\ block \in 1..Len(chain) /\ since \in 1..block
  /\ calls \in Seq(ReadCalls) /\ results \in Seq(Outcomes) /\ asOf \in Seq(Nat)
  /\ Len(asOf) = Len(results) /\ Len(results) <= Len(calls)

\* The results are of blocks of the read, and later ones of no earlier block.
InOrder ==
  /\ \A i \in 1..Len(asOf) : since <= asOf[i] /\ asOf[i] <= block
  /\ \A i, j \in 1..Len(asOf) : i <= j => asOf[i] <= asOf[j]

\* The blocks are numbers.
LEMMA Blocks ==
  ASSUME ReaderTypes
  PROVE  /\ Len(chain) \in Nat /\ block \in Nat /\ since \in Nat /\ 1 <= since
         /\ since <= block /\ block <= Len(chain)
<1>1. Len(chain) \in Nat \ {0}
  BY ChainAssumption DEF ReaderTypes
<1>2. block \in 1..Len(chain) /\ since \in 1..block
  BY DEF ReaderTypes
<1>3. QED
  BY <1>1, <1>2

\* A result is the answer to its own call, unless that call has failed.
LEMMA ResultOf ==
  ASSUME ReaderTypes, InOrder, ResultsLineUp, NEW i \in 1..Len(results)
  PROVE  /\ asOf[i] \in 1..Len(chain) /\ asOf[i] \in since..block
         /\ results[i].success => results[i] = Answer(calls[i], asOf[i])
         /\ calls[i].target \notin failed => results[i] = Answer(calls[i], asOf[i])
<1>1. /\ Len(chain) \in Nat /\ block \in Nat /\ since \in Nat /\ 1 <= since
      /\ since <= block /\ block <= Len(chain)
  BY Blocks
<1>2. asOf \in Seq(Nat) /\ Len(asOf) = Len(results) /\ results \in Seq(Outcomes)
  BY DEF ReaderTypes
<1>3. asOf[i] \in Nat
  BY <1>2, SeqFacts, Zenon
<1>4. since <= asOf[i] /\ asOf[i] <= block
  BY <1>2, Zenon DEF InOrder
<1>5. asOf[i] \in 1..Len(chain) /\ asOf[i] \in since..block
  BY <1>1, <1>3, <1>4
<1>6. i \in DOMAIN results
  BY <1>2, SeqFacts, Zenon
<1>7. \/ results[i] = Answer(calls[i], asOf[i])
      \/ results[i] = OutOfGas /\ calls[i].target \in failed
  BY <1>6, Zenon DEF ResultsLineUp
<1>8. ~OutOfGas.success
  BY DEF OutOfGas
<1>9. QED
  BY <1>5, <1>7, <1>8, Zenon

\* What the first pass has told of f, at block b and later.
FirstRead(f, b) ==
  /\ chain[b][f.address].price = f.price /\ chain[b][f.address].tick = f.tick
  /\ \E c \in b..block : chain[c][f.address].liquidity = f.liquidity

\* The candidates that the first pass takes for live.
LEMMA LiveOnesFacts ==
  ASSUME NEW N, N = Len(Candidates)
  PROVE  /\ N \in Nat /\ DOMAIN Candidates = 1..N
         /\ \A i \in 1..N : Candidates[i] \in CandidateSet /\ Candidates[i].address \in V3Addresses
         /\ Len(LiveOnes) \in Nat /\ DOMAIN LiveOnes = 1..Len(LiveOnes)
         /\ \A k \in DOMAIN LiveOnes : LiveOnes[k] \in 1..N /\ Live(LiveOnes[k])
         /\ \A i \in 1..N : Live(i) => \E k \in DOMAIN LiveOnes : LiveOnes[k] = i
<1> DEFINE T == {i \in DOMAIN Candidates : Live(i)}
<1>1. N \in Nat /\ DOMAIN Candidates = 1..N /\ \A i \in 1..N : Candidates[i] \in CandidateSet
  BY CandidatesFacts, SeqFacts, Zenon
<1>2. \A i \in 1..N : Candidates[i].address \in V3Addresses
  BY <1>1 DEF CandidateSet
<1>3. T \subseteq 1..N /\ \A i \in T : Live(i)
  BY <1>1
<1>4. \A i \in 1..N : Live(i) => i \in T
  BY <1>1
<1>5. LiveOnes = Ascending(T)
  BY DEF LiveOnes
<1> HIDE DEF T
<1>6. /\ Len(Ascending(T)) \in Nat /\ DOMAIN Ascending(T) = 1..Len(Ascending(T))
      /\ \A k \in DOMAIN Ascending(T) : Ascending(T)[k] \in T
      /\ \A x \in T : \E k \in DOMAIN Ascending(T) : Ascending(T)[k] = x
  BY <1>1, <1>3, AscendingPlaces, Zenon
<1>7. \A k \in DOMAIN LiveOnes : LiveOnes[k] \in 1..N /\ Live(LiveOnes[k])
  BY <1>3, <1>5, <1>6, Zenon
<1>8. \A i \in 1..N : Live(i) => \E k \in DOMAIN LiveOnes : LiveOnes[k] = i
  BY <1>4, <1>5, <1>6, Zenon
<1>9. QED
  BY <1>1, <1>2, <1>5, <1>6, <1>7, <1>8, Zenon

\* The results of candidate i's own calls.
LEMMA SlotsOf ==
  ASSUME ReaderTypes, InOrder, ResultsLineUp, calls = SlotCalls, Complete,
         NEW i \in 1..Len(Candidates), NEW a, a = Candidates[i].address
  PROVE  /\ a \in V3Addresses
         /\ 3 * i - 2 \in 1..Len(results) /\ 3 * i - 1 \in 1..Len(results)
         /\ calls[3 * i - 2] = Call(a, <<"slot0">>) /\ calls[3 * i - 1] = Call(a, <<"liquidity">>)
         /\ asOf[3 * i - 2] <= asOf[3 * i - 1]
<1> DEFINE N == Len(Candidates)
<1>1. N \in Nat /\ a \in V3Addresses
  BY LiveOnesFacts, Zenon
<1>2. Len(results) = 3 * N
  BY SlotCallsFacts DEF Complete
<1>3. Len(asOf) = Len(results)
  BY DEF ReaderTypes
<1>4. calls[3 * i - 2] = Call(a, <<"slot0">>) /\ calls[3 * i - 1] = Call(a, <<"liquidity">>)
  BY SlotCallsFacts, Zenon
<1> HIDE DEF N
<1>5. i \in 1..N
  BY DEF N
<1>6. 3 * i - 2 \in 1..(3 * N) /\ 3 * i - 1 \in 1..(3 * N) /\ 3 * i - 2 <= 3 * i - 1
  BY <1>1, <1>5
<1>7. asOf[3 * i - 2] <= asOf[3 * i - 1]
  <2>1. 3 * i - 2 \in 1..Len(asOf) /\ 3 * i - 1 \in 1..Len(asOf)
    BY <1>2, <1>3, <1>6
  <2>2. QED
    BY <1>6, <2>1, Zenon DEF InOrder
<1>8. QED
  BY <1>1, <1>2, <1>4, <1>6, <1>7, Zenon

\* A live candidate has been read: the price first, the liquidity then or later.
LEMMA LiveWasRead ==
  ASSUME ReaderTypes, InOrder, ResultsLineUp, calls = SlotCalls, Complete,
         NEW i \in 1..Len(Candidates), Live(i), NEW f, f.address = Candidates[i].address,
         f.price = results[3 * i - 2].data[1], f.tick = DecodeInt24(results[3 * i - 2].data[2]),
         f.liquidity = Number(results[3 * i - 1].data)
  PROVE  \E b \in Seen(f.address) : FirstRead(f, b)
<1> DEFINE a == f.address
           r == results[3 * i - 2]
           l == results[3 * i - 1]
           b == asOf[3 * i - 2]
           c == asOf[3 * i - 1]
<1>1. /\ a \in V3Addresses
      /\ 3 * i - 2 \in 1..Len(results) /\ 3 * i - 1 \in 1..Len(results)
      /\ calls[3 * i - 2] = Call(a, <<"slot0">>) /\ calls[3 * i - 1] = Call(a, <<"liquidity">>)
      /\ b <= c
  BY SlotsOf, Zenon
<1>2. r.success /\ l.success /\ Len(r.data) >= 2 /\ Number(l.data) > 0
  BY DEF Live
<1>3. /\ b \in 1..Len(chain) /\ b \in since..block /\ c \in 1..Len(chain) /\ c \in since..block
      /\ r = Answer(Call(a, <<"slot0">>), b) /\ l = Answer(Call(a, <<"liquidity">>), c)
  BY <1>1, <1>2, ResultOf, Zenon
<1>4. chain \in Chains
  BY DEF ReaderTypes
<1>5. f.price = r.data[1] /\ f.tick = DecodeInt24(r.data[2]) /\ f.liquidity = Number(l.data)
  OBVIOUS
<1> HIDE DEF a, r, l, b, c
<1>6. Deployed(a, b) /\ r.data[1] = chain[b][a].price /\ DecodeInt24(r.data[2]) = chain[b][a].tick
  BY <1>1, <1>2, <1>3, <1>4, SlotTells, Zenon
<1>7. Number(l.data) = chain[c][a].liquidity
  BY <1>1, <1>2, <1>3, <1>4, LiquidityTells, Zenon
<1>8. b \in Seen(a)
  BY <1>3, <1>6 DEF Seen
<1>9. c \in b..block
  <2>1. block \in Nat /\ since \in Nat
    BY Blocks
  <2>2. QED
    BY <1>1, <1>3, <2>1
<1>10. FirstRead(f, b)
  BY <1>5, <1>6, <1>7, <1>9 DEF FirstRead, a
<1>11. QED
  BY <1>8, <1>10 DEF a

\* A pool that could quote all along is live.
LEMMA SteadyIsLive ==
  ASSUME ReaderTypes, InOrder, ResultsLineUp, calls = SlotCalls, Complete, protocol = "v3",
         NEW i \in 1..Len(Candidates), Steady(Candidates[i].address)
  PROVE  Live(i)
<1>0. PICK a : a = Candidates[i].address
  OBVIOUS
<1> DEFINE r == results[3 * i - 2]
           l == results[3 * i - 1]
           b == asOf[3 * i - 2]
           c == asOf[3 * i - 1]
<1>1. /\ a \in V3Addresses
      /\ 3 * i - 2 \in 1..Len(results) /\ 3 * i - 1 \in 1..Len(results)
      /\ calls[3 * i - 2] = Call(a, <<"slot0">>) /\ calls[3 * i - 1] = Call(a, <<"liquidity">>)
  BY <1>0, SlotsOf, Zenon
<1>2. calls[3 * i - 2].target = a /\ calls[3 * i - 1].target = a
  <2>1. Call(a, <<"slot0">>).target = a /\ Call(a, <<"liquidity">>).target = a
    BY CallFields
  <2>2. QED
    BY <1>1, <2>1, Zenon
<1>3. a \notin failed /\ \A d \in since..block : Quotes(a, d)
  BY <1>0 DEF Steady
<1>4. /\ b \in 1..Len(chain) /\ b \in since..block /\ c \in 1..Len(chain) /\ c \in since..block
      /\ r = Answer(Call(a, <<"slot0">>), b) /\ l = Answer(Call(a, <<"liquidity">>), c)
  BY <1>1, <1>2, <1>3, ResultOf, Zenon
<1>5. chain \in Chains
  BY DEF ReaderTypes
<1>6. Quotes(a, b) /\ Quotes(a, c)
  BY <1>3, <1>4, Zenon
<1>7. Live(i) <=> /\ r.success /\ l.success /\ Len(r.data) >= 2 /\ r.data[1] > 0
                  /\ Number(l.data) > 0
  BY DEF Live
<1> HIDE DEF r, l, b, c
<1>8. /\ Deployed(a, b) /\ chain[b][a].price > 0
      /\ Deployed(a, c) /\ chain[c][a].liquidity > 0
  BY <1>6 DEF Quotes
<1>9. r.success = TRUE /\ Len(r.data) = 2
  BY <1>1, <1>4, <1>5, <1>8, SlotTells, Zenon
<1>10. Len(r.data) >= 2
  BY <1>9
<1>11. r.data[1] = chain[b][a].price
  BY <1>1, <1>4, <1>5, <1>10, SlotTells, Zenon
<1>12. l.success = TRUE /\ Number(l.data) = chain[c][a].liquidity
  BY <1>1, <1>4, <1>5, <1>8, LiquidityTells, Zenon
<1>13. QED
  BY <1>7, <1>8, <1>9, <1>10, <1>11, <1>12, Zenon

----------------------------------------------------------------------------
(* What is returned.                                                       *)

\* Tick m of what is returned for pool k is told by result i.
Told(k, m, n, i) ==
  /\ i = Cursor(k) + n /\ i <= Len(results) /\ results[i].success
  /\ Len(results[i].data) >= 8 /\ results[i].data[8] # 0
  /\ TicksOf(k)[m].index = Window(found[k])[n]
  /\ TicksOf(k)[m].net = DecodeNet(results[i].data[2])

\* Every tick returned for pool k is told by a result of its own part of the pass.
LEMMA TicksAreTold ==
  ASSUME NEW k, Window(found[k]) \in Seq(MinTick..MaxTick), NEW m \in DOMAIN TicksOf(k)
  PROVE  \E n \in 1..Len(Window(found[k])) : \E i : Told(k, m, n, i)
<1> DEFINE w == Window(found[k])
           R(n) == results[Cursor(k) + n]
           I(n) == /\ Cursor(k) + n <= Len(results)
                   /\ R(n).success /\ Len(R(n).data) >= 8
                   /\ R(n).data[8] # 0 /\ DecodeNet(R(n).data[2]) # 0
           T == {n \in DOMAIN w : I(n)}
           taken == Ascending(T)
<1>1. Len(w) \in Nat /\ DOMAIN w = 1..Len(w)
  BY SeqFacts, Zenon
<1>2. TicksOf(k) = [j \in DOMAIN taken |-> [index |-> w[taken[j]],
                                            net |-> DecodeNet(R(taken[j]).data[2])]]
  BY DEF TicksOf
<1> HIDE DEF w, I, R
<1>3. T \subseteq 1..Len(w) /\ \A n \in T : I(n)
  BY <1>1
<1> HIDE DEF T
<1>4. \A j \in DOMAIN taken : taken[j] \in T
  BY <1>1, <1>3, AscendingPlaces, Zenon
<1> HIDE DEF taken
<1>5. m \in DOMAIN taken
  BY <1>2
<1>6. PICK n : n = taken[m]
  OBVIOUS
<1>7. n \in 1..Len(w) /\ I(n)
  BY <1>3, <1>4, <1>5, <1>6
<1>8. TicksOf(k)[m].index = w[n] /\ TicksOf(k)[m].net = DecodeNet(R(n).data[2])
  BY <1>2, <1>5, <1>6
<1>9. PICK i : i = Cursor(k) + n
  OBVIOUS
<1>10. R(n) = results[i]
  BY <1>9 DEF R
<1>11. i <= Len(results) /\ R(n).success /\ Len(R(n).data) >= 8 /\ R(n).data[8] # 0
  BY <1>7, <1>9, Zenon DEF I
<1>12. Told(k, m, n, i)
  BY <1>8, <1>9, <1>10, <1>11, Zenon DEF Told, w
<1>13. QED
  BY <1>7, <1>12 DEF w

\* Ticks that the pool at address a had, at block b or later.
TicksRead(ts, a, b) ==
  \A m \in DOMAIN ts : \E c \in b..block :
    /\ ts[m].index \in DOMAIN chain[c][a].nets
    /\ \/ chain[c][a].nets[ts[m].index] < 0
       \/ chain[c][a].nets[ts[m].index] = ts[m].net

\* What the two passes tell is what WasRead asks for.
LEMMA ReadInFull ==
  ASSUME protocol = "v3", NEW p, NEW b \in Seen(p.address), FirstRead(p, b),
         TicksRead(p.ticks, p.address, b)
  PROVE  WasRead(p)
<1>1. protocol # "v2"
  OBVIOUS
<1>2. QED
  BY <1>1, Zenon DEF WasRead, FirstRead, TicksRead

\* With its ticks, what is returned for a pool has been read.
LEMMA TicksWereRead ==
  ASSUME ReaderTypes, InOrder, ResultsLineUp, calls = TickCalls(found), protocol = "v3",
         NEW N \in Nat, DOMAIN found = 1..N, \A j \in 1..N : found[j].address \in V3Addresses,
         NEW k \in 1..N, NEW b \in Seen(found[k].address), FirstRead(found[k], b),
         \A i \in 1..Len(asOf) : b <= asOf[i],
         NEW p, p.address = found[k].address, p.price = found[k].price, p.tick = found[k].tick,
         p.liquidity = found[k].liquidity, p.ticks = TicksOf(k)
  PROVE  WasRead(p)
<1>1. PICK a : a = found[k].address
  OBVIOUS
<1>2. a \in V3Addresses
  BY <1>1
<1>3. chain \in Chains
  BY DEF ReaderTypes
<1>4. /\ Window(found[k]) \in Seq(MinTick..MaxTick) /\ Before(found, k) \in Nat
      /\ \A n \in 1..Len(Window(found[k])) :
           /\ Before(found, k) + n \in 1..Len(calls)
           /\ calls[Before(found, k) + n] =
                Call(a, <<"ticks", EncodeSigned(Window(found[k])[n])>>)
  BY <1>1, TickCallsFacts, Zenon
<1>5. Cursor(k) = Before(found, k)
  BY DEF Cursor, Before
<1>6. ASSUME NEW m \in DOMAIN TicksOf(k)
      PROVE  \E c \in b..block :
               /\ TicksOf(k)[m].index \in DOMAIN chain[c][a].nets
               /\ \/ chain[c][a].nets[TicksOf(k)[m].index] < 0
                  \/ chain[c][a].nets[TicksOf(k)[m].index] = TicksOf(k)[m].net
  <2>1. PICK n \in 1..Len(Window(found[k])) : \E i : Told(k, m, n, i)
    BY <1>4, TicksAreTold, Zenon
  <2>a. PICK i : Told(k, m, n, i)
    BY <2>1
  <2>2. PICK x : x = Window(found[k])[n]
    OBVIOUS
  <2>3. x \in MinTick..MaxTick
    BY <1>4, <2>2, SeqFacts, Zenon
  <2>4. /\ i = Before(found, k) + n /\ i <= Len(results) /\ results[i].success
        /\ Len(results[i].data) >= 8 /\ results[i].data[8] # 0
        /\ TicksOf(k)[m].index = x /\ TicksOf(k)[m].net = DecodeNet(results[i].data[2])
    BY <1>5, <2>a, <2>2, Zenon DEF Told
  <2>5. i \in 1..Len(calls) /\ calls[i] = Call(a, <<"ticks", EncodeSigned(x)>>)
    BY <1>4, <2>2, <2>4, Zenon
  <2>6. i \in 1..Len(results)
    <3>1. Len(results) \in Nat /\ Len(calls) \in Nat
      BY SeqFacts, Zenon DEF ReaderTypes
    <3>2. QED
      BY <2>4, <2>5, <3>1
  <2>7. PICK c, r : c = asOf[i] /\ r = results[i]
    OBVIOUS
  <2>8. c \in 1..Len(chain) /\ c \in since..block /\ r = Answer(calls[i], c)
    BY <2>4, <2>6, <2>7, ResultOf, Zenon
  <2>9. r = Answer(Call(a, <<"ticks", EncodeSigned(x)>>), c)
    BY <2>5, <2>8, Zenon
  <2>10. Len(r.data) >= 8 /\ r.data[8] # 0 /\ TicksOf(k)[m].net = DecodeNet(r.data[2])
    BY <2>4, <2>7, Zenon
  <2>11. /\ x \in DOMAIN chain[c][a].nets
         /\ chain[c][a].nets[x] < 0 \/ chain[c][a].nets[x] = DecodeNet(r.data[2])
    BY <1>2, <1>3, <2>3, <2>8, <2>9, <2>10, TickTells, Zenon
  <2>12. b <= c
    <3>1. Len(asOf) = Len(results)
      BY DEF ReaderTypes
    <3>2. QED
      BY <2>6, <2>7, <3>1
  <2>13. c \in b..block
    <3>1. b \in since..block
      BY DEF Seen
    <3>2. block \in Nat /\ since \in Nat
      BY Blocks
    <3>3. QED
      BY <2>8, <2>12, <3>1, <3>2
  <2>14. QED
    BY <2>4, <2>10, <2>11, <2>13, Zenon
<1>7. FirstRead(p, b)
  BY DEF FirstRead
<1>8. p.address = a /\ p.ticks = TicksOf(k)
  BY <1>1
<1>9. TicksRead(TicksOf(k), a, b)
  BY <1>6, Zenon DEF TicksRead
<1>10. TicksRead(p.ticks, p.address, b) /\ b \in Seen(p.address)
  BY <1>1, <1>8, <1>9, Zenon
<1>11. QED
  BY <1>7, <1>10, ReadInFull, Zenon

\* What the Sushiswap source returns has been read.
LEMMA HeldWasRead ==
  ASSUME ReaderTypes, InOrder, ResultsLineUp, calls = ReserveCalls, Complete, protocol = "v2",
         NEW i \in 1..Len(PairCandidates), HoldsReserves(i), NEW p,
         p.address = PairCandidates[i].address,
         p.r0 = results[i].data[1], p.r1 = results[i].data[2]
  PROVE  WasRead(p)
<1>1. PICK a, r, b : a = PairCandidates[i].address /\ r = results[i] /\ b = asOf[i]
  OBVIOUS
<1>2. a \in V2Addresses /\ i \in 1..Len(results) /\ calls[i] = Call(a, <<"getReserves">>)
  <2>1. PairCandidates[i] \in PairSet
    BY PairCandidatesFacts, SeqFacts, Zenon
  <2>2. a \in V2Addresses
    BY <1>1, <2>1 DEF PairSet
  <2>3. Len(results) = Len(PairCandidates)
    BY ReserveCallsFacts DEF Complete
  <2>4. QED
    BY <1>1, <2>2, <2>3, ReserveCallsFacts, Zenon
<1>3. r.success /\ Len(r.data) >= 3
  BY <1>1 DEF HoldsReserves
<1>4. /\ b \in 1..Len(chain) /\ b \in since..block /\ r = Answer(Call(a, <<"getReserves">>), b)
  BY <1>1, <1>2, <1>3, ResultOf, Zenon
<1>5. chain \in Chains
  BY DEF ReaderTypes
<1>6. Deployed(a, b) /\ r.data[1] = chain[b][a].r0 /\ r.data[2] = chain[b][a].r1
  BY <1>2, <1>3, <1>4, <1>5, ReservesTell, Zenon
<1>7. b \in Seen(a)
  BY <1>4, <1>6 DEF Seen
<1>8. p.address = a /\ chain[b][a].r0 = p.r0 /\ chain[b][a].r1 = p.r1
  BY <1>1, <1>6, Zenon
<1>9. QED
  BY <1>7, <1>8, Zenon DEF WasRead

\* A pair with reserves all along is returned.
LEMMA SteadyIsHeld ==
  ASSUME ReaderTypes, InOrder, ResultsLineUp, calls = ReserveCalls, Complete, protocol = "v2",
         NEW i \in 1..Len(PairCandidates), Steady(PairCandidates[i].address)
  PROVE  HoldsReserves(i)
<1>1. PICK a, r, b : a = PairCandidates[i].address /\ r = results[i] /\ b = asOf[i]
  OBVIOUS
<1>2. a \in V2Addresses /\ i \in 1..Len(results) /\ calls[i] = Call(a, <<"getReserves">>)
  <2>1. PairCandidates[i] \in PairSet
    BY PairCandidatesFacts, SeqFacts, Zenon
  <2>2. a \in V2Addresses
    BY <1>1, <2>1 DEF PairSet
  <2>3. Len(results) = Len(PairCandidates)
    BY ReserveCallsFacts DEF Complete
  <2>4. QED
    BY <1>1, <2>2, <2>3, ReserveCallsFacts, Zenon
<1>3. calls[i].target = a
  <2>1. Call(a, <<"getReserves">>).target = a
    BY CallFields
  <2>2. QED
    BY <1>2, <2>1, Zenon
<1>4. a \notin failed /\ \A d \in since..block : Quotes(a, d)
  BY <1>1 DEF Steady
<1>5. /\ b \in 1..Len(chain) /\ b \in since..block /\ r = Answer(Call(a, <<"getReserves">>), b)
  BY <1>1, <1>2, <1>3, <1>4, ResultOf, Zenon
<1>6. chain \in Chains
  BY DEF ReaderTypes
<1>7. Quotes(a, b)
  BY <1>4, <1>5, Zenon
<1>8. Deployed(a, b) /\ chain[b][a].r0 > 0 /\ chain[b][a].r1 > 0
  BY <1>7 DEF Quotes
<1>9. r.success = TRUE /\ Len(r.data) = 3
  BY <1>2, <1>5, <1>6, <1>8, ReservesTell, Zenon
<1>10. Len(r.data) >= 3
  BY <1>9
<1>11. r.data[1] = chain[b][a].r0 /\ r.data[2] = chain[b][a].r1
  BY <1>2, <1>5, <1>6, <1>10, ReservesTell, Zenon
<1>12. QED
  BY <1>1, <1>8, <1>9, <1>10, <1>11, Zenon DEF HoldsReserves

----------------------------------------------------------------------------
(* The invariant.                                                          *)

\* What the passes ask for.
PassesAsk ==
  /\ pc \in {"idle", "slots", "ticks", "reserves", "done", "failed"}
  /\ pc = "idle" => results = <<>>
  /\ pc # "done" => pools = <<>>
  /\ pc = "slots" => protocol = "v3" /\ calls = SlotCalls
  /\ pc = "ticks" => protocol = "v3" /\ calls = TickCalls(found)
  /\ pc = "reserves" => protocol = "v2" /\ calls = ReserveCalls

PoolList(fs) == \E n \in Nat : DOMAIN fs = 1..n /\ \A k \in 1..n : fs[k].address \in V3Addresses

\* What the first pass has found is of blocks no later than any of the second.
FoundWereRead ==
  pc = "ticks" =>
    /\ PoolList(found)
    /\ \A k \in DOMAIN found : \E b \in Seen(found[k].address) :
         FirstRead(found[k], b) /\ \A i \in 1..Len(asOf) : b <= asOf[i]

\* The first pass has missed no pool that could quote all along.
AllFound ==
  pc = "ticks" =>
    \A i \in DOMAIN Candidates :
      Steady(Candidates[i].address) =>
        \E k \in DOMAIN found : found[k].address = Candidates[i].address

ReadInv == /\ ReaderTypes /\ InOrder /\ ResultsLineUp /\ PassesAsk
           /\ FoundWereRead /\ AllFound /\ PoolsWereRead /\ LivePoolsAreReturned

\* The invariant holds at first.
LEMMA InitReadInv == Init => ReadInv
<1> SUFFICES ASSUME Init PROVE ReadInv
  OBVIOUS
<1> USE DEF Init, Blank
<1>1. Len(chain) \in Nat \ {0}
  BY ChainAssumption
<1>2. ReaderTypes
  BY <1>1 DEF ReaderTypes
<1>3. InOrder
  BY DEF InOrder
<1>4. ResultsLineUp
  BY DEF ResultsLineUp
<1>5. PassesAsk
  BY DEF PassesAsk
<1>6. FoundWereRead /\ AllFound /\ PoolsWereRead /\ LivePoolsAreReturned
  BY DEF FoundWereRead, AllFound, PoolsWereRead, LivePoolsAreReturned
<1>7. QED
  BY <1>2, <1>3, <1>4, <1>5, <1>6 DEF ReadInv

\* The chain has no other past.
LEMMA SameChain ==
  ASSUME chain' = chain, NEW c, NEW b
  PROVE  Answer(c, b)' = Answer(c, b)
<1>1. Returned(c, b)' = Returned(c, b)
  BY DEF Returned, EncodeSigned
<1>2. Deployed(c.target, b)' = Deployed(c.target, b)
  BY DEF Deployed
<1>3. QED
  BY <1>1, <1>2 DEF Answer, Returned, Deployed

\* While a read goes on, or its pools are held.
Goes == /\ chain' = chain /\ protocol' = protocol /\ since' = since
        /\ block' \in Nat /\ block <= block' /\ failed \subseteq failed'

\* What has been seen stays seen,
LEMMA SeenStays ==
  ASSUME ReaderTypes, Goes, NEW a
  PROVE  /\ \A b \in Seen(a) : b \in Seen(a)'
         /\ \A b \in Seen(a) : \A c \in b..block : c \in b..block'
<1>1. block \in Nat /\ since \in Nat
  BY Blocks
<1>2. ASSUME NEW b \in Seen(a) PROVE b \in Seen(a)' /\ \A c \in b..block : c \in b..block'
  <2>1. b \in since..block /\ Deployed(a, b)
    BY DEF Seen
  <2>2. b \in since..block' /\ \A c \in b..block : c \in b..block'
    BY <1>1, <2>1 DEF Goes
  <2>3. Deployed(a, b)'
    BY <2>1 DEF Deployed, Goes
  <2>4. QED
    BY <2>2, <2>3 DEF Seen, Goes
<1>3. QED
  BY <1>2

\* what has been read stays read,
LEMMA WasReadStays ==
  ASSUME ReaderTypes, Goes, NEW p, WasRead(p)
  PROVE  WasRead(p)'
<1>1. PICK b \in Seen(p.address) :
        IF protocol = "v2" THEN chain[b][p.address].r0 = p.r0 /\ chain[b][p.address].r1 = p.r1
        ELSE /\ chain[b][p.address].price = p.price /\ chain[b][p.address].tick = p.tick
             /\ \E c \in b..block : chain[c][p.address].liquidity = p.liquidity
             /\ \A n \in DOMAIN p.ticks :
                  \E c \in b..block :
                    /\ p.ticks[n].index \in DOMAIN chain[c][p.address].nets
                    /\ \/ chain[c][p.address].nets[p.ticks[n].index] < 0
                       \/ chain[c][p.address].nets[p.ticks[n].index] = p.ticks[n].net
  BY DEF WasRead
<1>2. b \in Seen(p.address)' /\ \A c \in b..block : c \in b..block'
  BY SeenStays
<1>3. chain' = chain /\ protocol' = protocol
  BY DEF Goes
<1>4. QED
  BY <1>1, <1>2, <1>3, Zenon DEF WasRead

\* in the first pass too,
LEMMA FirstReadStays ==
  ASSUME ReaderTypes, Goes, NEW f, NEW b \in Seen(f.address), FirstRead(f, b)
  PROVE  FirstRead(f, b)'
<1>1. \A c \in b..block : c \in b..block'
  BY SeenStays
<1>2. chain' = chain
  BY DEF Goes
<1>3. QED
  BY <1>1, <1>2, Zenon DEF FirstRead

\* and what is steady was steady before.
LEMMA SteadyBefore ==
  ASSUME ReaderTypes, Goes, NEW a, Steady(a)'
  PROVE  Steady(a)
<1>1. block \in Nat /\ since \in Nat
  BY Blocks
<1>2. \A b \in since..block : b \in since'..block'
  BY <1>1 DEF Goes
<1>3. chain' = chain /\ protocol' = protocol
  BY DEF Goes
<1>4. \A b \in since..block : Quotes(a, b)
  <2>1. ASSUME NEW b \in since..block PROVE Quotes(a, b)
    <3>1. Quotes(a, b)'
      BY <1>2 DEF Steady
    <3>2. QED
      BY <1>3, <3>1 DEF Quotes, Deployed
  <2>2. QED
    BY <2>1
<1>5. a \notin failed
  BY DEF Steady, Goes
<1>6. QED
  BY <1>4, <1>5 DEF Steady

\* The pools that a source has returned stay true as the chain moves on.
LEMMA PoolsStay ==
  ASSUME ReaderTypes, Goes, pools' = pools, pc' = "done" => pc = "done",
         PoolsWereRead, LivePoolsAreReturned
  PROVE  PoolsWereRead' /\ LivePoolsAreReturned'
<1>1. PoolsWereRead'
  <2>1. ASSUME pc' = "done", NEW k \in DOMAIN pools PROVE WasRead(pools[k])'
    <3>1. PICK p : p = pools[k]
      OBVIOUS
    <3>2. WasRead(p)
      BY <2>1, <3>1 DEF PoolsWereRead
    <3>3. WasRead(p)'
      BY <3>2, WasReadStays
    <3>4. QED
      BY <3>1, <3>3, Zenon
  <2>2. QED
    BY <2>1 DEF PoolsWereRead
<1>2. LivePoolsAreReturned'
  <2>1. protocol' = protocol
    BY DEF Goes
  <2>2. Probed' = Probed
    BY <2>1 DEF Probed
  <2>3. ASSUME pc' = "done", NEW i \in DOMAIN Probed, NEW a, a = Probed[i].address, Steady(a)'
        PROVE  \E k \in DOMAIN pools : pools[k].address = a
    <3>1. Steady(a)
      BY <2>3, SteadyBefore
    <3>2. QED
      BY <2>3, <3>1 DEF LivePoolsAreReturned
  <2>4. QED
    BY <2>2, <2>3, Zenon DEF LivePoolsAreReturned
<1>3. QED
  BY <1>1, <1>2

----------------------------------------------------------------------------
(* Its steps.                                                              *)

\* What the first pass has found stays true as well.
LEMMA FoundStays ==
  ASSUME ReaderTypes, Goes, found' = found, pc' = "ticks" => pc = "ticks",
         FoundWereRead, AllFound, asOf' \in Seq(Nat),
         \A i \in 1..Len(asOf') : asOf'[i] = block \/ (i \in 1..Len(asOf) /\ asOf'[i] = asOf[i])
  PROVE  FoundWereRead' /\ AllFound'
<1>1. FoundWereRead'
  <2> SUFFICES ASSUME pc' = "ticks"
               PROVE  /\ PoolList(found)
                      /\ \A k \in DOMAIN found : (\E b \in Seen(found[k].address) :
                           FirstRead(found[k], b) /\ \A i \in 1..Len(asOf) : b <= asOf[i])'
    BY DEF FoundWereRead, PoolList
  <2>1. PoolList(found)
    BY DEF FoundWereRead
  <2>2. ASSUME NEW k \in DOMAIN found
        PROVE  (\E b \in Seen(found[k].address) :
                  FirstRead(found[k], b) /\ \A i \in 1..Len(asOf) : b <= asOf[i])'
    <3>1. PICK f : f = found[k]
      OBVIOUS
    <3>2. PICK b \in Seen(f.address) : FirstRead(f, b) /\ \A i \in 1..Len(asOf) : b <= asOf[i]
      BY <3>1, Zenon DEF FoundWereRead
    <3>3. b \in Seen(f.address)' /\ FirstRead(f, b)'
      BY <3>2, SeenStays, FirstReadStays
    <3>4. \A i \in 1..Len(asOf') : b <= asOf'[i]
      <4>1. b \in since..block
        BY DEF Seen
      <4>2. block \in Nat /\ since \in Nat
        BY Blocks
      <4>3. b <= block
        BY <4>1, <4>2
      <4>4. QED
        BY <3>2, <4>3
    <3>5. f = found'[k]
      BY <3>1
    <3>6. QED
      BY <3>3, <3>4, <3>5, Zenon
  <2>3. QED
    BY <2>1, <2>2
<1>2. AllFound'
  <2>1. ASSUME pc' = "ticks", NEW i \in DOMAIN Candidates,
               NEW a, a = Candidates[i].address, Steady(a)'
        PROVE  \E k \in DOMAIN found : found[k].address = a
    <3>1. Steady(a)
      BY <2>1, SteadyBefore
    <3>2. QED
      BY <2>1, <3>1 DEF AllFound
  <2>2. QED
    BY <2>1, Zenon DEF AllFound
<1>3. QED
  BY <1>1, <1>2

\* A step of the chain alone, one that gives the read up, or none at all.
LEMMA Keeps ==
  ASSUME ReadInv, UNCHANGED <<chain, protocol, calls, results, found, pools, since, asOf, failed>>,
         block' \in block..Len(chain), pc' = pc \/ (pc' = "failed" /\ pc # "done")
  PROVE  ReadInv'
<1>1. ReaderTypes /\ InOrder /\ ResultsLineUp /\ PassesAsk
  BY DEF ReadInv
<1>2. FoundWereRead /\ AllFound /\ PoolsWereRead /\ LivePoolsAreReturned
  BY DEF ReadInv
<1>3. /\ Len(chain) \in Nat /\ block \in Nat /\ since \in Nat /\ 1 <= since
      /\ since <= block /\ block <= Len(chain)
  BY <1>1, Blocks
<1>4. block' \in Nat /\ block <= block' /\ block' <= Len(chain)
  BY <1>3
<1>5. Goes
  BY <1>4 DEF Goes
<1>6. ReaderTypes'
  <2>1. block' \in 1..Len(chain) /\ since \in 1..block'
    BY <1>3, <1>4
  <2>2. QED
    BY <1>1, <2>1 DEF ReaderTypes
<1>7. /\ \A i \in 1..Len(asOf) : asOf[i] \in Nat
      /\ asOf \in Seq(Nat)
  BY <1>1, SeqFacts, Zenon DEF ReaderTypes
<1>8. InOrder'
  <2>1. \A i \in 1..Len(asOf) : asOf[i] <= block'
    BY <1>1, <1>3, <1>4, <1>7 DEF InOrder
  <2>2. QED
    BY <1>1, <2>1 DEF InOrder
<1>9. ResultsLineUp'
  BY <1>1, SameChain DEF ResultsLineUp
<1>10. PassesAsk'
  BY <1>1 DEF PassesAsk
<1>11. FoundWereRead' /\ AllFound'
  BY <1>1, <1>2, <1>5, <1>7, FoundStays
<1>12. PoolsWereRead' /\ LivePoolsAreReturned'
  BY <1>1, <1>2, <1>5, PoolsStay
<1>13. QED
  BY <1>6, <1>8, <1>9, <1>10, <1>11, <1>12 DEF ReadInv

\* The calls of a pass are calls that the contracts know.
LEMMA PassTypes ==
  /\ SlotCalls \in Seq(ReadCalls) /\ ReserveCalls \in Seq(ReadCalls)
  /\ \A fs : PoolList(fs) => TickCalls(fs) \in Seq(ReadCalls)
<1>1. ASSUME NEW S, S \subseteq ReadCalls, NEW s \in Seq(S) PROVE s \in Seq(ReadCalls)
  <2>1. Len(s) \in Nat /\ s \in [1..Len(s) -> S]
    BY LenProperties, Zenon
  <2>2. s \in [1..Len(s) -> ReadCalls]
    BY <1>1, <2>1
  <2>3. QED
    BY <2>1, <2>2, Listing, Zenon
<1>2. V3Calls \subseteq ReadCalls /\ V2Calls \subseteq ReadCalls
  BY DEF ReadCalls
<1>3. SlotCalls \in Seq(V3Calls) /\ ReserveCalls \in Seq(V2Calls)
  BY SlotCallsFacts, ReserveCallsFacts
<1>4. \A fs : PoolList(fs) => TickCalls(fs) \in Seq(V3Calls)
  <2>1. ASSUME NEW fs, PoolList(fs) PROVE TickCalls(fs) \in Seq(V3Calls)
    <3>1. PICK n \in Nat : DOMAIN fs = 1..n /\ \A k \in 1..n : fs[k].address \in V3Addresses
      BY <2>1 DEF PoolList
    <3>2. QED
      BY <3>1, TickCallsFacts, Zenon
  <2>2. QED
    BY <2>1
<1>5. QED
  BY <1>1, <1>2, <1>3, <1>4, Zenon

\* A pass begins with no results.
NoneYet ==
  /\ chain \in Chains /\ block \in 1..Len(chain) /\ since \in 1..block
  /\ calls \in Seq(ReadCalls) /\ results = <<>> /\ asOf = <<>>

\* Then the results are in order.
LEMMA Afresh == NoneYet => ReaderTypes /\ InOrder /\ ResultsLineUp
<1> SUFFICES ASSUME NoneYet PROVE ReaderTypes /\ InOrder /\ ResultsLineUp
  OBVIOUS
<1> USE DEF NoneYet
<1>1. Len(calls) \in Nat
  BY SeqFacts, Zenon
<1>2. ReaderTypes
  <2>1. results \in Seq(Outcomes) /\ asOf \in Seq(Nat) /\ Len(results) = 0 /\ Len(asOf) = 0
    OBVIOUS
  <2>2. Len(results) <= Len(calls)
    BY <1>1, <2>1
  <2>3. QED
    BY <2>1, <2>2 DEF ReaderTypes
<1>3. InOrder
  BY DEF InOrder
<1>4. ResultsLineUp
  BY DEF ResultsLineUp
<1>5. QED
  BY <1>2, <1>3, <1>4

\* A read begins.
LEMMA BeginStep ==
  ASSUME ReadInv, BeginUniswap \/ BeginSushiswap
  PROVE  ReadInv'
<1>1. /\ pc = "idle" /\ since' = block
      /\ UNCHANGED <<chain, block, results, found, pools, asOf, failed>>
  BY DEF BeginUniswap, BeginSushiswap, Begin
<1>2. \/ pc' = "slots" /\ protocol' = "v3" /\ calls' = SlotCalls
      \/ pc' = "reserves" /\ protocol' = "v2" /\ calls' = ReserveCalls
  BY DEF BeginUniswap, BeginSushiswap, Begin
<1>3. ReaderTypes /\ PassesAsk
  BY DEF ReadInv
<1>4. /\ Len(chain) \in Nat /\ block \in Nat /\ since \in Nat /\ 1 <= since
      /\ since <= block /\ block <= Len(chain)
  BY <1>3, Blocks
<1>5. calls' \in Seq(ReadCalls)
  BY <1>2, PassTypes, Zenon
<1>6. results = <<>> /\ pools = <<>>
  BY <1>1, <1>3 DEF PassesAsk
<1>7. asOf = <<>>
  <2>1. asOf \in Seq(Nat) /\ Len(asOf) = 0
    BY <1>3, <1>6 DEF ReaderTypes
  <2>2. QED
    BY <2>1
<1>8. chain' \in Chains /\ block' \in 1..Len(chain') /\ since' \in 1..block'
  <2>1. chain \in Chains /\ block \in 1..Len(chain) /\ block \in 1..block
    BY <1>3, <1>4 DEF ReaderTypes
  <2>2. QED
    BY <1>1, <2>1
<1>9. results' = <<>> /\ asOf' = <<>> /\ pools' = <<>>
  BY <1>1, <1>6, <1>7
<1>10. (ReaderTypes /\ InOrder /\ ResultsLineUp)'
  <2>1. NoneYet'
    BY <1>5, <1>8, <1>9 DEF NoneYet
  <2>2. QED
    BY <2>1, Afresh, PTL
<1>11. PassesAsk'
  BY <1>2, <1>9 DEF PassesAsk
<1>12. (FoundWereRead /\ AllFound /\ PoolsWereRead /\ LivePoolsAreReturned)'
  BY <1>2 DEF FoundWereRead, AllFound, PoolsWereRead, LivePoolsAreReturned
<1>13. QED
  BY <1>10, <1>11, <1>12 DEF ReadInv

\* The read is over.
LEMMA ReturnStep ==
  ASSUME ReadInv, Return
  PROVE  ReadInv'
<1>1. /\ pc' = "idle" /\ calls' = <<>> /\ results' = <<>> /\ pools' = <<>> /\ asOf' = <<>>
      /\ since' = block /\ UNCHANGED <<chain, block, protocol>>
  BY DEF Return
<1>2. ReaderTypes
  BY DEF ReadInv
<1>3. Len(chain) \in Nat /\ block \in Nat /\ 1 <= since /\ since <= block /\ since \in Nat
  BY <1>2, Blocks
<1>4. chain' \in Chains /\ block' \in 1..Len(chain') /\ since' \in 1..block'
  <2>1. chain \in Chains /\ block \in 1..Len(chain) /\ block \in 1..block
    BY <1>2, <1>3 DEF ReaderTypes
  <2>2. QED
    BY <1>1, <2>1
<1>5. calls' \in Seq(ReadCalls)
  BY <1>1
<1>6. (ReaderTypes /\ InOrder /\ ResultsLineUp)'
  <2>1. NoneYet'
    BY <1>1, <1>4, <1>5 DEF NoneYet
  <2>2. QED
    BY <2>1, Afresh, PTL
<1>7. PassesAsk'
  BY <1>1 DEF PassesAsk
<1>8. (FoundWereRead /\ AllFound /\ PoolsWereRead /\ LivePoolsAreReturned)'
  BY <1>1 DEF FoundWereRead, AllFound, PoolsWereRead, LivePoolsAreReturned
<1>9. QED
  BY <1>6, <1>7, <1>8 DEF ReadInv

\* What the next state says of the results, in terms of this one.
LEMMA LineUpNext ==
  ASSUME chain' = chain,
         \A i \in DOMAIN results' : \/ results'[i] = Answer(calls'[i], asOf'[i])
                                    \/ results'[i] = OutOfGas /\ calls'[i].target \in failed'
  PROVE  ResultsLineUp'
<1>1. \A c, b : Answer(c, b)' = Answer(c, b)
  BY SameChain
<1>2. ASSUME NEW i \in DOMAIN results'
      PROVE  \/ results'[i] = (Answer(calls[i], asOf[i]))'
             \/ results'[i] = OutOfGas /\ calls'[i].target \in failed'
  BY <1>1
<1>3. QED
  BY <1>2 DEF ResultsLineUp

\* The places of what is appended.
LEMMA Appended ==
  ASSUME NEW S, NEW s \in Seq(S), NEW t \in Seq(S), NEW r, r = Len(s), NEW w, w = Len(t),
         NEW u, u = s \o t
  PROVE  /\ u \in Seq(S) /\ r \in Nat /\ Len(u) = r + w
         /\ \A p \in 1..r : u[p] = s[p]
         /\ \A p \in 1..w : u[r + p] = t[p]
<1>1. /\ s \o t \in Seq(S)
      /\ Len(s) \in Nat /\ Len(t) \in Nat /\ Len(s \o t) = Len(s) + Len(t)
      /\ \A p \in 1..Len(s) : (s \o t)[p] = s[p]
      /\ \A p \in 1..Len(t) : (s \o t)[Len(s) + p] = t[p]
  BY Joining
<1>2. QED
  BY <1>1

\* One more batch of results.
LEMMA MoreResults ==
  ASSUME ReadInv, Reading, Len(results) < Len(calls), NEW gas, gas \subseteq DOMAIN Chunk,
         results' = results \o Given(Chunk, gas, block),
         asOf' = asOf \o [i \in 1..Len(Chunk) |-> block],
         failed' = failed \cup {Chunk[i].target : i \in gas},
         UNCHANGED <<chain, block, pc, protocol, calls, found, pools, since>>
  PROVE  ReadInv'
<1>1. ReaderTypes /\ InOrder /\ ResultsLineUp /\ PassesAsk
  BY DEF ReadInv
<1>2. FoundWereRead /\ AllFound /\ PoolsWereRead /\ LivePoolsAreReturned
  BY DEF ReadInv
<1>3. /\ Len(chain) \in Nat /\ block \in Nat /\ since \in Nat /\ 1 <= since
      /\ since <= block /\ block <= Len(chain) /\ block \in 1..Len(chain)
  BY <1>1, Blocks
<1>4. /\ chain \in Chains /\ calls \in Seq(ReadCalls) /\ results \in Seq(Outcomes)
      /\ asOf \in Seq(Nat) /\ Len(asOf) = Len(results)
  BY <1>1 DEF ReaderTypes
<1> DEFINE r == Len(results)
           w == Len(Chunk)
           rs == Given(Chunk, gas, block)
           bs == [i \in 1..w |-> block]
<1>5. /\ Chunk \in Seq(ReadCalls) /\ w \in Nat /\ DOMAIN Chunk = 1..w
      /\ r + w <= Len(calls) /\ \A j \in 1..w : Chunk[j] = calls[r + j]
  BY <1>4, ChunkFacts
<1>6. rs \in Seq(Outcomes) /\ Len(rs) = w
  BY <1>3, <1>4, <1>5, GivenType
<1>7. \A j \in 1..w : rs[j] = IF j \in gas THEN OutOfGas ELSE Answer(Chunk[j], block)
  BY <1>5 DEF Given
<1>8. bs \in [1..w -> Nat] /\ \A j \in 1..w : bs[j] = block
  BY <1>3
<1>9. results' = results \o rs /\ asOf' = asOf \o bs
  OBVIOUS
<1> HIDE DEF r, w, rs, bs
<1>10. bs \in Seq(Nat) /\ Len(bs) = w
  BY <1>5, <1>8, Listing, Zenon
<1>11. /\ results' \in Seq(Outcomes) /\ r \in Nat /\ Len(results') = r + w
       /\ \A p \in 1..r : results'[p] = results[p]
       /\ \A p \in 1..w : results'[r + p] = rs[p]
  <2>1. w = Len(rs) /\ r = Len(results)
    BY <1>6 DEF r
  <2>2. QED
    <3>1. results \in Seq(Outcomes)
      BY <1>4
    <3>2. rs \in Seq(Outcomes)
      BY <1>6
    <3>3. results' = results \o rs
      BY <1>9
    <3>4. QED
      BY <2>1, <3>1, <3>2, <3>3, Appended
<1>12. /\ asOf' \in Seq(Nat) /\ Len(asOf') = r + w
       /\ \A p \in 1..r : asOf'[p] = asOf[p]
       /\ \A p \in 1..w : asOf'[r + p] = block
  <2>1. w = Len(bs) /\ r = Len(asOf)
    BY <1>4, <1>10 DEF r
  <2>2. /\ asOf' \in Seq(Nat) /\ Len(asOf') = r + w
        /\ \A p \in 1..r : asOf'[p] = asOf[p]
        /\ \A p \in 1..w : asOf'[r + p] = bs[p]
    <3>1. asOf \in Seq(Nat)
      BY <1>4
    <3>2. bs \in Seq(Nat)
      BY <1>10
    <3>3. asOf' = asOf \o bs
      BY <1>9
    <3>4. PICK u, s, x : u = asOf' /\ s = asOf /\ x = bs
      OBVIOUS
    <3>5. s \in Seq(Nat) /\ x \in Seq(Nat) /\ u = s \o x /\ r = Len(s) /\ w = Len(x)
      BY <2>1, <3>1, <3>2, <3>3, <3>4, Zenon
    <3>6. /\ u \in Seq(Nat) /\ Len(u) = r + w
          /\ \A p \in 1..r : u[p] = s[p]
          /\ \A p \in 1..w : u[r + p] = x[p]
      <4>1. s \in Seq(Nat)
        BY <3>5
      <4>2. x \in Seq(Nat)
        BY <3>5
      <4>3. u = s \o x /\ r = Len(s) /\ w = Len(x)
        BY <3>5
      <4>4. QED
        BY <4>1, <4>2, <4>3, Appended
    <3>7. QED
      BY <3>4, <3>6, Zenon
  <2>3. QED
    BY <1>8, <2>2, Zenon
<1>13. \A i \in 1..(r + w) : i \in 1..r \/ \E j \in 1..w : i = r + j
  <2>1. ASSUME NEW i \in 1..(r + w), i \notin 1..r PROVE \E j \in 1..w : i = r + j
    <3>1. i - r \in 1..w /\ i = r + (i - r)
      BY <1>5, <1>11, <2>1
    <3>2. QED
      BY <3>1
  <2>2. QED
    BY <2>1
<1>14. ReaderTypes'
  BY <1>1, <1>5, <1>11, <1>12 DEF ReaderTypes
<1>15. Goes
  BY <1>3 DEF Goes
<1>16. \A i \in 1..r : asOf[i] \in Nat /\ since <= asOf[i] /\ asOf[i] <= block
  <2>1. \A i \in 1..r : asOf[i] \in Nat
    BY <1>4, SeqFacts, Zenon DEF r
  <2>2. QED
    BY <1>1, <1>4, <2>1 DEF InOrder, r
<1>17. InOrder'
  <2>1. \A i \in 1..(r + w) : since <= asOf'[i] /\ asOf'[i] <= block
    <3>1. since <= block /\ block <= block
      BY <1>3
    <3>2. QED
      BY <1>12, <1>13, <1>16, <3>1, Zenon
  <2>2. ASSUME NEW i \in 1..(r + w), NEW j \in 1..(r + w), i <= j PROVE asOf'[i] <= asOf'[j]
    <3>1. CASE j \in 1..r
      <4>1. i \in 1..r
        BY <1>11, <1>5, <2>2, <3>1
      <4>2. asOf[i] <= asOf[j]
        BY <1>1, <1>4, <2>2, <3>1, <4>1 DEF InOrder, r
      <4>3. QED
        BY <1>12, <3>1, <4>1, <4>2, Zenon
    <3>2. CASE j \notin 1..r
      <4>1. asOf'[j] = block
        BY <1>12, <1>13, <3>2, Zenon
      <4>2. QED
        BY <2>1, <4>1, Zenon
    <3>3. QED
      BY <3>1, <3>2
  <2>3. QED
    BY <1>12, <2>1, <2>2 DEF InOrder
<1>18. ResultsLineUp'
  <2>1. DOMAIN results' = 1..(r + w) /\ DOMAIN results = 1..r
    BY <1>4, <1>11, SeqFacts, Zenon DEF r
  <2>2. ASSUME NEW i \in 1..r
        PROVE  \/ results'[i] = Answer(calls'[i], asOf'[i])
               \/ results'[i] = OutOfGas /\ calls'[i].target \in failed'
    <3>1. \/ results[i] = Answer(calls[i], asOf[i])
          \/ results[i] = OutOfGas /\ calls[i].target \in failed
      BY <1>1, <2>1, Zenon DEF ResultsLineUp
    <3>2. calls'[i] = calls[i] /\ asOf'[i] = asOf[i] /\ results'[i] = results[i]
      BY <1>11, <1>12
    <3>3. QED
      BY <3>1, <3>2
  <2>3. ASSUME NEW j \in 1..w, NEW i, i = r + j
        PROVE  \/ results'[i] = Answer(calls'[i], asOf'[i])
               \/ results'[i] = OutOfGas /\ calls'[i].target \in failed'
    <3>1. results'[i] = rs[j] /\ asOf'[i] = block /\ calls'[i] = Chunk[j]
      BY <1>5, <1>11, <1>12, <2>3
    <3>2. j \in gas => Chunk[j].target \in failed'
      OBVIOUS
    <3>3. QED
      BY <1>7, <3>1, <3>2, Zenon
  <2>4. QED
    BY <1>13, <2>1, <2>2, <2>3, LineUpNext, Zenon
<1>19. PassesAsk'
  BY <1>1 DEF PassesAsk, Reading
<1>20. FoundWereRead' /\ AllFound'
  <2>1. \A i \in 1..Len(asOf') : asOf'[i] = block \/ (i \in 1..Len(asOf) /\ asOf'[i] = asOf[i])
    BY <1>4, <1>12, <1>13, Zenon DEF r
  <2>2. QED
    BY <1>1, <1>2, <1>12, <1>15, <2>1, FoundStays
<1>21. PoolsWereRead' /\ LivePoolsAreReturned'
  BY <1>1, <1>2, <1>15, PoolsStay
<1>22. QED
  BY <1>14, <1>17, <1>18, <1>19, <1>20, <1>21 DEF ReadInv

\* A batch comes back: its results line up, or the read fails (multicall.go:76-110).
LEMMA BatchStep ==
  ASSUME ReadInv, NEW gas, Batch(gas)
  PROVE  ReadInv'
<1>1. Reading /\ Len(results) < Len(calls) /\ gas \subseteq DOMAIN Chunk
  BY DEF Batch
<1>2. PICK raw : raw = Execute(EncodeTryAggregate(Chunk), gas)
  OBVIOUS
<1>a. PICK n \in 0..Len(raw) :
        IF Decodes(SubSeq(raw, 1, n), Len(Chunk))
          THEN /\ results' = results \o DecodeTryAggregate(SubSeq(raw, 1, n), Len(Chunk))
               /\ asOf' = asOf \o [i \in 1..Len(Chunk) |-> block]
               /\ failed' = failed \cup {Chunk[i].target : i \in gas}
               /\ UNCHANGED <<chain, block, pc, protocol, calls, found, pools, since>>
          ELSE Fail
  BY <1>2 DEF Batch
<1>b. PICK d : d = SubSeq(raw, 1, n)
  OBVIOUS
<1>3. CASE ~Decodes(d, Len(Chunk))
  <2>1. Fail
    BY <1>a, <1>b, <1>3
  <2>2. block \in block..Len(chain)
    <3>1. block \in Nat /\ Len(chain) \in Nat /\ block <= Len(chain)
      BY Blocks DEF ReadInv
    <3>2. QED
      BY <3>1
  <2>3. QED
    BY <1>1, <2>1, <2>2, Keeps DEF Fail, Reading
<1>4. CASE Decodes(d, Len(Chunk))
  <2>1. /\ chain \in Chains /\ block \in 1..Len(chain) /\ calls \in Seq(ReadCalls)
        /\ results \in Seq(Outcomes)
    BY DEF ReadInv, ReaderTypes
  <2>2. Chunk \in Seq(ReadCalls)
    BY <1>1, <2>1, ChunkFacts
  <2>3. DecodeTryAggregate(d, Len(Chunk)) = Given(Chunk, gas, block)
    BY <1>2, <1>b, <1>4, <2>1, <2>2, BatchGives, Zenon
  <2>4. QED
    BY <1>1, <1>a, <1>b, <1>4, <2>3, MoreResults
<1>5. QED
  BY <1>3, <1>4

\* What the first pass finds.
LEMMA FoundLiveFacts ==
  ASSUME NEW k \in DOMAIN FoundLive
  PROVE  \E i \in 1..Len(Candidates) :
           /\ Live(i) /\ FoundLive[k].address = Candidates[i].address
           /\ FoundLive[k].price = results[3 * i - 2].data[1]
           /\ FoundLive[k].tick = DecodeInt24(results[3 * i - 2].data[2])
           /\ FoundLive[k].liquidity = Number(results[3 * i - 1].data)
<1>1. k \in DOMAIN LiveOnes
  BY DEF FoundLive
<1>2. PICK i : i = LiveOnes[k]
  OBVIOUS
<1>3. i \in 1..Len(Candidates) /\ Live(i)
  BY <1>1, <1>2, LiveOnesFacts, Zenon
<1>4. /\ FoundLive[k].address = Candidates[i].address
      /\ FoundLive[k].price = results[3 * i - 2].data[1]
      /\ FoundLive[k].tick = DecodeInt24(results[3 * i - 2].data[2])
      /\ FoundLive[k].liquidity = Number(results[3 * i - 1].data)
  BY <1>1, <1>2 DEF FoundLive
<1>5. QED
  BY <1>3, <1>4, Zenon

\* They are a list of pools.
LEMMA FoundLiveList == PoolList(FoundLive)
<1>1. PICK n : n = Len(LiveOnes)
  OBVIOUS
<1>2. n \in Nat /\ DOMAIN LiveOnes = 1..n
  BY <1>1, LiveOnesFacts, Zenon
<1>3. DOMAIN FoundLive = 1..n
  BY <1>2 DEF FoundLive
<1>4. ASSUME NEW k \in 1..n PROVE FoundLive[k].address \in V3Addresses
  <2>1. PICK i \in 1..Len(Candidates) : FoundLive[k].address = Candidates[i].address
    BY <1>3, FoundLiveFacts, Zenon
  <2>2. Candidates[i].address \in V3Addresses
    BY LiveOnesFacts, Zenon
  <2>3. QED
    BY <2>1, <2>2, Zenon
<1>5. QED
  BY <1>2, <1>3, <1>4 DEF PoolList

\* The first pass is complete.
LEMMA CollectSlotsStep ==
  ASSUME ReadInv, CollectSlots
  PROVE  ReadInv'
<1>1. pc = "slots" /\ Complete
  BY DEF CollectSlots
<1>2. /\ found' = FoundLive /\ calls' = TickCalls(FoundLive) /\ results' = <<>> /\ asOf' = <<>>
      /\ pc' = (IF FoundLive = <<>> THEN "done" ELSE "ticks")
      /\ UNCHANGED <<chain, block, protocol, pools, since, failed>>
  BY DEF CollectSlots
<1>3. ReaderTypes /\ InOrder /\ ResultsLineUp /\ PassesAsk
  BY DEF ReadInv
<1>4. protocol = "v3" /\ calls = SlotCalls /\ pools = <<>>
  BY <1>1, <1>3 DEF PassesAsk
<1>5. (ReaderTypes /\ InOrder /\ ResultsLineUp)'
  <2>1. TickCalls(FoundLive) \in Seq(ReadCalls)
    BY FoundLiveList, PassTypes, Zenon
  <2>2. chain \in Chains /\ block \in 1..Len(chain) /\ since \in 1..block
    BY <1>3 DEF ReaderTypes
  <2>3. NoneYet'
    BY <1>2, <2>1, <2>2 DEF NoneYet
  <2>4. QED
    BY <2>3, Afresh, PTL
<1>6. Goes
  <2>1. block \in Nat
    BY <1>3, Blocks
  <2>2. QED
    BY <1>2, <2>1 DEF Goes
<1>7. PassesAsk'
  BY <1>2, <1>4 DEF PassesAsk
<1>8. FoundWereRead'
  <2>1. PoolList(found')
    BY <1>2, FoundLiveList, Zenon
  <2>2. ASSUME NEW k \in DOMAIN found'
        PROVE  \E b \in Seen(found[k].address)' : FirstRead(found[k], b)'
    <3>1. PICK f : f = FoundLive[k]
      OBVIOUS
    <3>2. PICK i \in 1..Len(Candidates) :
            /\ Live(i) /\ f.address = Candidates[i].address
            /\ f.price = results[3 * i - 2].data[1]
            /\ f.tick = DecodeInt24(results[3 * i - 2].data[2])
            /\ f.liquidity = Number(results[3 * i - 1].data)
      BY <1>2, <3>1, FoundLiveFacts, Zenon
    <3>3. PICK b \in Seen(f.address) : FirstRead(f, b)
      BY <1>1, <1>3, <1>4, <3>2, LiveWasRead, Zenon
    <3>4. b \in Seen(f.address)' /\ FirstRead(f, b)'
      BY <1>3, <1>6, <3>3, SeenStays, FirstReadStays
    <3>5. f = found'[k]
      BY <1>2, <3>1
    <3>6. QED
      BY <3>4, <3>5, Zenon
  <2>3. \A b : \A i \in 1..Len(asOf') : b <= asOf'[i]
    BY <1>2
  <2>4. QED
    BY <2>1, <2>2, <2>3, Zenon DEF FoundWereRead, PoolList
<1>9. ASSUME NEW i \in DOMAIN Candidates, NEW a, a = Candidates[i].address, Steady(a)'
      PROVE  \E k \in DOMAIN FoundLive : FoundLive[k].address = a
  <2>1. i \in 1..Len(Candidates)
    BY LiveOnesFacts, Zenon
  <2>2. Steady(a)
    BY <1>3, <1>6, <1>9, SteadyBefore
  <2>3. Live(i)
    BY <1>1, <1>3, <1>4, <1>9, <2>1, <2>2, SteadyIsLive, Zenon
  <2>4. PICK k \in DOMAIN LiveOnes : LiveOnes[k] = i
    BY <2>1, <2>3, LiveOnesFacts, Zenon
  <2>5. k \in DOMAIN FoundLive /\ FoundLive[k].address = Candidates[i].address
    BY <2>4 DEF FoundLive
  <2>6. QED
    BY <1>9, <2>5
<1>10. AllFound'
  BY <1>2, <1>9, Zenon DEF AllFound
<1>11. PoolsWereRead'
  BY <1>2, <1>4 DEF PoolsWereRead
<1>12. LivePoolsAreReturned'
  <2>1. Probed' = Candidates
    BY <1>2, <1>4 DEF Probed
  <2>2. ASSUME pc' = "done", NEW i \in DOMAIN Candidates,
               NEW a, a = Candidates[i].address, Steady(a)'
        PROVE  FALSE
    <3>1. FoundLive = <<>>
      BY <1>2, <2>2
    <3>2. DOMAIN FoundLive = {}
      BY <3>1
    <3>3. QED
      BY <1>9, <2>2, <3>2, Zenon
  <2>3. QED
    BY <2>1, <2>2, Zenon DEF LivePoolsAreReturned
<1>13. QED
  BY <1>5, <1>7, <1>8, <1>10, <1>11, <1>12 DEF ReadInv

\* The end of a read leaves all but the pools as it was.
LEMMA DoneStep ==
  ASSUME ReadInv, pc' = "done",
         UNCHANGED <<chain, block, protocol, calls, results, found, since, asOf, failed>>
  PROVE  /\ (ReaderTypes /\ InOrder /\ ResultsLineUp /\ PassesAsk /\ FoundWereRead /\ AllFound)'
         /\ Goes
<1>1. ReaderTypes /\ InOrder /\ ResultsLineUp /\ PassesAsk
  BY DEF ReadInv
<1>2. ReaderTypes' /\ InOrder'
  BY <1>1 DEF ReaderTypes, InOrder
<1>3. ResultsLineUp'
  BY <1>1, SameChain DEF ResultsLineUp
<1>4. PassesAsk' /\ FoundWereRead' /\ AllFound'
  BY DEF PassesAsk, FoundWereRead, AllFound
<1>5. Goes
  <2>1. block \in Nat
    BY <1>1, Blocks
  <2>2. QED
    BY <2>1 DEF Goes
<1>6. QED
  BY <1>2, <1>3, <1>4, <1>5

\* The second pass is complete.
LEMMA CollectTicksStep ==
  ASSUME ReadInv, CollectTicks
  PROVE  ReadInv'
<1>1. /\ pc = "ticks" /\ pc' = "done"
      /\ UNCHANGED <<chain, block, protocol, calls, results, found, since, asOf, failed>>
  BY DEF CollectTicks
<1>2. ReaderTypes /\ InOrder /\ ResultsLineUp /\ PassesAsk /\ FoundWereRead /\ AllFound
  BY DEF ReadInv
<1>3. protocol = "v3" /\ calls = TickCalls(found)
  BY <1>1, <1>2 DEF PassesAsk
<1>4. /\ (ReaderTypes /\ InOrder /\ ResultsLineUp /\ PassesAsk /\ FoundWereRead /\ AllFound)'
      /\ Goes
  BY <1>1, DoneStep
<1>5. DOMAIN pools' = DOMAIN found
  BY DEF CollectTicks
<1>6. ASSUME NEW k \in DOMAIN found
      PROVE  /\ pools'[k].address = found[k].address /\ pools'[k].price = found[k].price
             /\ pools'[k].tick = found[k].tick /\ pools'[k].liquidity = found[k].liquidity
             /\ pools'[k].ticks = TicksOf(k)
  BY DEF CollectTicks
<1>7. PoolsWereRead'
  <2>1. ASSUME NEW k \in DOMAIN found PROVE WasRead(pools[k])'
    <3>1. PICK p : p = pools'[k]
      OBVIOUS
    <3>2. PICK N \in Nat : DOMAIN found = 1..N /\ \A j \in 1..N : found[j].address \in V3Addresses
      BY <1>1, <1>2 DEF FoundWereRead, PoolList
    <3>3. PICK b \in Seen(found[k].address) :
            FirstRead(found[k], b) /\ \A i \in 1..Len(asOf) : b <= asOf[i]
      BY <1>1, <1>2 DEF FoundWereRead
    <3>4. k \in 1..N
      BY <3>2
    <3>5. /\ p.address = found[k].address /\ p.price = found[k].price
          /\ p.tick = found[k].tick /\ p.liquidity = found[k].liquidity /\ p.ticks = TicksOf(k)
      BY <1>6, <3>1, Zenon
    <3>6. WasRead(p)
      BY <1>2, <1>3, <3>2, <3>3, <3>4, <3>5, TicksWereRead, Zenon
    <3>7. WasRead(p)'
      BY <1>2, <1>4, <3>6, WasReadStays
    <3>8. QED
      BY <3>1, <3>7, Zenon
  <2>2. QED
    BY <1>5, <2>1, Zenon DEF PoolsWereRead
<1>8. LivePoolsAreReturned'
  <2>1. Probed' = Candidates
    BY <1>1, <1>3 DEF Probed
  <2>2. ASSUME NEW i \in DOMAIN Candidates, NEW a, a = Candidates[i].address, Steady(a)'
        PROVE  \E k \in DOMAIN pools' : pools'[k].address = a
    <3>1. Steady(a)
      BY <1>2, <1>4, <2>2, SteadyBefore
    <3>2. PICK k \in DOMAIN found : found[k].address = a
      BY <1>1, <1>2, <2>2, <3>1 DEF AllFound
    <3>3. QED
      BY <1>5, <1>6, <3>2, Zenon
  <2>3. QED
    BY <2>1, <2>2, Zenon DEF LivePoolsAreReturned
<1>9. QED
  BY <1>4, <1>7, <1>8 DEF ReadInv

\* The reserves are complete.
LEMMA CollectReservesStep ==
  ASSUME ReadInv, CollectReserves
  PROVE  ReadInv'
<1> DEFINE T == {i \in DOMAIN PairCandidates : HoldsReserves(i)}
           held == Ascending(T)
<1>1. /\ pc = "reserves" /\ Complete /\ pc' = "done"
      /\ UNCHANGED <<chain, block, protocol, calls, results, found, since, asOf, failed>>
  BY DEF CollectReserves
<1>2. pools' = [k \in DOMAIN held |->
                  [address |-> PairCandidates[held[k]].address,
                   token0 |-> PairCandidates[held[k]].token0,
                   token1 |-> PairCandidates[held[k]].token1,
                   r0 |-> results[held[k]].data[1], r1 |-> results[held[k]].data[2]]]
  BY DEF CollectReserves
<1>3. ReaderTypes /\ InOrder /\ ResultsLineUp /\ PassesAsk
  BY DEF ReadInv
<1>4. protocol = "v2" /\ calls = ReserveCalls
  BY <1>1, <1>3 DEF PassesAsk
<1>5. /\ (ReaderTypes /\ InOrder /\ ResultsLineUp /\ PassesAsk /\ FoundWereRead /\ AllFound)'
      /\ Goes
  BY <1>1, DoneStep
<1>6. Len(PairCandidates) \in Nat /\ DOMAIN PairCandidates = 1..Len(PairCandidates)
  BY PairCandidatesFacts, SeqFacts, Zenon
<1>7. /\ T \subseteq 1..Len(PairCandidates) /\ \A i \in T : HoldsReserves(i)
      /\ \A i \in 1..Len(PairCandidates) : HoldsReserves(i) => i \in T
  BY <1>6
<1> HIDE DEF T
<1>8. /\ \A k \in DOMAIN held : held[k] \in T
      /\ \A x \in T : \E k \in DOMAIN held : held[k] = x
  BY <1>6, <1>7, AscendingPlaces, Zenon
<1> HIDE DEF held
<1>9. DOMAIN pools' = DOMAIN held
  BY <1>2
<1>10. ASSUME NEW k \in DOMAIN held
       PROVE  /\ pools'[k].address = PairCandidates[held[k]].address
              /\ pools'[k].r0 = results[held[k]].data[1] /\ pools'[k].r1 = results[held[k]].data[2]
  BY <1>2
<1>11. PoolsWereRead'
  <2>1. ASSUME NEW k \in DOMAIN held PROVE WasRead(pools[k])'
    <3>1. PICK p, i : p = pools'[k] /\ i = held[k]
      OBVIOUS
    <3>2. i \in 1..Len(PairCandidates) /\ HoldsReserves(i)
      BY <1>7, <1>8, <3>1
    <3>3. /\ p.address = PairCandidates[i].address
          /\ p.r0 = results[i].data[1] /\ p.r1 = results[i].data[2]
      BY <1>10, <3>1, Zenon
    <3>4. WasRead(p)
      BY <1>1, <1>3, <1>4, <3>2, <3>3, HeldWasRead, Zenon
    <3>5. WasRead(p)'
      BY <1>3, <1>5, <3>4, WasReadStays
    <3>6. QED
      BY <3>1, <3>5, Zenon
  <2>2. QED
    BY <1>9, <2>1, Zenon DEF PoolsWereRead
<1>12. LivePoolsAreReturned'
  <2>1. Probed' = PairCandidates
    BY <1>1, <1>4 DEF Probed
  <2>2. ASSUME NEW i \in DOMAIN PairCandidates, NEW a, a = PairCandidates[i].address, Steady(a)'
        PROVE  \E k \in DOMAIN pools' : pools'[k].address = a
    <3>1. i \in 1..Len(PairCandidates)
      BY <1>6
    <3>2. Steady(PairCandidates[i].address)
      BY <1>3, <1>5, <2>2, SteadyBefore
    <3>3. HoldsReserves(i)
      BY <1>1, <1>3, <1>4, <3>1, <3>2, SteadyIsHeld, Zenon
    <3>4. PICK k \in DOMAIN held : held[k] = i
      BY <1>7, <1>8, <3>1, <3>3, Zenon
    <3>5. QED
      BY <1>9, <1>10, <2>2, <3>4, Zenon
  <2>3. QED
    BY <2>1, <2>2, Zenon DEF LivePoolsAreReturned
<1>13. QED
  BY <1>5, <1>11, <1>12 DEF ReadInv

\* Every step keeps the invariant.
LEMMA NextReadInv ==
  ASSUME ReadInv, [Next]_vars
  PROVE  ReadInv'
<1>1. block \in Nat /\ Len(chain) \in Nat /\ block <= Len(chain)
  BY Blocks DEF ReadInv
<1>2. block \in block..Len(chain)
  BY <1>1
<1>3. CASE NewBlock
  <2>1. block' = block + 1 /\ block < Len(chain)
    BY <1>3 DEF NewBlock
  <2>2. block' \in block..Len(chain)
    BY <1>1, <2>1
  <2>3. QED
    BY <1>3, <2>2, Keeps DEF NewBlock
<1>4. CASE BeginUniswap \/ BeginSushiswap
  BY <1>4, BeginStep
<1>5. CASE DoFails
  BY <1>2, <1>5, Keeps DEF DoFails, Fail, Reading
<1>6. CASE \E gas \in Gas : Batch(gas)
  BY <1>6, BatchStep
<1>7. CASE CollectSlots
  BY <1>7, CollectSlotsStep
<1>8. CASE CollectTicks
  BY <1>8, CollectTicksStep
<1>9. CASE CollectReserves
  BY <1>9, CollectReservesStep
<1>10. CASE Return
  BY <1>10, ReturnStep
<1>11. CASE UNCHANGED vars
  BY <1>2, <1>11, Keeps DEF vars
<1>12. QED
  BY <1>3, <1>4, <1>5, <1>6, <1>7, <1>8, <1>9, <1>10, <1>11 DEF Next, Read

\* The invariant that the properties of a read rest on.
THEOREM ReadInvariant == Spec => []ReadInv
<1>1. ReadInv /\ [Next]_vars => ReadInv'
  BY NextReadInv
<1>2. QED
  BY <1>1, InitReadInv, PTL DEF Spec

\* Aggregate: for any number of calls, any batch size, any calls that fail and any cut of
\* an answer, every result is that of its own call (multicall.go:63).
THEOREM ResultsAlwaysLineUp == Spec => []ResultsLineUp
<1>1. ReadInv => ResultsLineUp
  BY DEF ReadInv
<1>2. QED
  BY <1>1, ReadInvariant, PTL

\* Whatever the chain does during a read, what a source returns for a pool is state that
\* this pool had during the read, read in this order (uniswapv3.go:99-215, sushiswap.go:72-98).
THEOREM ReturnedPoolsWereRead == Spec => []PoolsWereRead
<1>1. ReadInv => PoolsWereRead
  BY DEF ReadInv
<1>2. QED
  BY <1>1, ReadInvariant, PTL

\* Whatever other pools do and whichever other calls fail, a pool that could quote all
\* through the read is returned (multicall.go:64-65).
THEOREM NoLivePoolIsMissed == Spec => []LivePoolsAreReturned
<1>1. ReadInv => LivePoolsAreReturned
  BY DEF ReadInv
<1>2. QED
  BY <1>1, ReadInvariant, PTL

----------------------------------------------------------------------------
(* Every pool is probed, and none twice.                                   *)

\* The rank of a greater member is greater.
LEMMA RankRises ==
  ASSUME NEW S, IsFiniteSet(S), S \subseteq Int, NEW x \in S, NEW z \in S, x < z
  PROVE  Rank(S, x) < Rank(S, z)
<1> DEFINE L(v) == {y \in S : y <= v}
<1>1. \A y \in S : y <= x => y <= z
  BY x \in Int, z \in Int
<1>2. L(x) \in SUBSET L(z) /\ L(z) \in SUBSET S
  BY <1>1
<1>3. IsFiniteSet(L(z))
  BY <1>2, FS_Subset
<1>4. IsFiniteSet(L(x)) /\ Cardinality(L(x)) <= Cardinality(L(z))
  <2> HIDE DEF L
  <2>1. QED
    BY <1>2, <1>3, FS_Subset
<1>5. Cardinality(L(x)) \in Nat /\ Cardinality(L(z)) \in Nat
  <2> HIDE DEF L
  <2>1. QED
    BY <1>3, <1>4, FS_CardinalityType
<1>6. Rank(S, x) # Rank(S, z)
  BY RankGrows
<1>7. QED
  BY <1>4, <1>5, <1>6 DEF Rank

\* Ascending puts a lower member before a higher one.
LEMMA AscendingRises ==
  ASSUME NEW S, IsFiniteSet(S), S \subseteq Int,
         NEW j \in 1..Cardinality(S), NEW k \in 1..Cardinality(S), j < k
  PROVE  Ascending(S)[j] < Ascending(S)[k]
<1>1. Cardinality(S) \in Nat
  BY FS_CardinalityType
<1>2. Ascending(S) = [m \in 1..Cardinality(S) |-> CHOOSE x \in S : Rank(S, x) = m]
  BY DEF Ascending, Rank
<1>3. ASSUME NEW m \in 1..Cardinality(S)
      PROVE  Ascending(S)[m] \in S /\ Rank(S, Ascending(S)[m]) = m
  <2>1. \E x \in S : Rank(S, x) = m
    BY RankOnto, Zenon
  <2>2. Ascending(S)[m] = CHOOSE x \in S : Rank(S, x) = m
    BY <1>2
  <2>3. QED
    BY <2>1, <2>2, Zenon
<1>4. PICK x, z : x = Ascending(S)[j] /\ z = Ascending(S)[k]
  OBVIOUS
<1>5. x \in S /\ z \in S /\ Rank(S, x) = j /\ Rank(S, z) = k
  BY <1>3, <1>4
<1>6. x \in Int /\ z \in Int /\ j \in Int /\ k \in Int
  BY <1>1, <1>5
<1>7. x # z
  BY <1>5, <1>6
<1>8. ASSUME z < x PROVE FALSE
  <2>1. Rank(S, z) < Rank(S, x)
    BY <1>5, <1>8, RankRises
  <2>2. QED
    BY <1>5, <1>6, <2>1
<1>9. x < z
  BY <1>6, <1>7, <1>8
<1>10. QED
  BY <1>4, <1>9

\* So no member is listed twice.
LEMMA AscendingOnce ==
  ASSUME NEW S, IsFiniteSet(S), S \subseteq Int,
         NEW j \in 1..Cardinality(S), NEW k \in 1..Cardinality(S),
         Ascending(S)[j] = Ascending(S)[k]
  PROVE  j = k
<1>1. Cardinality(S) \in Nat /\ Ascending(S) \in Seq(S) /\ Len(Ascending(S)) = Cardinality(S)
  BY AscendingFacts
<1>2. Ascending(S)[j] \in Int
  <2>1. Ascending(S)[j] \in S
    BY <1>1, SeqFacts, Zenon
  <2>2. QED
    BY <2>1
<1>3. ~(Ascending(S)[j] < Ascending(S)[k]) /\ ~(Ascending(S)[k] < Ascending(S)[j])
  BY <1>2
<1>4. ~(j < k) /\ ~(k < j)
  BY <1>3, AscendingRises
<1>5. QED
  BY <1>1, <1>4

\* Every place of FlattenSeq(s) belongs to a place of one of its parts.
LEMMA PlacesCover ==
  ASSUME NEW W, NEW s \in Seq(Seq(W)), NEW p \in 1..Len(FlattenSeq(s))
  PROVE  \E i \in 1..Len(s) : \E j \in 1..Len(s[i]) :
           p = Len(Joined(s, i - 1)) + j /\ FlattenSeq(s)[p] = s[i][j]
<1> DEFINE N == Len(s)
           J(n) == Joined(s, n)
           In(q, i) == \E j \in 1..Len(s[i]) : q = Len(J(i - 1)) + j
           T == {n \in 0..N : \A q \in 1..Len(J(n)) : \E i \in 1..N : In(q, i)}
<1>0. N \in Nat /\ \A n \in 1..N : s[n] \in Seq(W)
  OBVIOUS
<1>1. /\ \A n \in 0..N : J(n) \in Seq(W)
      /\ J(0) = <<>>
      /\ \A n \in 1..N : J(n) = J(n - 1) \o s[n]
      /\ J(N) = FlattenSeq(s)
  BY JoinedFacts
<1> HIDE DEF J
<1>2. 0 \in T
  <2>1. 1..Len(J(0)) = {}
    BY <1>1
  <2>2. 0 \in 0..N
    BY <1>0
  <2> HIDE DEF In
  <2>3. QED
    BY <2>1, <2>2
<1>3. ASSUME NEW n \in 0..(N - 1), n \in T PROVE n + 1 \in T
  <2>1. n \in 0..N /\ n + 1 \in 1..N /\ n + 1 \in 0..N /\ (n + 1) - 1 = n
    BY <1>0
  <2>2. J(n + 1) = J(n) \o s[n + 1] /\ J(n) \in Seq(W) /\ s[n + 1] \in Seq(W)
    BY <1>0, <1>1, <2>1
  <2>3. /\ Len(J(n + 1)) = Len(J(n)) + Len(s[n + 1])
        /\ Len(J(n)) \in Nat /\ Len(s[n + 1]) \in Nat
    <3>1. PICK a, b : a = J(n) /\ b = s[n + 1]
      OBVIOUS
    <3>2. a \in Seq(W) /\ b \in Seq(W)
      BY <2>2, <3>1, Zenon
    <3>3. Len(a \o b) = Len(a) + Len(b) /\ Len(a) \in Nat /\ Len(b) \in Nat
      BY <3>2
    <3>4. QED
      BY <2>2, <3>1, <3>3, Zenon
  <2>4. ASSUME NEW q \in 1..Len(J(n + 1)) PROVE \E i \in 1..N : In(q, i)
    <3>1. CASE q <= Len(J(n))
      <4>1. q \in 1..Len(J(n))
        BY <2>3, <3>1
      <4> HIDE DEF In
      <4>2. QED
        BY <1>3, <4>1
    <3>2. CASE ~(q <= Len(J(n)))
      <4> DEFINE j == q - Len(J(n))
      <4>1. j \in 1..Len(s[n + 1]) /\ q = Len(J(n)) + j
        BY <2>3, <3>2
      <4> HIDE DEF j
      <4>2. In(q, n + 1)
        BY <2>1, <4>1, Zenon
      <4> HIDE DEF In
      <4>3. QED
        BY <2>1, <4>2
    <3>3. QED
      BY <3>1, <3>2
  <2> HIDE DEF In
  <2>5. QED
    BY <2>1, <2>4
<1>4. N \in T
  <2> HIDE DEF T, N
  <2>1. 0..N \subseteq T
    BY <1>0, <1>2, <1>3, UpTo
  <2>2. QED
    BY <1>0, <2>1
<1>5. PICK i \in 1..N : In(p, i)
  <2> HIDE DEF In
  <2>1. p \in 1..Len(J(N))
    BY <1>1
  <2>2. QED
    BY <1>4, <2>1
<1>6. PICK j \in 1..Len(s[i]) : p = Len(J(i - 1)) + j
  BY <1>5
<1>7. FlattenSeq(s)[p] = s[i][j]
  <2>1. \A m \in 1..Len(s[i]) : FlattenSeq(s)[Len(Joined(s, i - 1)) + m] = s[i][m]
    BY Places, Zenon
  <2>2. QED
    BY <1>6, <2>1, Zenon DEF J
<1>8. QED
  BY <1>6, <1>7, Zenon DEF J

\* An element of a part is in the whole.
LEMMA FlatHas ==
  ASSUME NEW W, NEW s \in Seq(Seq(W)), NEW i \in 1..Len(s), NEW j \in 1..Len(s[i])
  PROVE  \E p \in 1..Len(FlattenSeq(s)) : FlattenSeq(s)[p] = s[i][j]
<1>1. /\ Len(Joined(s, i - 1)) \in Nat /\ FlattenSeq(s) \in Seq(W)
      /\ Len(Joined(s, i - 1)) + Len(s[i]) <= Len(FlattenSeq(s))
      /\ \A m \in 1..Len(s[i]) : FlattenSeq(s)[Len(Joined(s, i - 1)) + m] = s[i][m]
  BY Places, Zenon
<1>2. PICK n : n = Len(FlattenSeq(s))
  OBVIOUS
<1>3. PICK a, l : a = Len(Joined(s, i - 1)) /\ l = Len(s[i])
  OBVIOUS
<1>4. a \in Nat /\ l \in Nat /\ n \in Nat /\ a + l <= n /\ j \in 1..l
  <2>1. s[i] \in Seq(W)
    BY SeqFacts, Zenon
  <2>2. n \in Nat /\ l \in Nat
    BY <1>1, <1>2, <1>3, <2>1, SeqFacts, Zenon
  <2>3. QED
    BY <1>1, <1>2, <1>3, <2>2, Zenon
<1>5. a + j \in 1..n
  BY <1>4
<1>6. QED
  BY <1>1, <1>2, <1>3, <1>5, Zenon

\* No two places of the parts hold the same.
Apart(s) == \A h, i \in 1..Len(s) : \A j \in 1..Len(s[h]), k \in 1..Len(s[i]) :
              s[h][j] = s[i][k] => h = i /\ j = k

\* If no two places of the parts hold the same, no two places of the whole do.
LEMMA FlatOnce ==
  ASSUME NEW W, NEW s \in Seq(Seq(W)),
         Apart(s),
         NEW p \in 1..Len(FlattenSeq(s)), NEW q \in 1..Len(FlattenSeq(s)),
         FlattenSeq(s)[p] = FlattenSeq(s)[q]
  PROVE  p = q
<1>1. PICK h \in 1..Len(s) : \E j \in 1..Len(s[h]) :
        p = Len(Joined(s, h - 1)) + j /\ FlattenSeq(s)[p] = s[h][j]
  BY PlacesCover, Zenon
<1>2. PICK j \in 1..Len(s[h]) : p = Len(Joined(s, h - 1)) + j /\ FlattenSeq(s)[p] = s[h][j]
  BY <1>1
<1>3. PICK i \in 1..Len(s) : \E k \in 1..Len(s[i]) :
        q = Len(Joined(s, i - 1)) + k /\ FlattenSeq(s)[q] = s[i][k]
  BY PlacesCover, Zenon
<1>4. PICK k \in 1..Len(s[i]) : q = Len(Joined(s, i - 1)) + k /\ FlattenSeq(s)[q] = s[i][k]
  BY <1>3
<1>5. s[h][j] = s[i][k]
  BY <1>2, <1>4, Zenon
<1>6. h = i /\ j = k
  BY <1>5, ZenonT(40) DEF Apart
<1>7. QED
  BY <1>2, <1>4, <1>6, Zenon

\* Every pair of tokens is listed, the lower first, and none twice.
PairsAll ==
  \A t, u \in Tokens : t < u =>
    \E i \in DOMAIN PairsOf(Tokens) : PairsOf(Tokens)[i] = <<t, u>>
PairsOnce ==
  \A i, k \in DOMAIN PairsOf(Tokens) : PairsOf(Tokens)[i] = PairsOf(Tokens)[k] => i = k

\* That is what pairsOf does (addresses.go:133-149).
LEMMA PairsListed == PairsAll /\ PairsOnce
<1> DEFINE s == Ascending(Tokens)
           n == Cardinality(Tokens)
           row(i) == [j \in 1..(n - i) |-> <<s[i], s[i + j]>>]
           rows == [i \in 1..n |-> row(i)]
<1>0. Tokens \subseteq Int /\ IsFiniteSet(Tokens)
  BY ReaderAssumption
<1>1. /\ s \in Seq(Tokens) /\ Len(s) = n /\ n \in Nat
      /\ \A x \in Tokens : \E k \in DOMAIN s : s[k] = x
  BY <1>0, AscendingFacts
<1>2. DOMAIN s = 1..n /\ \A i \in 1..n : s[i] \in Tokens
  BY <1>1
<1>3. \A j, k \in 1..n : j < k => s[j] < s[k]
  BY <1>0, AscendingRises
<1>4. \A j, k \in 1..n : s[j] = s[k] => j = k
  BY <1>0, AscendingOnce
<1> HIDE DEF s, n
<1>5. PairsOf(Tokens) = FlattenSeq(rows)
  <2>1. PairsOf(Tokens) = FlattenSeq([i \in DOMAIN s |-> [j \in 1..(Len(s) - i) |-> <<s[i], s[i + j]>>]])
    BY DEF PairsOf, s
  <2>2. QED
    BY <1>1, <1>2, <2>1
<1>6. ASSUME NEW i \in 1..n
      PROVE  row(i) \in Seq(Tokens \X Tokens) /\ Len(row(i)) = n - i
  <2>1. n - i \in Nat /\ \A j \in 1..(n - i) : i + j \in 1..n
    BY <1>1
  <2>2. row(i) \in [1..(n - i) -> Tokens \X Tokens]
    BY <1>2, <2>1
  <2> HIDE DEF row
  <2>3. QED
    BY <2>1, <2>2, Listing, Zenon
<1>7. ASSUME NEW i \in 1..n, NEW j \in 1..(n - i)
      PROVE  rows[i][j] = <<s[i], s[i + j]>> /\ i + j \in 1..n
  BY <1>1
<1>8. /\ rows \in Seq(Seq(Tokens \X Tokens)) /\ Len(rows) = n
      /\ \A i \in 1..n : Len(rows[i]) = n - i
  <2> HIDE DEF row
  <2>1. rows \in [1..n -> Seq(Tokens \X Tokens)] /\ \A i \in 1..n : Len(rows[i]) = n - i
    BY <1>6
  <2> HIDE DEF rows
  <2>2. QED
    BY <1>1, <2>1, Listing, ZenonT(40)
<1> HIDE DEF row, rows
<1>9. FlattenSeq(rows) \in Seq(Tokens \X Tokens)
  BY <1>8, FlatType, Zenon
<1>10. DOMAIN FlattenSeq(rows) = 1..Len(FlattenSeq(rows))
  BY <1>9, SeqFacts, Zenon
<1>11. PairsAll
  <2> SUFFICES ASSUME NEW t \in Tokens, NEW u \in Tokens, t < u
               PROVE  \E p \in DOMAIN PairsOf(Tokens) : PairsOf(Tokens)[p] = <<t, u>>
    BY DEF PairsAll
  <2>1. PICK i \in 1..n, k \in 1..n : s[i] = t /\ s[k] = u
    BY <1>1, <1>2
  <2>2. t \in Int /\ u \in Int /\ i \in Int /\ k \in Int /\ n \in Int
    BY <1>0, <1>1
  <2>3. i < k
    <3>1. i # k
      BY <2>1, <2>2
    <3>2. ~(k < i)
      <4>1. ~(u < t)
        BY <2>2
      <4>2. QED
        BY <1>3, <2>1, <4>1
    <3>3. QED
      BY <2>2, <3>1, <3>2
  <2>4. PICK j : j = k - i
    OBVIOUS
  <2>5. j \in 1..(n - i) /\ i + j = k
    BY <2>2, <2>3, <2>4
  <2>6. rows[i][j] = <<t, u>>
    BY <1>7, <2>1, <2>5, Zenon
  <2>7. i \in 1..Len(rows) /\ j \in 1..Len(rows[i])
    BY <1>8, <2>5, Zenon
  <2>8. \E p \in 1..Len(FlattenSeq(rows)) : FlattenSeq(rows)[p] = rows[i][j]
    BY <1>8, <2>7, FlatHas, Zenon
  <2>9. QED
    BY <1>5, <1>10, <2>6, <2>8, Zenon
<1>12. PairsOnce
  <2>1. ASSUME NEW h \in 1..Len(rows), NEW i \in 1..Len(rows),
               NEW j \in 1..Len(rows[h]), NEW k \in 1..Len(rows[i]), rows[h][j] = rows[i][k]
        PROVE  h = i /\ j = k
    <3>1. h \in 1..n /\ i \in 1..n /\ j \in 1..(n - h) /\ k \in 1..(n - i)
      BY <1>8, <2>1, Zenon
    <3>2. /\ rows[h][j] = <<s[h], s[h + j]>> /\ h + j \in 1..n
          /\ rows[i][k] = <<s[i], s[i + k]>> /\ i + k \in 1..n
      BY <1>7, <3>1, Zenon
    <3>3. <<s[h], s[h + j]>> = <<s[i], s[i + k]>>
      BY <2>1, <3>2, Zenon
    <3>4. s[h] = s[i] /\ s[h + j] = s[i + k]
      BY <3>3
    <3>5. h = i /\ h + j = i + k
      BY <1>4, <3>1, <3>2, <3>4, Zenon
    <3>6. QED
      BY <1>1, <3>1, <3>5
  <2>2. ASSUME NEW p \in 1..Len(FlattenSeq(rows)), NEW q \in 1..Len(FlattenSeq(rows)),
               FlattenSeq(rows)[p] = FlattenSeq(rows)[q]
        PROVE  p = q
    <3>1. Apart(rows)
      BY <2>1, Zenon DEF Apart
    <3>2. QED
      BY <1>8, <2>2, <3>1, FlatOnce, Zenon
  <2>3. QED
    BY <1>5, <1>10, <2>2, Zenon DEF PairsOnce
<1>13. QED
  BY <1>11, <1>12

\* A list of pools has no pool twice.
Once(list) == \A i, k \in DOMAIN list : list[i].address = list[k].address => i = k

\* The Uniswap source probes every pair at every fee tier, each once.
LEMMA CandidatesListed ==
  /\ \A t, u \in Tokens, f \in Range(FeeTiers) :
       t < u => \E i \in DOMAIN Candidates : Candidates[i].address = <<"v3", t, u, f>>
  /\ Once(Candidates)
<1> DEFINE P == PairsOf(Tokens)
           N == Len(P)
           M == Len(FeeTiers)
           cand(i, j) == [address |-> <<"v3", P[i][1], P[i][2], FeeTiers[j]>>,
                          token0 |-> P[i][1], token1 |-> P[i][2], fee |-> FeeTiers[j]]
           row(i) == [j \in 1..M |-> cand(i, j)]
           rows == [i \in 1..N |-> row(i)]
           C == FlattenSeq(rows)
<1>1. P \in Seq(Tokens \X Tokens)
  BY PairsFacts
<1>2. N \in Nat /\ DOMAIN P = 1..N /\ \A i \in 1..N : P[i] \in Tokens \X Tokens
  BY <1>1, SeqFacts, Zenon
<1>3. M \in Nat /\ DOMAIN FeeTiers = 1..M
  BY ReaderAssumption, SeqFacts
<1>4. /\ \A t, u \in Tokens : t < u => \E i \in DOMAIN P : P[i] = <<t, u>>
      /\ \A i, k \in DOMAIN P : P[i] = P[k] => i = k
  BY PairsListed DEF PairsAll, PairsOnce
<1>5. Candidates = C
  <2>1. Candidates = FlattenSeq([i \in DOMAIN P |-> [j \in DOMAIN FeeTiers |-> cand(i, j)]])
    BY DEF Candidates
  <2> HIDE DEF P, cand
  <2>2. QED
    BY <1>2, <1>3, <2>1, Zenon
<1> HIDE DEF P, N, M
<1> DEFINE W == {cand(i, j) : i \in 1..N, j \in 1..M}
<1>6. ASSUME NEW i \in 1..N PROVE row(i) \in Seq(W) /\ Len(row(i)) = M
  <2>1. row(i) \in [1..M -> W]
    <3> HIDE DEF cand
    <3>1. QED
      OBVIOUS
  <2> HIDE DEF row, W
  <2>2. QED
    BY <1>3, <2>1, Listing, Zenon
<1>7. \A i \in 1..N : \A j \in 1..M : rows[i][j] = cand(i, j)
  <2> HIDE DEF cand
  <2>1. QED
    OBVIOUS
<1>8. rows \in Seq(Seq(W)) /\ Len(rows) = N /\ \A i \in 1..N : Len(rows[i]) = M
  <2> HIDE DEF row, W
  <2>1. rows \in [1..N -> Seq(W)] /\ \A i \in 1..N : Len(rows[i]) = M
    BY <1>6
  <2> HIDE DEF rows
  <2>2. QED
    BY <1>2, <2>1, Listing, Zenon
<1> HIDE DEF row, rows, W
<1>9. DOMAIN C = 1..Len(C)
  BY <1>8, FlatType, SeqFacts, Zenon
<1>10. ASSUME NEW t \in Tokens, NEW u \in Tokens, NEW f \in Range(FeeTiers), t < u
       PROVE  \E p \in DOMAIN Candidates : Candidates[p].address = <<"v3", t, u, f>>
  <2>1. PICK i \in 1..N : P[i] = <<t, u>>
    BY <1>2, <1>4, <1>10
  <2>2. PICK j \in 1..M : FeeTiers[j] = f
    BY <1>3 DEF Range
  <2>3. cand(i, j).address = <<"v3", t, u, f>>
    BY <2>1, <2>2
  <2> HIDE DEF cand, C
  <2>4. i \in 1..Len(rows) /\ j \in 1..Len(rows[i])
    BY <1>8, Zenon
  <2>5. \E p \in 1..Len(C) : C[p] = rows[i][j]
    BY <1>8, <2>4, FlatHas, Zenon DEF C
  <2>6. QED
    BY <1>5, <1>7, <1>9, <2>3, <2>5, Zenon
<1>11. ASSUME NEW p \in 1..Len(C)
       PROVE  \E i \in 1..N : \E j \in 1..M :
                p = Len(Joined(rows, i - 1)) + j /\ C[p] = cand(i, j)
  <2>1. PICK i \in 1..Len(rows) : \E j \in 1..Len(rows[i]) :
          p = Len(Joined(rows, i - 1)) + j /\ C[p] = rows[i][j]
    BY <1>8, PlacesCover, Zenon
  <2> HIDE DEF cand, C
  <2>2. QED
    BY <1>7, <1>8, <2>1, Zenon
<1>12. ASSUME NEW p \in 1..Len(C), NEW q \in 1..Len(C), C[p].address = C[q].address
       PROVE  p = q
  <2> HIDE DEF C, cand
  <2>1. PICK i \in 1..N, j \in 1..M : p = Len(Joined(rows, i - 1)) + j /\ C[p] = cand(i, j)
    BY <1>11
  <2>2. PICK k \in 1..N, m \in 1..M : q = Len(Joined(rows, k - 1)) + m /\ C[q] = cand(k, m)
    BY <1>11
  <2>3. cand(i, j).address = cand(k, m).address
    BY <1>12, <2>1, <2>2, Zenon
  <2>4. <<"v3", P[i][1], P[i][2], FeeTiers[j]>> = <<"v3", P[k][1], P[k][2], FeeTiers[m]>>
    BY <2>3 DEF cand
  <2>5. P[i][1] = P[k][1] /\ P[i][2] = P[k][2] /\ FeeTiers[j] = FeeTiers[m]
    BY <2>4
  <2>6. P[i] = P[k]
    BY <1>2, <2>5
  <2>7. i = k
    BY <1>2, <1>4, <2>6, Zenon
  <2>8. j = m
    BY <1>3, <2>5, FeeAssumption, Zenon
  <2>9. QED
    BY <2>1, <2>2, <2>7, <2>8, Zenon
<1>13. Once(Candidates)
  <2> HIDE DEF C
  <2>1. QED
    BY <1>5, <1>9, <1>12, Zenon DEF Once
<1>14. QED
  BY <1>10, <1>13, Zenon

\* The Sushiswap source probes every pair once.
LEMMA PairCandidatesListed ==
  /\ \A t, u \in Tokens :
       t < u => \E i \in DOMAIN PairCandidates : PairCandidates[i].address = <<"v2", t, u>>
  /\ Once(PairCandidates)
<1> DEFINE P == PairsOf(Tokens)
<1>1. P \in Seq(Tokens \X Tokens)
  BY PairsFacts
<1>2. DOMAIN P = 1..Len(P) /\ \A i \in 1..Len(P) : P[i] \in Tokens \X Tokens
  BY <1>1, SeqFacts, Zenon
<1>3. /\ \A t, u \in Tokens : t < u => \E i \in DOMAIN P : P[i] = <<t, u>>
      /\ \A i, k \in DOMAIN P : P[i] = P[k] => i = k
  BY PairsListed DEF PairsAll, PairsOnce
<1>4. /\ DOMAIN PairCandidates = DOMAIN P
      /\ \A i \in DOMAIN P : PairCandidates[i].address = <<"v2", P[i][1], P[i][2]>>
  BY DEF PairCandidates
<1> HIDE DEF P
<1>5. ASSUME NEW t \in Tokens, NEW u \in Tokens, t < u
      PROVE  \E i \in DOMAIN PairCandidates : PairCandidates[i].address = <<"v2", t, u>>
  <2>1. PICK i \in DOMAIN P : P[i] = <<t, u>>
    BY <1>3, <1>5
  <2>2. P[i][1] = t /\ P[i][2] = u
    BY <2>1
  <2>3. QED
    BY <1>4, <2>2
<1>6. ASSUME NEW i \in DOMAIN P, NEW k \in DOMAIN P,
             PairCandidates[i].address = PairCandidates[k].address
      PROVE  i = k
  <2>1. <<"v2", P[i][1], P[i][2]>> = <<"v2", P[k][1], P[k][2]>>
    BY <1>4, <1>6, Zenon
  <2>2. P[i][1] = P[k][1] /\ P[i][2] = P[k][2]
    BY <2>1
  <2>3. P[i] = P[k]
    BY <1>2, <2>2
  <2>4. QED
    BY <1>3, <2>3, Zenon
<1>7. Once(PairCandidates)
  BY <1>4, <1>6, Zenon DEF Once
<1>8. QED
  BY <1>5, <1>7, Zenon

\* fs has the pools at the places T of list, in that order.
Kept(fs, list, T) == /\ DOMAIN fs = DOMAIN Ascending(T)
                     /\ \A k \in DOMAIN fs : fs[k].address = list[Ascending(T)[k]].address

\* What is kept of a list that has no pool twice has none twice.
LEMMA KeptOnce ==
  ASSUME NEW n \in Nat, NEW list, DOMAIN list = 1..n, Once(list),
         NEW T, T \subseteq 1..n, NEW fs, Kept(fs, list, T)
  PROVE  Once(fs)
<1>1. IsFiniteSet(T) /\ T \subseteq Int
  <2>1. IsFiniteSet(1..n)
    BY FS_Interval
  <2>2. T \in SUBSET (1..n)
    OBVIOUS
  <2>3. IsFiniteSet(T)
    BY <2>1, <2>2, FS_Subset, Zenon
  <2>4. QED
    BY <2>3
<1>2. DOMAIN Ascending(T) = 1..Cardinality(T)
  BY DEF Ascending
<1>3. \A k \in DOMAIN Ascending(T) : Ascending(T)[k] \in 1..n
  <2>1. \A k \in DOMAIN Ascending(T) : Ascending(T)[k] \in T
    BY AscendingPlaces, Zenon
  <2>2. QED
    BY <2>1
<1>4. ASSUME NEW j \in DOMAIN fs, NEW k \in DOMAIN fs, fs[j].address = fs[k].address
      PROVE  j = k
  <2>1. Ascending(T)[j] \in DOMAIN list /\ Ascending(T)[k] \in DOMAIN list
    BY <1>3, Zenon DEF Kept
  <2>2. list[Ascending(T)[j]].address = list[Ascending(T)[k]].address
    BY <1>4, Zenon DEF Kept
  <2>3. Ascending(T)[j] = Ascending(T)[k]
    BY <2>1, <2>2, Zenon DEF Once
  <2>4. j \in 1..Cardinality(T) /\ k \in 1..Cardinality(T)
    BY <1>2, Zenon DEF Kept
  <2>5. QED
    BY <1>1, <2>3, <2>4, AscendingOnce, Zenon
<1>5. QED
  BY <1>4, Zenon DEF Once

\* No pool comes out of a pass twice.
NoneTwice == Once(found) /\ Once(pools)

\* Nothing is no pool twice.
LEMMA NoneOnce == Once(<<>>)
BY DEF Once

\* Every step keeps it that no pool is found or returned twice.
LEMMA NoneTwiceStep == NoneTwice /\ [Next]_vars => NoneTwice'
<1> SUFFICES ASSUME NoneTwice, [Next]_vars PROVE NoneTwice'
  OBVIOUS
<1>1. ASSUME UNCHANGED <<found, pools>> PROVE NoneTwice'
  BY <1>1 DEF NoneTwice, Once
<1>2. CASE NewBlock \/ BeginUniswap \/ BeginSushiswap
  BY <1>1, <1>2 DEF NewBlock, BeginUniswap, BeginSushiswap, Begin
<1>3. CASE Return
  <2>1. found' = <<>> /\ pools' = <<>>
    BY <1>3 DEF Return
  <2>2. QED
    BY <2>1, NoneOnce DEF NoneTwice, Once
<1>4. CASE DoFails
  BY <1>1, <1>4 DEF DoFails, Fail
<1>5. ASSUME NEW gas, Batch(gas) PROVE NoneTwice'
  <2>1. UNCHANGED <<found, pools>>
    BY <1>5, Zenon DEF Batch, Fail
  <2>2. QED
    BY <1>1, <2>1
<1>6. CASE CollectSlots
  <2>1. found' = FoundLive /\ pools' = pools
    BY <1>6 DEF CollectSlots
  <2> DEFINE n == Len(Candidates)
             T == {i \in DOMAIN Candidates : Live(i)}
  <2>2. n \in Nat /\ DOMAIN Candidates = 1..n
    BY CandidatesFacts, SeqFacts, Zenon
  <2>3. T \subseteq 1..n
    BY <2>2
  <2>4. /\ DOMAIN FoundLive = DOMAIN Ascending(T)
        /\ \A k \in DOMAIN FoundLive : FoundLive[k].address = Candidates[Ascending(T)[k]].address
    BY DEF FoundLive, LiveOnes
  <2>5. Once(Candidates)
    BY CandidatesListed
  <2> HIDE DEF n, T
  <2>6. Kept(FoundLive, Candidates, T)
    BY <2>4, Zenon DEF Kept
  <2>7. Once(FoundLive)
    BY <2>2, <2>3, <2>5, <2>6, KeptOnce, Zenon
  <2>8. QED
    BY <2>1, <2>7 DEF NoneTwice, Once
<1>7. CASE CollectTicks
  <2>1. /\ found' = found /\ DOMAIN pools' = DOMAIN found
        /\ \A k \in DOMAIN found : pools'[k].address = found[k].address
    BY <1>7 DEF CollectTicks
  <2>2. QED
    BY <2>1, Zenon DEF NoneTwice, Once
<1>8. CASE CollectReserves
  <2> DEFINE n == Len(PairCandidates)
             T == {i \in DOMAIN PairCandidates : HoldsReserves(i)}
  <2>1. n \in Nat /\ DOMAIN PairCandidates = 1..n
    BY PairCandidatesFacts, SeqFacts, Zenon
  <2>2. T \subseteq 1..n
    BY <2>1
  <2>3. /\ found' = found /\ DOMAIN pools' = DOMAIN Ascending(T)
        /\ \A k \in DOMAIN pools' : pools'[k].address = PairCandidates[Ascending(T)[k]].address
    BY <1>8 DEF CollectReserves
  <2>4. Once(PairCandidates)
    BY PairCandidatesListed
  <2>5. PICK fs : fs = pools'
    OBVIOUS
  <2> HIDE DEF n, T
  <2>6. Kept(fs, PairCandidates, T)
    BY <2>3, <2>5, Zenon DEF Kept
  <2>7. Once(fs)
    BY <2>1, <2>2, <2>4, <2>6, KeptOnce, Zenon
  <2>8. QED
    BY <2>3, <2>5, <2>7 DEF NoneTwice, Once
<1>9. CASE UNCHANGED vars
  BY <1>1, <1>9 DEF vars
<1>10. QED
  BY <1>2, <1>3, <1>4, <1>5, <1>6, <1>7, <1>8, <1>9 DEF Next, Read

\* A source returns no pool twice (uniswapv3.go:99-235, sushiswap.go:40-98), so the graph
\* has no two edges for one pool.
THEOREM NoPoolTwice == Spec => []NoneTwice
<1>1. Init => NoneTwice
  BY NoneOnce DEF Init, Blank, NoneTwice, Once
<1>2. QED
  BY <1>1, NoneTwiceStep, PTL DEF Spec

\* A pool of any pair of the tokens, and of any fee tier, that could quote all through
\* the read, and whose own calls went through, is returned.
AllLiveReturned ==
  pc = "done" =>
    \A t, u \in Tokens : t < u =>
      IF protocol = "v2"
        THEN Steady(<<"v2", t, u>>) => \E k \in DOMAIN pools : pools[k].address = <<"v2", t, u>>
        ELSE \A f \in Range(FeeTiers) :
               Steady(<<"v3", t, u, f>>) =>
                 \E k \in DOMAIN pools : pools[k].address = <<"v3", t, u, f>>

\* Every pair of tokens at every fee tier is looked for, so no live pool is missed for want
\* of having been asked about (addresses.go:133-149, uniswapv3.go:220-235, multicall.go:64-65).
THEOREM EveryPairIsSearched == Spec => []AllLiveReturned
<1>1. LivePoolsAreReturned => AllLiveReturned
  <2> SUFFICES ASSUME LivePoolsAreReturned, pc = "done", NEW t \in Tokens, NEW u \in Tokens, t < u
               PROVE  IF protocol = "v2"
                        THEN Steady(<<"v2", t, u>>) =>
                               \E k \in DOMAIN pools : pools[k].address = <<"v2", t, u>>
                        ELSE \A f \in Range(FeeTiers) :
                               Steady(<<"v3", t, u, f>>) =>
                                 \E k \in DOMAIN pools : pools[k].address = <<"v3", t, u, f>>
    BY DEF AllLiveReturned
  <2>1. ASSUME NEW i \in DOMAIN Probed, Steady(Probed[i].address)
        PROVE  \E k \in DOMAIN pools : pools[k].address = Probed[i].address
    BY <2>1, Zenon DEF LivePoolsAreReturned
  <2>2. ASSUME protocol = "v2", Steady(<<"v2", t, u>>)
        PROVE  \E k \in DOMAIN pools : pools[k].address = <<"v2", t, u>>
    <3>1. PICK i \in DOMAIN PairCandidates : PairCandidates[i].address = <<"v2", t, u>>
      BY PairCandidatesListed, Zenon
    <3>2. Probed = PairCandidates
      BY <2>2 DEF Probed
    <3>3. QED
      BY <2>1, <2>2, <3>1, <3>2, Zenon
  <2>3. ASSUME protocol # "v2", NEW f \in Range(FeeTiers), Steady(<<"v3", t, u, f>>)
        PROVE  \E k \in DOMAIN pools : pools[k].address = <<"v3", t, u, f>>
    <3>1. PICK i \in DOMAIN Candidates : Candidates[i].address = <<"v3", t, u, f>>
      BY CandidatesListed, Zenon
    <3>2. Probed = Candidates
      BY <2>3 DEF Probed
    <3>3. QED
      BY <2>1, <2>3, <3>1, <3>2, Zenon
  <2>4. QED
    BY <2>2, <2>3, Zenon
<1>2. QED
  BY <1>1, NoLivePoolIsMissed, PTL
=============================================================================
