---------------------------- MODULE ClientProofs ----------------------------
(***************************************************************************)
(* The hooks of the page.  First the stream of prices and the series of    *)
(* the chart (Web), for any number of runs of the effects, restarts of the *)
(* service, and times of ticks; then the quote panel (UseQuote), for any   *)
(* inputs, hop limits, pools and routes, any number of edits, refreshes    *)
(* and deaths of the service.  The two specifications share no variable.   *)
(***************************************************************************)
EXTENDS Web, UseQuote, SequenceTheorems, TLAPS

----------------------------------------------------------------------------
(* The stream.                                                             *)

\* The types the argument needs.
StreamTypes == /\ mounted \in BOOLEAN /\ run \in 0..MaxRuns
               /\ socket \in [Runs -> {"none", "connecting", "open", "closing"}]
               /\ retryTimer \subseteq Runs
               /\ status \in {"connecting", "open", "retrying", "closed"}

StreamInv == StreamTypes /\ OneLifeline

\* What a step leaves alone, the invariant does not notice.
LEMMA SameStream ==
  ASSUME StreamInv, UNCHANGED <<effects, socket, retryTimer, status>>
  PROVE  StreamInv'
BY DEF StreamInv, StreamTypes, OneLifeline, Disposed, Runs, effects

LEMMA MountKeeps == ASSUME StreamInv, Mount PROVE StreamInv'
<1>1. /\ mounted' = TRUE /\ run' = run + 1 /\ run + 1 \in Runs
      /\ socket' = [socket EXCEPT ![run + 1] = "connecting"]
      /\ status' = "connecting" /\ retryTimer' = retryTimer /\ ~mounted
  BY WebAssumption DEF Mount, StreamInv, StreamTypes, Runs
<1>2. StreamTypes'
  BY <1>1, WebAssumption DEF StreamInv, StreamTypes, Runs
<1>3. \A r \in Runs : socket[r] \in {"none", "closing"} /\ r \notin retryTimer
  BY <1>1 DEF StreamInv, OneLifeline, Disposed
<1>4. \A r \in Runs : Disposed(r)' => r # run + 1
  BY <1>1 DEF Disposed
<1>5. \A r \in Runs : ~(Disposed(r)') => r = run + 1
  BY <1>1 DEF Disposed
<1>6. OneLifeline'
  BY <1>1, <1>3, <1>4, <1>5 DEF StreamInv, StreamTypes, OneLifeline, Runs
<1>7. QED
  BY <1>2, <1>6 DEF StreamInv

LEMMA UnmountKeeps == ASSUME StreamInv, Unmount PROVE StreamInv'
<1>1. /\ mounted' = FALSE /\ run' = run /\ status' = "closed" /\ mounted
      /\ retryTimer' = retryTimer \ {run}
      /\ socket' = [socket EXCEPT ![run] = IF @ = "none" THEN @ ELSE "closing"]
  BY DEF Unmount, CloseStream, Close
<1>2. StreamTypes'
  BY <1>1 DEF StreamInv, StreamTypes, Runs
<1>3. ASSUME NEW r \in Runs PROVE socket'[r] \in {"none", "closing"} /\ r \notin retryTimer'
  <2>1. CASE r = run
    BY <1>1, <2>1 DEF StreamInv, StreamTypes
  <2>2. CASE r # run
    BY <1>1, <2>2 DEF StreamInv, StreamTypes, OneLifeline, Disposed
  <2>3. QED
    BY <2>1, <2>2
<1>4. QED
  BY <1>1, <1>2, <1>3 DEF StreamInv, OneLifeline, Disposed, Runs

\* The steps of the websocket.
LEMMA SocketKeeps ==
  ASSUME StreamInv, NEW r \in Runs, Opens(r) \/ Breaks(r) \/ Closes(r) \/ Connect(r)
  PROVE  StreamInv'
<1>1. /\ mounted' = mounted /\ run' = run
      /\ \A s \in Runs : Disposed(s)' <=> Disposed(s)
  BY DEF Opens, Breaks, Closes, Connect, effects, Disposed
<1>2. ASSUME Disposed(r) PROVE ~Opens(r) /\ ~Breaks(r) /\ ~Connect(r)
  BY <1>2 DEF StreamInv, OneLifeline, Opens, Breaks, Connect
<1>3. \A s \in Runs : s # r /\ ~Disposed(r) => Disposed(s)
  BY DEF Disposed
<1>4. CASE Opens(r)
  BY <1>1, <1>2, <1>3, <1>4 DEF Opens, StreamInv, StreamTypes, OneLifeline, Runs
<1>5. CASE Breaks(r)
  BY <1>1, <1>2, <1>3, <1>5 DEF Breaks, Close, StreamInv, StreamTypes, OneLifeline, Runs
<1>6. CASE Closes(r) /\ Disposed(r)
  <2>1. /\ socket' = [socket EXCEPT ![r] = "none"]
        /\ retryTimer' = retryTimer /\ status' = status
    BY <1>6 DEF Closes
  <2>2. QED
    BY <1>1, <1>6, <2>1 DEF StreamInv, StreamTypes, OneLifeline, Runs
<1>7. CASE Closes(r) /\ ~Disposed(r)
  <2>1. /\ socket' = [socket EXCEPT ![r] = "none"]
        /\ retryTimer' = retryTimer \cup {r} /\ status' = "retrying"
    BY <1>7 DEF Closes, Retry
  <2>2. QED
    BY <1>1, <1>3, <1>7, <2>1 DEF StreamInv, StreamTypes, OneLifeline, Runs
<1>8. CASE Connect(r)
  <2>1. /\ socket' = [socket EXCEPT ![r] = "connecting"] /\ ~Disposed(r)
        /\ retryTimer' = retryTimer \ {r} /\ status' \in {"connecting", "retrying"}
    BY <1>2, <1>8 DEF Connect
  <2>2. QED
    BY <1>1, <1>3, <2>1 DEF StreamInv, StreamTypes, OneLifeline, Runs
<1>9. QED
  BY <1>4, <1>5, <1>6, <1>7, <1>8

\* A stream never loses its lifeline and never has two, and a run that was cleaned up
\* has none (usePriceStream.ts:135-178), for any number of runs.
THEOREM StreamHasOneLifeline == Spec => []OneLifeline
<1>1. Init => StreamInv
  <2> SUFFICES ASSUME Init PROVE StreamInv
    OBVIOUS
  <2>1. run \in 0..MaxRuns
    BY WebAssumption DEF Init
  <2>2. StreamTypes
    BY <2>1 DEF Init, StreamTypes, Runs
  <2>3. OneLifeline
    BY DEF Init, OneLifeline, Disposed, Runs
  <2>4. QED
    BY <2>2, <2>3 DEF StreamInv
<1>2. StreamInv /\ [Next]_vars => StreamInv'
  <2> SUFFICES ASSUME StreamInv, [Next]_vars PROVE StreamInv'
    OBVIOUS
  <2>1. CASE Changes \/ GoesDown \/ ComesUp
    BY <2>1, SameStream DEF Changes, GoesDown, ComesUp, usePriceStream
  <2>2. CASE Mount \/ Unmount
    BY <2>2, MountKeeps, UnmountKeeps
  <2>3. ASSUME NEW s \in Slots, Poll(s) \/ PollSettles(s) PROVE StreamInv'
    BY <2>3, SameStream DEF Poll, PollSettles, Answer, PollSucceeds, PollFails,
                            usePriceStream
  <2>4. ASSUME NEW r \in Runs, Opens(r) \/ Message(r) \/ Breaks(r) \/ Closes(r) \/ Connect(r)
        PROVE  StreamInv'
    BY <2>4, SocketKeeps, SameStream DEF Message
  <2>5. CASE UNCHANGED vars
    BY <2>5, SameStream DEF vars, usePriceStream
  <2>6. QED
    BY <2>1, <2>2, <2>3, <2>4, <2>5 DEF Next
<1>3. StreamInv => OneLifeline
  BY DEF StreamInv
<1>4. QED
  BY <1>1, <1>2, <1>3, PTL DEF Spec

----------------------------------------------------------------------------
(* The series.                                                             *)

Points == [time : Int, live : BOOLEAN]

\* SeriesAdvances, said of any sequence of points.
Advances(w) ==
  /\ Len(w) <= MaxPoints
  /\ \A i, j \in 1..Len(w) :
       i < j => w[i].time < w[j].time /\ (w[i].live => w[j].live)
  /\ w # <<>> => w[Len(w)].live

SeriesInv == series \in Seq(Points) /\ Advances(series)

\* A real point that is later than the last may follow.
LEMMA LaterPointFollows ==
  ASSUME NEW w \in Seq(Points), NEW t \in Int,
         \A i, j \in 1..Len(w) : i < j => w[i].time < w[j].time /\ (w[i].live => w[j].live),
         \A i \in 1..Len(w) : w[i].time < t
  PROVE  LET v == Append(w, Point(t, TRUE))
         IN  /\ v \in Seq(Points) /\ Len(v) = Len(w) + 1 /\ v[Len(v)].live
             /\ \A i, j \in 1..Len(v) :
                  i < j => v[i].time < v[j].time /\ (v[i].live => v[j].live)
<1> DEFINE p == Point(t, TRUE)
           v == Append(w, p)
<1>1. p \in Points /\ p.time = t /\ p.live = TRUE
  BY DEF Point, Points
<1> HIDE DEF p
<1>2. /\ v \in Seq(Points) /\ Len(v) = Len(w) + 1 /\ Len(w) \in Nat
      /\ \A i \in 1..Len(w) : v[i] = w[i]
      /\ v[Len(w) + 1] = p
  BY <1>1
<1> HIDE DEF v
<1>3. ASSUME NEW i \in 1..Len(v), NEW j \in 1..Len(v), i < j
      PROVE  v[i].time < v[j].time /\ (v[i].live => v[j].live)
  <2>1. i \in 1..Len(w)
    BY <1>2, <1>3, SMT
  <2>2. CASE j \in 1..Len(w)
    BY <1>2, <1>3, <2>1, <2>2
  <2>3. CASE j = Len(w) + 1
    BY <1>1, <1>2, <2>1, <2>3
  <2>4. QED
    BY <1>2, <2>2, <2>3, SMT
<1>4. QED
  BY <1>1, <1>2, <1>3 DEF v, p

\* The seeded points go up to the first tick.
LEMMA SeededAdvances ==
  ASSUME NEW t \in Int
  PROVE  LET v == Append(SeedHistory(t), Point(t, TRUE)) IN v \in Seq(Points) /\ Advances(v)
<1> DEFINE w == SeedHistory(t)
<1>1. SeedPoints \in Nat /\ SeedInterval \in Nat \ {0} /\ MaxPoints \in Nat
      /\ SeedPoints < MaxPoints
  BY WebAssumption
<1>2. \A i \in 1..SeedPoints : /\ (SeedPoints + 1 - i) * SeedInterval \in Nat \ {0}
                               /\ t - (SeedPoints + 1 - i) * SeedInterval \in Int
                               /\ t - (SeedPoints + 1 - i) * SeedInterval < t
  BY <1>1, SMT
<1>3. \A i, j \in 1..SeedPoints :
        i < j => (SeedPoints + 1 - j) * SeedInterval < (SeedPoints + 1 - i) * SeedInterval
  BY <1>1, SMT
<1>4. w \in Seq(Points) /\ Len(w) = SeedPoints
      /\ \A i \in 1..SeedPoints : /\ w[i].time = t - (SeedPoints + 1 - i) * SeedInterval
                                  /\ w[i].live = FALSE
  BY <1>1, <1>2 DEF SeedHistory, Point, Points
<1> HIDE DEF w
<1>5. /\ \A i \in 1..Len(w) : w[i].time < t
      /\ \A i, j \in 1..Len(w) : i < j => w[i].time < w[j].time /\ (w[i].live => w[j].live)
  BY <1>1, <1>2, <1>3, <1>4, SMT
<1> DEFINE v == Append(w, Point(t, TRUE))
<1>6. /\ v \in Seq(Points) /\ Len(v) = Len(w) + 1 /\ v[Len(v)].live
      /\ \A i, j \in 1..Len(v) :
           i < j => v[i].time < v[j].time /\ (v[i].live => v[j].live)
  BY <1>4, <1>5, LaterPointFollows
<1> HIDE DEF v
<1>7. Len(v) <= MaxPoints
  BY <1>1, <1>4, <1>6, SMT
<1>8. v \in Seq(Points) /\ Advances(v)
  BY <1>6, <1>7 DEF Advances
<1>9. QED
  BY <1>8 DEF v, w

\* Points may be dropped from the front.
LEMMA DroppingKeeps ==
  ASSUME NEW w \in Seq(Points), w # <<>>, w[Len(w)].live,
         \A i, j \in 1..Len(w) : i < j => w[i].time < w[j].time /\ (w[i].live => w[j].live)
  PROVE  LastN(w, MaxPoints) \in Seq(Points) /\ Advances(LastN(w, MaxPoints))
<1>1. MaxPoints \in Nat /\ MaxPoints > 0 /\ Len(w) \in Nat
  BY WebAssumption
<1>2. CASE Len(w) <= MaxPoints
  BY <1>1, <1>2 DEF LastN, Advances
<1>3. CASE Len(w) > MaxPoints
  <2> DEFINE k == Len(w) - MaxPoints
             v == SubSeq(w, k + 1, Len(w))
  <2>1. k \in Nat /\ LastN(w, MaxPoints) = v
    BY <1>1, <1>3 DEF LastN
  <2>2. v \in Seq(Points) /\ Len(v) = MaxPoints /\ \A i \in 1..MaxPoints : v[i] = w[k + i]
    BY <1>1, <1>3
  <2> HIDE DEF v
  <2>3. \A i \in 1..MaxPoints : k + i \in 1..Len(w)
    BY <1>1, <2>1, SMT
  <2>4. \A i, j \in 1..MaxPoints : i < j => k + i < k + j
    BY <1>1, <2>1, SMT
  <2>5. k + MaxPoints = Len(w) /\ MaxPoints \in 1..MaxPoints
    BY <1>1, SMT
  <2> HIDE DEF k
  <2>6. Advances(v)
    <3>1. v[Len(v)].live
      BY <2>2, <2>5
    <3>2. \A i, j \in 1..Len(v) :
            i < j => v[i].time < v[j].time /\ (v[i].live => v[j].live)
      BY <2>2, <2>3, <2>4
    <3>3. QED
      BY <1>1, <2>2, <3>1, <3>2 DEF Advances
  <2>7. QED
    BY <2>1, <2>2, <2>6
<1>4. QED
  BY <1>1, <1>2, <1>3, SMT

LEMMA IngestKeeps ==
  ASSUME NEW w \in Seq(Points), Advances(w), NEW t \in Int
  PROVE  Ingest(w, t) \in Seq(Points) /\ Advances(Ingest(w, t))
<1>1. CASE w = <<>>
  BY <1>1, SeededAdvances DEF Ingest
<1>2. CASE w # <<>>
  <2> DEFINE n == Len(w)
             x == w[n].time
  <2>1. n \in Nat /\ n > 0 /\ n \in 1..n
    BY <1>2
  <2>2. \A i \in 1..n : w[i] \in Points /\ w[i].time \in Int /\ w[i].live \in BOOLEAN
    <3>1. \A i \in 1..n : w[i] \in Points
      OBVIOUS
    <3>2. QED
      BY <3>1 DEF Points
  <2>3. /\ \A i, j \in 1..n : i < j => w[i].time < w[j].time /\ (w[i].live => w[j].live)
        /\ n <= MaxPoints /\ w[n].live
    BY <1>2 DEF Advances
  <2>4. CASE t <= x
    <3> DEFINE p == Point(x, TRUE)
               v == [w EXCEPT ![n] = p]
    <3>1. Ingest(w, t) = v
      BY <1>2, <2>4 DEF Ingest
    <3>2. p \in Points /\ p.time = x /\ p.live = TRUE
      BY <2>1, <2>2 DEF Point, Points
    <3> HIDE DEF p
    <3>3. v \in Seq(Points) /\ Len(v) = n /\ \A i \in 1..n : v[i] = IF i = n THEN p ELSE w[i]
      BY <2>1, <3>2, ExceptSeq
    <3>4. v[n] = p
      BY <2>1, <3>3
    <3>5. \A i \in 1..n : v[i].time = w[i].time /\ (v[i].live <=> w[i].live)
      BY <2>1, <2>3, <3>2, <3>3, <3>4
    <3> HIDE DEF v
    <3>6. Advances(v)
      BY <2>1, <2>3, <3>3, <3>5 DEF Advances
    <3>7. QED
      BY <3>1, <3>3, <3>6
  <2>5. CASE ~(t <= x)
    <3> DEFINE v == Append(w, Point(t, TRUE))
    <3>1. Ingest(w, t) = LastN(v, MaxPoints)
      BY <1>2, <2>5 DEF Ingest
    <3>2. \A i \in 1..n : w[i].time < t
      <4>1. \A i \in 1..n : i < n \/ i = n
        BY <2>1, SMT
      <4>2. \A i \in 1..n : w[i].time < x \/ w[i].time = x
        BY <2>1, <2>3, <4>1
      <4>3. x \in Int
        BY <2>1, <2>2
      <4>4. QED
        BY <2>2, <2>5, <4>2, <4>3, SMT
    <3>3. /\ v \in Seq(Points) /\ Len(v) = n + 1 /\ v[Len(v)].live
          /\ \A i, j \in 1..Len(v) :
               i < j => v[i].time < v[j].time /\ (v[i].live => v[j].live)
      BY <2>3, <3>2, LaterPointFollows
    <3> HIDE DEF v
    <3>4. v # <<>>
      BY <2>1, <3>3
    <3>5. QED
      BY <3>1, <3>3, <3>4, DroppingKeeps
  <2>6. QED
    BY <2>4, <2>5
<1>3. QED
  BY <1>1, <1>2

\* The series goes up strictly and stays within MAX_POINTS (usePriceStream.ts:108-130),
\* for any times of ticks and any numbers of seeded and kept points.
THEOREM ChartGoesForward == Spec => []SeriesAdvances
<1>1. Init => SeriesInv
  <2> SUFFICES ASSUME Init PROVE SeriesInv
    OBVIOUS
  <2>1. series = <<>> /\ series \in Seq(Points) /\ Len(series) = 0
    BY DEF Init
  <2>2. 0 <= MaxPoints
    BY WebAssumption
  <2>3. QED
    BY <2>1, <2>2 DEF SeriesInv, Advances
<1>2. SeriesInv /\ [Next]_vars => SeriesInv'
  <2> SUFFICES ASSUME SeriesInv, [Next]_vars PROVE SeriesInv'
    OBVIOUS
  <2>1. ASSUME NEW r \in Runs, Message(r) PROVE SeriesInv'
    <3>1. PICK t \in Times : series' = Ingest(series, t)
      BY <2>1 DEF Message
    <3>2. t \in Int
      BY WebAssumption
    <3>3. QED
      BY <3>1, <3>2, IngestKeeps DEF SeriesInv
  <2>2. ASSUME UNCHANGED series PROVE SeriesInv'
    BY <2>2 DEF SeriesInv
  <2>3. QED
    BY <2>1, <2>2 DEF Next, Changes, GoesDown, ComesUp, Mount, Unmount, CloseStream, Poll,
                      PollSettles, Answer, PollSucceeds, PollFails, Opens, Breaks, Closes,
                      Connect, usePriceStream, vars
<1>3. SeriesInv => SeriesAdvances
  BY DEF SeriesInv, Advances, SeriesAdvances
<1>4. QED
  BY <1>1, <1>2, <1>3, PTL DEF Spec

----------------------------------------------------------------------------
(* The inductive invariant.                                                *)

SimulatedAddresses == {p.address : p \in Sourced["simulated"]}

Addresses == {p.address : p \in KnownPools}

Snapshots == [gen : Nat, pools : SUBSET KnownPools]

Answers == [status : Nat, request : Inputs \cup {<<>>}, hops : HopLimits \cup {0},
            route : SUBSET Addresses, simulated : BOOLEAN]

Fetches == [at : {"sent", "search", "settled"}, snap : Snapshots, answer : Answers]

Requests == [in : Inputs, phase : {"timer", "out", "over"}, aborted : BOOLEAN,
             fetches : [HopLimits -> Fetches]]

Panels == [quote : Answers, loading : BOOLEAN, stale : BOOLEAN, error : BOOLEAN,
           matrix : [HopLimits -> Answers]]

\* The store holds what some instance has read.
StoreOK == store # <<>> => \E P \in SUBSET (Sourced["live"] \cup Sourced["simulated"]) :
                             store = <<{EncodePool(p) : p \in P}>>

ServiceTypes == /\ mode \in {"live", "simulated"}
                /\ snap \in Snapshots /\ gen \in Nat /\ StoreOK

PanelTypes == /\ inputs \in Inputs
              /\ shown \in Panels
              /\ reqs \in Seq(Requests)

\* The label of a quote is right.
Labelled(q) == q.simulated <=> q.route \cap SimulatedAddresses # {}

\* An answer to inputs i under hop limit h, or an error.
Own(a, i, h) == Labelled(a) /\ (a.status = 200 => a.request = i /\ a.hops = h)

\* The answers a request has collected are its own.
OwnAnswers == \A n \in DOMAIN reqs : \A h \in HopLimits :
                Own(reqs[n].fetches[h].answer, reqs[n].in, h)

\* Only the newest run can still be wanted, and then it asks for the inputs as they are.
WantedIsCurrent ==
  \A n \in DOMAIN reqs :
    n = Len(reqs) /\ (reqs[n].phase = "timer" \/ (reqs[n].phase = "out" /\ ~reqs[n].aborted))
      => reqs[n].in = inputs

ShownLabelled == Labelled(shown.quote) /\ \A h \in HopLimits : Labelled(shown.matrix[h])

PanelInv == /\ ServiceTypes /\ PanelTypes /\ OwnAnswers /\ WantedIsCurrent
            /\ ShownMatchesInputs /\ ShownLabelled

----------------------------------------------------------------------------
(* Lemmas about what the service answers.                                  *)

LEMMA EncodingKeepsLabel ==
  ASSUME NEW p
  PROVE  /\ DecodePool(EncodePool(p)).address = p.address
         /\ DecodePool(EncodePool(p)).simulated = p.simulated
BY DEF DecodePool, EncodePool

\* A pool is flagged exactly if the simulator made it, also after it was stored.
LEMMA FlagsAreTrue ==
  ASSUME NEW p \in KnownPools
  PROVE  p.simulated <=> p.address \in SimulatedAddresses
<1>1. ASSUME NEW q \in Sourced["live"] \cup Sourced["simulated"]
      PROVE  q.simulated <=> q.address \in SimulatedAddresses
  BY ServiceAssumption, AddressAssumption DEF SimulatedAddresses
<1>2. CASE p \in Sourced["live"] \cup Sourced["simulated"]
  BY <1>1, <1>2
<1>3. CASE \E q \in Sourced["live"] \cup Sourced["simulated"] : p = DecodePool(EncodePool(q))
  BY <1>1, <1>3, EncodingKeepsLabel
<1>4. QED
  BY <1>2, <1>3 DEF KnownPools

LEMMA NothingIsLabelled == Nothing \in Answers /\ Labelled(Nothing) /\ Nothing.status = 0
BY DEF Nothing, Error, Answers, Labelled

LEMMA ErrorsAreLabelled ==
  ASSUME NEW s \in Nat, s # 200
  PROVE  Error(s) \in Answers /\ Labelled(Error(s)) /\ Error(s).status # 200
BY DEF Error, Answers, Labelled

\* The route of an answer is labelled by the snapshot it was found in.
LEMMA HandleQuoteAnswers ==
  ASSUME NEW s \in Snapshots, NEW i \in Inputs, NEW h \in HopLimits
  PROVE  LET a == HandleQuote(s, i, h)
         IN  /\ a \in Answers /\ Labelled(a)
             /\ a.status = 200 => a.request = i /\ a.hops = h
<1> DEFINE route == Route(s.pools, i.pair, h)
<1>1. CASE route = {}
  <2>1. HandleQuote(s, i, h) = Error(404)
    BY <1>1 DEF HandleQuote
  <2>2. QED
    BY <2>1, ErrorsAreLabelled
<1>2. CASE route # {}
  <2>1. HandleQuote(s, i, h) = BuildQuoteResponse(s, route, i, h)
    BY <1>2 DEF HandleQuote
  <2>2. s.pools \in SUBSET KnownPools
    BY DEF Snapshots
  <2>3. route \subseteq {p.address : p \in s.pools}
    BY <2>2, RouteAssumption
  <2>4. route \cap SimulatedIn(s) = route \cap SimulatedAddresses
    <3>1. ASSUME NEW x \in route PROVE x \in SimulatedIn(s) <=> x \in SimulatedAddresses
      BY <2>2, <2>3, FlagsAreTrue DEF SimulatedIn
    <3>2. QED
      BY <3>1
  <2>5. route \in SUBSET Addresses
    BY <2>2, <2>3 DEF Addresses
  <2>6. ASSUME NEW b \in BOOLEAN, b <=> route \cap SimulatedAddresses # {}
        PROVE  LET a == HandleQuote(s, i, h)
               IN  /\ a \in Answers /\ Labelled(a)
                   /\ a.status = 200 => a.request = i /\ a.hops = h
    <3>1. HandleQuote(s, i, h) = [status |-> 200, request |-> i, hops |-> h,
                                  route |-> route, simulated |-> b]
      BY <2>1, <2>4, <2>6 DEF BuildQuoteResponse
    <3>2. HandleQuote(s, i, h) \in Answers
      BY <2>5, <3>1 DEF Answers
    <3>3. /\ HandleQuote(s, i, h).route = route /\ HandleQuote(s, i, h).simulated = b
          /\ HandleQuote(s, i, h).request = i /\ HandleQuote(s, i, h).hops = h
      BY <3>1
    <3>4. Labelled(HandleQuote(s, i, h))
      BY <2>6, <3>3, Zenon DEF Labelled
    <3>5. QED
      BY <3>2, <3>3, <3>4, Zenon
  <2>7. QED
    BY <2>6
<1>3. QED
  BY <1>1, <1>2

----------------------------------------------------------------------------
(* Steps of the service.                                                   *)

LEMMA PublishKeeps ==
  ASSUME ServiceTypes, NEW P \in SUBSET KnownPools, PublishPools(P)
  PROVE  snap' \in Snapshots /\ gen' \in Nat
BY DEF ServiceTypes, PublishPools, Snapshots

LEMMA ServiceKeeps ==
  ASSUME ServiceTypes, ServiceNext \/ Crash \/ UNCHANGED service
  PROVE  ServiceTypes'
<1> USE DEF ServiceTypes
<1>1. CASE Boot \/ RefreshFails \/ UNCHANGED service
  BY <1>1 DEF Boot, RefreshFails, service, StoreOK
<1>2. CASE WarmStart
  <2>1. CASE UNCHANGED <<snap, gen>>
    BY <1>2, <2>1 DEF WarmStart, StoreOK
  <2>2. CASE store # <<>> /\ PublishPools({DecodePool(d) : d \in store[1]})
    <3>1. PICK P \in SUBSET (Sourced["live"] \cup Sourced["simulated"]) :
            store = <<{EncodePool(p) : p \in P}>>
      BY <2>2 DEF StoreOK
    <3>2. {DecodePool(d) : d \in store[1]} \in SUBSET KnownPools
      BY <3>1 DEF KnownPools
    <3>3. QED
      BY <1>2, <2>2, <3>2, PublishKeeps DEF WarmStart, StoreOK
  <2>3. QED
    BY <1>2, <2>1, <2>2 DEF WarmStart
<1>3. CASE Refresh
  <2>1. Sourced[mode] \in SUBSET (Sourced["live"] \cup Sourced["simulated"])
    OBVIOUS
  <2>2. Sourced[mode] \in SUBSET KnownPools
    BY <2>1 DEF KnownPools
  <2>3. StoreOK'
    BY <1>3, <2>1 DEF Refresh, StoreOK
  <2>4. QED
    BY <1>3, <2>2, <2>3, PublishKeeps DEF Refresh
<1>4. CASE SiblingSaves
  <2>1. PICK m \in DOMAIN Sourced : store' = <<{EncodePool(p) : p \in Sourced[m]}>>
    BY <1>4 DEF SiblingSaves
  <2>2. Sourced[m] \in SUBSET (Sourced["live"] \cup Sourced["simulated"])
    BY ServiceAssumption
  <2>3. StoreOK'
    BY <2>1, <2>2 DEF StoreOK
  <2>4. QED
    BY <1>4, <2>3 DEF SiblingSaves
<1>5. CASE Crash
  BY <1>5 DEF Crash, NoSnapshot, Snapshots, StoreOK
<1>6. QED
  BY <1>1, <1>2, <1>3, <1>4, <1>5 DEF ServiceNext

----------------------------------------------------------------------------
(* Steps of the panel.                                                     *)

LEMMA NoSnapshotIsOne == NoSnapshot \in Snapshots
BY DEF NoSnapshot, Snapshots

LEMMA NewRequestTypes ==
  ASSUME NEW i \in Inputs
  PROVE  /\ NewRequest(i) \in Requests /\ NewRequest(i).in = i
         /\ \A h \in HopLimits : NewRequest(i).fetches[h].answer = Nothing
<1>1. Asked \in Fetches /\ Asked.answer = Nothing
  BY NoSnapshotIsOne, NothingIsLabelled DEF Asked, Fetches
<1>2. QED
  BY <1>1 DEF NewRequest, Requests

LEMMA InitPanel == QuoteInit => PanelInv
<1> SUFFICES ASSUME QuoteInit PROVE PanelInv
  OBVIOUS
<1>1. ServiceTypes
  BY NoSnapshotIsOne, ServiceAssumption DEF QuoteInit, ServiceInit, ServiceTypes, StoreOK
<1>2. EmptyMatrix \in [HopLimits -> Answers] /\ \A h \in HopLimits : EmptyMatrix[h] = Nothing
  BY NothingIsLabelled DEF EmptyMatrix
<1>3. shown = [quote |-> Nothing, loading |-> TRUE, stale |-> FALSE, error |-> FALSE,
               matrix |-> EmptyMatrix]
  BY DEF QuoteInit, Blank
<1>4. PanelTypes
  <2>1. shown \in Panels
    BY <1>2, <1>3, NothingIsLabelled DEF Panels
  <2>2. inputs \in Inputs /\ reqs = <<NewRequest(Opening)>> /\ NewRequest(Opening) \in Requests
    BY NewRequestTypes, UseQuoteAssumption DEF QuoteInit
  <2>3. QED
    BY <2>1, <2>2 DEF PanelTypes
<1>5. /\ DOMAIN reqs = {1} /\ Len(reqs) = 1 /\ reqs[1] = NewRequest(Opening)
      /\ inputs = Opening /\ Opening \in Inputs
  BY UseQuoteAssumption DEF QuoteInit
<1>6. OwnAnswers /\ WantedIsCurrent
  BY <1>5, NewRequestTypes, NothingIsLabelled DEF OwnAnswers, Own, WantedIsCurrent
<1>7. ShownMatchesInputs /\ ShownLabelled
  BY <1>2, <1>3, NothingIsLabelled DEF ShownMatchesInputs, ShownLabelled
<1>8. QED
  BY <1>1, <1>4, <1>6, <1>7 DEF PanelInv

\* A request whose fetches change keeps its own answers, if the new ones are its own.
LEMMA RequestChanges ==
  ASSUME PanelInv, UNCHANGED <<inputs, shown>>, ServiceTypes',
         reqs' \in Seq(Requests), Len(reqs') = Len(reqs),
         \A n \in DOMAIN reqs :
           /\ reqs'[n].in = reqs[n].in /\ reqs'[n].aborted = reqs[n].aborted
           /\ \/ reqs'[n].phase = reqs[n].phase \/ reqs'[n].phase = "over"
              \/ reqs[n].phase = "timer" /\ reqs'[n].phase = "out"
           /\ \A h \in HopLimits :
                \/ reqs'[n].fetches[h].answer = reqs[n].fetches[h].answer
                \/ Own(reqs'[n].fetches[h].answer, reqs[n].in, h)
  PROVE  PanelInv'
<1>1. DOMAIN reqs' = DOMAIN reqs
  BY DEF PanelInv, PanelTypes
<1>2. PanelTypes'
  BY DEF PanelInv, PanelTypes
<1>4. OwnAnswers'
  BY <1>1 DEF PanelInv, OwnAnswers
<1>5. WantedIsCurrent'
  BY <1>1 DEF PanelInv, WantedIsCurrent
<1>6. ShownMatchesInputs' /\ ShownLabelled'
  BY DEF PanelInv, ShownMatchesInputs, ShownLabelled, OnDisplay
<1>7. QED
  BY <1>2, <1>4, <1>5, <1>6 DEF PanelInv

LEMMA TimerKeeps ==
  ASSUME PanelInv, NEW n \in DOMAIN reqs, TimerFires(n)
  PROVE  PanelInv'
<1>1. reqs \in Seq(Requests) /\ reqs[n] \in Requests
  BY DEF PanelInv, PanelTypes
<1>2. /\ reqs' = [reqs EXCEPT ![n] = [reqs[n] EXCEPT !.phase = "out"]]
      /\ reqs[n].phase = "timer" /\ UNCHANGED <<service, inputs, shown>>
  BY DEF TimerFires
<1>3. [reqs[n] EXCEPT !.phase = "out"] \in Requests
  BY <1>1 DEF Requests
<1>4. reqs' \in Seq(Requests) /\ Len(reqs') = Len(reqs)
  BY <1>1, <1>2, <1>3
<1>5. ServiceTypes'
  BY <1>2, ServiceKeeps DEF PanelInv
<1>6. ASSUME NEW m \in DOMAIN reqs
      PROVE  /\ reqs'[m].in = reqs[m].in /\ reqs'[m].aborted = reqs[m].aborted
             /\ \/ reqs'[m].phase = reqs[m].phase
                \/ reqs[m].phase = "timer" /\ reqs'[m].phase = "out"
             /\ reqs'[m].fetches = reqs[m].fetches
  BY <1>1, <1>2 DEF Requests
<1>7. QED
  BY <1>2, <1>4, <1>5, <1>6, RequestChanges

\* A fetch of request n becomes f.
LEMMA FetchKeeps ==
  ASSUME PanelInv, NEW n \in DOMAIN reqs, NEW h \in HopLimits, NEW f \in Fetches,
         reqs' = [reqs EXCEPT ![n].fetches[h] = f],
         UNCHANGED <<service, inputs, shown>>,
         Own(f.answer, reqs[n].in, h)
  PROVE  PanelInv'
<1>1. reqs \in Seq(Requests) /\ reqs[n] \in Requests
  BY DEF PanelInv, PanelTypes
<1> DEFINE g == [reqs[n].fetches EXCEPT ![h] = f]
           r == [reqs[n] EXCEPT !.fetches = g]
<1>2. reqs' = [reqs EXCEPT ![n] = r]
  OBVIOUS
<1>3. g \in [HopLimits -> Fetches]
  BY <1>1 DEF Requests
<1>4. r \in Requests /\ r.in = reqs[n].in /\ r.aborted = reqs[n].aborted
      /\ r.phase = reqs[n].phase /\ r.fetches = g
  BY <1>1, <1>3 DEF Requests
<1> HIDE DEF r
<1>5. reqs' \in Seq(Requests) /\ Len(reqs') = Len(reqs)
  BY <1>1, <1>2, <1>4
<1>6. ServiceTypes'
  BY ServiceKeeps DEF PanelInv
<1>7. ASSUME NEW m \in DOMAIN reqs
      PROVE  /\ reqs'[m].in = reqs[m].in /\ reqs'[m].aborted = reqs[m].aborted
             /\ reqs'[m].phase = reqs[m].phase
             /\ \A k \in HopLimits :
                   \/ reqs'[m].fetches[k].answer = reqs[m].fetches[k].answer
                   \/ Own(reqs'[m].fetches[k].answer, reqs[m].in, k)
  <2>1. CASE m # n
    BY <1>1, <1>2, <2>1
  <2>2. CASE m = n
    <3>1. reqs'[m] = r
      BY <1>1, <1>2, <2>2
    <3>2. ASSUME NEW k \in HopLimits
          PROVE  g[k] = IF k = h THEN f ELSE reqs[n].fetches[k]
      BY <1>1 DEF Requests
    <3>3. QED
      BY <1>4, <2>2, <3>1, <3>2
  <2>3. QED
    BY <2>1, <2>2
<1>8. QED
  BY <1>5, <1>6, <1>7, RequestChanges

LEMMA SettledTypes ==
  ASSUME NEW a \in Answers
  PROVE  Settled(a) \in Fetches /\ Settled(a).answer = a
BY NoSnapshotIsOne DEF Settled, Fetches

LEMMA ErrorIsOwn ==
  ASSUME NEW s \in Nat, s # 200, NEW i, NEW h
  PROVE  Error(s) \in Answers /\ Own(Error(s), i, h)
BY ErrorsAreLabelled DEF Own

\* The handler refuses, searches or answers, or the fetch fails.
LEMMA HandlerKeeps ==
  ASSUME PanelInv, NEW n \in DOMAIN reqs, NEW h \in HopLimits,
         Admit(n, h) \/ Respond(n, h) \/ Unreachable(n, h)
  PROVE  PanelInv'
<1>1. UNCHANGED <<service, inputs, shown>>
  BY DEF Admit, Respond, Unreachable
<1>2. reqs[n].in \in Inputs /\ reqs[n].fetches[h] \in Fetches
  <2>1. reqs[n] \in Requests
    BY DEF PanelInv, PanelTypes
  <2>2. QED
    BY <2>1 DEF Requests
<1>3. ASSUME NEW a \in Answers, Settle(n, h, a), Own(a, reqs[n].in, h) PROVE PanelInv'
  BY <1>1, <1>3, SettledTypes, FetchKeeps DEF Settle
<1>4. CASE Unreachable(n, h)
  BY <1>3, <1>4, ErrorIsOwn DEF Unreachable
<1>5. CASE Respond(n, h)
  <2>1. reqs[n].fetches[h].snap \in Snapshots
    BY <1>2 DEF Fetches
  <2> DEFINE a == HandleQuote(reqs[n].fetches[h].snap, reqs[n].in, h)
  <2>2. a \in Answers /\ Own(a, reqs[n].in, h)
    BY <1>2, <2>1, HandleQuoteAnswers DEF Own
  <2>3. Settle(n, h, a)
    BY <1>5 DEF Respond
  <2> HIDE DEF a
  <2>4. QED
    BY <1>3, <2>2, <2>3
<1>6. CASE Admit(n, h)
  <2> DEFINE refusal == Refusal(snap, reqs[n].in)
  <2>1. refusal \in {<<503>>, <<400>>, <<>>}
    BY DEF Refusal
  <2>2. CASE refusal # <<>>
    <3>1. Settle(n, h, Error(refusal[1])) /\ refusal[1] \in {503, 400}
      BY <1>6, <2>1, <2>2 DEF Admit
    <3>2. QED
      BY <1>3, <3>1, ErrorIsOwn
  <2>3. CASE refusal = <<>>
    <3>1. reqs' = [reqs EXCEPT ![n].fetches[h] = Searching(snap)]
      BY <1>6, <2>3 DEF Admit
    <3>2. Searching(snap) \in Fetches /\ Searching(snap).answer = Nothing
      BY NothingIsLabelled DEF PanelInv, ServiceTypes, Searching, Fetches
    <3>3. Own(Nothing, reqs[n].in, h)
      BY NothingIsLabelled DEF Own
    <3>4. QED
      BY <1>1, <3>1, <3>2, <3>3, FetchKeeps
  <2>4. QED
    BY <2>2, <2>3
<1>7. QED
  BY <1>4, <1>5, <1>6

LEMMA DieKeeps == ASSUME PanelInv, Die PROVE PanelInv'
<1> DEFINE Dead(n) == [h \in HopLimits |-> IF Fetching(n, h, "search") THEN Settled(Error(0))
                                                                     ELSE reqs[n].fetches[h]]
           r(n) == [reqs[n] EXCEPT !.fetches = Dead(n)]
<1>1. reqs' = [n \in DOMAIN reqs |-> r(n)] /\ UNCHANGED <<inputs, shown>>
  BY DEF Die
<1>2. ServiceTypes'
  BY ServiceKeeps DEF Die, PanelInv
<1>3. ASSUME NEW n \in DOMAIN reqs
      PROVE  /\ r(n) \in Requests /\ r(n).in = reqs[n].in /\ r(n).aborted = reqs[n].aborted
             /\ r(n).phase = reqs[n].phase
             /\ \A h \in HopLimits :
                   \/ r(n).fetches[h].answer = reqs[n].fetches[h].answer
                   \/ Own(r(n).fetches[h].answer, reqs[n].in, h)
  <2>1. reqs[n] \in Requests
    BY DEF PanelInv, PanelTypes
  <2>2. Error(0) \in Answers /\ \A h \in HopLimits : Own(Error(0), reqs[n].in, h)
    BY ErrorIsOwn
  <2>3. Dead(n) \in [HopLimits -> Fetches]
    BY <2>1, <2>2, SettledTypes DEF Requests
  <2>4. \A h \in HopLimits : \/ Dead(n)[h].answer = reqs[n].fetches[h].answer
                              \/ Own(Dead(n)[h].answer, reqs[n].in, h)
    BY <2>2, SettledTypes
  <2> HIDE DEF Dead
  <2>5. /\ r(n) \in Requests /\ r(n).in = reqs[n].in /\ r(n).aborted = reqs[n].aborted
        /\ r(n).phase = reqs[n].phase /\ r(n).fetches = Dead(n)
    BY <2>1, <2>3 DEF Requests
  <2>6. QED
    BY <2>4, <2>5
<1> HIDE DEF r
<1>4. reqs' \in Seq(Requests) /\ Len(reqs') = Len(reqs)
  <2>1. DOMAIN reqs = 1..Len(reqs) /\ Len(reqs) \in Nat
    BY DEF PanelInv, PanelTypes
  <2>2. QED
    BY <1>1, <1>3, <2>1
<1>5. \A n \in DOMAIN reqs : reqs'[n] = r(n)
  BY <1>1
<1>6. QED
  BY <1>1, <1>2, <1>3, <1>4, <1>5, RequestChanges

----------------------------------------------------------------------------
(* The display.                                                            *)

\* The answers are taken out of a request that is over.
LEMMA OverKeeps ==
  ASSUME PanelInv, NEW n \in DOMAIN reqs, Over(n)
  PROVE  /\ reqs' \in Seq(Requests) /\ Len(reqs') = Len(reqs)
         /\ \A m \in DOMAIN reqs :
              /\ reqs'[m].in = reqs[m].in /\ reqs'[m].aborted = reqs[m].aborted
              /\ reqs'[m].phase = reqs[m].phase \/ reqs'[m].phase = "over"
              /\ \A h \in HopLimits :
                   \/ reqs'[m].fetches[h].answer = reqs[m].fetches[h].answer
                   \/ Own(reqs'[m].fetches[h].answer, reqs[m].in, h)
<1> DEFINE g == [h \in HopLimits |-> Asked]
           r == [reqs[n] EXCEPT !.phase = "over", !.fetches = g]
<1>1. reqs \in Seq(Requests) /\ reqs[n] \in Requests
  BY DEF PanelInv, PanelTypes
<1>2. reqs' = [reqs EXCEPT ![n] = r]
  BY <1>1 DEF Over, Requests
<1>3. Asked \in Fetches /\ Asked.answer = Nothing
  BY NoSnapshotIsOne, NothingIsLabelled DEF Asked, Fetches
<1>4. g \in [HopLimits -> Fetches] /\ \A h \in HopLimits : g[h].answer = Nothing
  BY <1>3
<1> HIDE DEF g
<1>5. /\ r \in Requests /\ r.in = reqs[n].in /\ r.aborted = reqs[n].aborted
      /\ r.phase = "over" /\ r.fetches = g
  BY <1>1, <1>4 DEF Requests
<1>6. \A h \in HopLimits : Own(Nothing, reqs[n].in, h)
  BY NothingIsLabelled DEF Own
<1> HIDE DEF r
<1>7. QED
  BY <1>1, <1>2, <1>4, <1>5, <1>6

\* What is shown of a request's own answers is right for its inputs.
LEMMA DisplayIsRight ==
  ASSUME PanelInv, NEW n \in DOMAIN reqs, reqs[n].in = inputs
  PROVE  LET d == Display(n)
         IN  /\ d \in Panels
             /\ Labelled(d.quote) /\ \A h \in HopLimits : Labelled(d.matrix[h])
             /\ \A q \in ({d.quote} \cup {d.matrix[h] : h \in HopLimits}) \ {Nothing} :
                  q.request = inputs
             /\ \A h \in HopLimits : d.matrix[h] # Nothing => d.matrix[h].hops = h
             /\ d.quote # Nothing => d.quote = d.matrix[inputs.hops]
<1> DEFINE pick(h) == IF Fulfilled(reqs[n].fetches[h].answer) THEN reqs[n].fetches[h].answer
                                                              ELSE Nothing
           matrix == [h \in HopLimits |-> pick(h)]
           d == Display(n)
<1>1. reqs[n] \in Requests /\ inputs \in Inputs /\ inputs.hops \in HopLimits
  BY UseQuoteAssumption DEF PanelInv, PanelTypes
<1>2. ASSUME NEW h \in HopLimits
      PROVE  /\ pick(h) \in Answers /\ Labelled(pick(h))
             /\ pick(h) # Nothing => pick(h).request = inputs /\ pick(h).hops = h
  <2>1. Own(reqs[n].fetches[h].answer, inputs, h)
    BY DEF PanelInv, OwnAnswers
  <2>2. reqs[n].fetches[h].answer \in Answers
    BY <1>1 DEF Requests, Fetches
  <2>3. QED
    BY <2>1, <2>2, NothingIsLabelled DEF Own, Fulfilled
<1>3. PICK e \in BOOLEAN : d = [quote |-> pick(inputs.hops), loading |-> FALSE, stale |-> FALSE,
                                error |-> e, matrix |-> matrix]
  BY DEF Display, Fulfilled
<1> HIDE DEF pick
<1>4. matrix \in [HopLimits -> Answers] /\ \A h \in HopLimits : matrix[h] = pick(h)
  BY <1>2
<1> HIDE DEF matrix, d
<1>5. /\ d.quote = pick(inputs.hops) /\ d.matrix = matrix
      /\ d \in Panels
  BY <1>1, <1>2, <1>3, <1>4 DEF Panels
<1>6. QED
  BY <1>1, <1>2, <1>4, <1>5 DEF d

LEMMA ShowKeeps ==
  ASSUME PanelInv, NEW n \in DOMAIN reqs, Show(n)
  PROVE  PanelInv'
<1>1. Over(n) /\ UNCHANGED <<service, inputs>> /\ reqs[n].phase = "out"
  BY DEF Show, AllSettled
<1>2. ServiceTypes'
  BY <1>1, ServiceKeeps DEF PanelInv
<1>3. CASE n # Len(reqs) \/ reqs[n].aborted
  <2>1. UNCHANGED shown
    BY <1>3 DEF Show
  <2>2. QED
    BY <1>1, <1>2, <2>1, OverKeeps, RequestChanges
<1>4. CASE n = Len(reqs) /\ ~reqs[n].aborted
  <2>1. reqs[n].in = inputs
    BY <1>1, <1>4 DEF PanelInv, WantedIsCurrent
  <2>2. shown' = Display(n)
    BY <1>4 DEF Show
  <2>3. DOMAIN reqs' = DOMAIN reqs
    BY <1>1, OverKeeps DEF PanelInv, PanelTypes
  <2>4. PanelTypes'
    BY <1>1, <2>1, <2>2, OverKeeps, DisplayIsRight DEF PanelInv, PanelTypes
  <2>5. OwnAnswers' /\ WantedIsCurrent'
    BY <1>1, <2>3, OverKeeps DEF PanelInv, OwnAnswers, WantedIsCurrent
  <2>6. ShownMatchesInputs' /\ ShownLabelled'
    BY <1>1, <2>1, <2>2, DisplayIsRight DEF ShownMatchesInputs, ShownLabelled, OnDisplay
  <2>7. QED
    BY <1>2, <2>4, <2>5, <2>6 DEF PanelInv
<1>5. QED
  BY <1>3, <1>4

----------------------------------------------------------------------------
(* Edits.                                                                  *)

\* Nothing that was asked before is wanted any more.
LEMMA AbortEnds ==
  ASSUME NEW r \in Requests
  PROVE  /\ Abort(r) \in Requests /\ Abort(r).in = r.in
         /\ ~(Abort(r).phase = "timer" \/ (Abort(r).phase = "out" /\ ~Abort(r).aborted))
         /\ \A h \in HopLimits : Abort(r).fetches[h].answer \in {r.fetches[h].answer, Nothing}
<1>1. CASE r.phase = "timer"
  BY <1>1 DEF Abort, Requests
<1>2. CASE r.phase = "out"
  <2> DEFINE g == [h \in HopLimits |-> IF r.fetches[h].at = "settled" THEN r.fetches[h]
                                                                     ELSE Settled(Nothing)]
  <2>1. g \in [HopLimits -> Fetches]
    BY NothingIsLabelled, SettledTypes DEF Requests
  <2>2. \A h \in HopLimits : g[h].answer \in {r.fetches[h].answer, Nothing}
    BY NothingIsLabelled, SettledTypes
  <2>3. Abort(r) = [r EXCEPT !.aborted = TRUE, !.fetches = g]
    BY <1>2 DEF Abort
  <2> HIDE DEF g
  <2>4. /\ Abort(r) \in Requests /\ Abort(r).in = r.in
        /\ Abort(r).aborted = TRUE /\ Abort(r).phase = "out" /\ Abort(r).fetches = g
    BY <1>2, <2>1, <2>3 DEF Requests
  <2>5. QED
    BY <2>2, <2>4
<1>3. CASE r.phase = "over"
  BY <1>3 DEF Abort, Requests
<1>4. QED
  BY <1>1, <1>2, <1>3 DEF Requests

LEMMA CleanedKeeps ==
  ASSUME PanelInv
  PROVE  /\ Cleaned \in Seq(Requests) /\ Len(Cleaned) = Len(reqs)
         /\ \A n \in DOMAIN reqs :
              /\ \A h \in HopLimits : Own(Cleaned[n].fetches[h].answer, Cleaned[n].in, h)
              /\ n = Len(reqs) =>
                   ~(Cleaned[n].phase = "timer" \/ (Cleaned[n].phase = "out" /\ ~Cleaned[n].aborted))
<1>1. reqs \in Seq(Requests) /\ DOMAIN reqs = 1..Len(reqs) /\ Len(reqs) \in Nat
  BY DEF PanelInv, PanelTypes
<1>2. /\ DOMAIN Cleaned = 1..Len(reqs)
      /\ \A n \in DOMAIN reqs :
           Cleaned[n] = IF n = Len(reqs) THEN Abort(reqs[n]) ELSE reqs[n]
  BY <1>1 DEF Cleaned
<1>3. \A n \in DOMAIN reqs : Cleaned[n] \in Requests
  BY <1>1, <1>2, AbortEnds
<1>4. Cleaned \in Seq(Requests) /\ Len(Cleaned) = Len(reqs)
  <2>1. Cleaned = [n \in 1..Len(reqs) |-> Cleaned[n]]
    BY <1>1 DEF Cleaned
  <2>2. QED
    BY <1>1, <1>3, <2>1
<1>5. ASSUME NEW n \in DOMAIN reqs, NEW h \in HopLimits
      PROVE  Own(Cleaned[n].fetches[h].answer, Cleaned[n].in, h)
  <2>1. Own(reqs[n].fetches[h].answer, reqs[n].in, h) /\ Own(Nothing, reqs[n].in, h)
    BY NothingIsLabelled DEF PanelInv, OwnAnswers, Own
  <2>2. /\ Cleaned[n].in = reqs[n].in
        /\ Cleaned[n].fetches[h].answer \in {reqs[n].fetches[h].answer, Nothing}
    BY <1>1, <1>2, AbortEnds
  <2>3. QED
    BY <2>1, <2>2
<1>6. QED
  BY <1>1, <1>2, <1>4, <1>5, AbortEnds

LEMMA EditKeeps ==
  ASSUME PanelInv, NEW i \in Inputs, Edit(i)
  PROVE  PanelInv'
<1>1. inputs' = i /\ UNCHANGED service
  BY DEF Edit
<1>2. ServiceTypes'
  BY <1>1, ServiceKeeps DEF PanelInv
<1>3. DOMAIN reqs = 1..Len(reqs) /\ Len(reqs) \in Nat
  BY DEF PanelInv, PanelTypes
<1>4. CASE Unasked(i)
  <2>1. reqs' = Cleaned /\ shown' = [Blank EXCEPT !.error = ~Empty(i)]
    BY <1>4 DEF Edit
  <2>2. PICK e \in BOOLEAN : shown' = [quote |-> Nothing, loading |-> FALSE, stale |-> FALSE,
                                       error |-> e, matrix |-> EmptyMatrix]
    BY <2>1 DEF Blank
  <2>3. /\ EmptyMatrix \in [HopLimits -> Answers]
        /\ \A h \in HopLimits : EmptyMatrix[h] = Nothing
    BY NothingIsLabelled DEF EmptyMatrix
  <2>4. shown' \in Panels /\ shown'.quote = Nothing /\ shown'.matrix = EmptyMatrix
    BY <2>2, <2>3, NothingIsLabelled DEF Panels
  <2>5. PanelTypes'
    BY <1>1, <2>1, <2>4, CleanedKeeps DEF PanelTypes
  <2>6. OwnAnswers' /\ WantedIsCurrent'
    BY <1>3, <2>1, CleanedKeeps DEF OwnAnswers, WantedIsCurrent
  <2>7. ShownMatchesInputs' /\ ShownLabelled'
    BY <2>3, <2>4, NothingIsLabelled DEF ShownMatchesInputs, ShownLabelled, OnDisplay
  <2>8. QED
    BY <1>2, <2>5, <2>6, <2>7 DEF PanelInv
<1>5. CASE ~Unasked(i)
  <2>1. /\ reqs' = Append(Cleaned, NewRequest(i))
        /\ shown' = [shown EXCEPT !.loading = TRUE, !.stale = (shown.quote # Nothing)]
    BY <1>5 DEF Edit
  <2>2. /\ shown' \in Panels /\ shown'.loading = TRUE
        /\ shown'.quote = shown.quote /\ shown'.matrix = shown.matrix
    <3>1. shown \in Panels
      BY DEF PanelInv, PanelTypes
    <3>2. PICK e \in BOOLEAN : shown' = [shown EXCEPT !.loading = TRUE, !.stale = e]
      BY <2>1
    <3>3. QED
      BY <3>1, <3>2 DEF Panels
  <2>3. /\ reqs' \in Seq(Requests) /\ Len(reqs') = Len(reqs) + 1
        /\ DOMAIN reqs' = 1..(Len(reqs) + 1)
        /\ \A n \in DOMAIN reqs : reqs'[n] = Cleaned[n]
        /\ reqs'[Len(reqs) + 1] = NewRequest(i)
    BY <1>3, <2>1, CleanedKeeps, NewRequestTypes
  <2>4. PanelTypes'
    BY <1>1, <2>2, <2>3 DEF PanelTypes
  <2>5. \A h \in HopLimits : Own(NewRequest(i).fetches[h].answer, NewRequest(i).in, h)
    BY NewRequestTypes, NothingIsLabelled DEF Own
  <2>6. OwnAnswers'
    BY <1>3, <2>3, <2>5, CleanedKeeps DEF OwnAnswers
  <2>7. WantedIsCurrent'
    BY <1>1, <1>3, <2>3, NewRequestTypes DEF WantedIsCurrent
  <2>8. ShownMatchesInputs' /\ ShownLabelled'
    BY <2>2 DEF PanelInv, ShownMatchesInputs, ShownLabelled
  <2>9. QED
    BY <1>2, <2>4, <2>6, <2>7, <2>8 DEF PanelInv
<1>6. QED
  BY <1>4, <1>5

----------------------------------------------------------------------------
(* The theorems.                                                           *)

\* Whatever is typed, refreshed, lost or restarted, the invariant of the panel holds.
THEOREM PanelInvariant == QuoteSpec => []PanelInv
<1>1. PanelInv /\ [QuoteNext]_quoteVars => PanelInv'
  <2> SUFFICES ASSUME PanelInv, [QuoteNext]_quoteVars PROVE PanelInv'
    OBVIOUS
  <2>1. ASSUME UNCHANGED <<inputs, shown, reqs>>, ServiceTypes' PROVE PanelInv'
    BY <2>1, RequestChanges DEF PanelInv, PanelTypes
  <2>2. CASE ServiceNext /\ UNCHANGED <<inputs, shown, reqs, edits>>
    BY <2>1, <2>2, ServiceKeeps DEF PanelInv
  <2>3. ASSUME NEW i \in Inputs, Edit(i) PROVE PanelInv'
    BY <2>3, EditKeeps
  <2>4. CASE Flow
    BY <2>4, TimerKeeps, ShowKeeps, HandlerKeeps DEF Flow
  <2>5. CASE Die
    BY <2>5, DieKeeps
  <2>6. CASE UNCHANGED quoteVars
    BY <2>1, <2>6, ServiceKeeps DEF quoteVars, PanelInv
  <2>7. QED
    BY <2>2, <2>3, <2>4, <2>5, <2>6 DEF QuoteNext
<1>2. QED
  BY <1>1, InitPanel, PTL DEF QuoteSpec

\* No late answer comes through: unless it says that it is loading, the panel shows
\* answers to the inputs as they are, each in the row of its hop limit
\* (useQuote.ts:105-151), for any inputs and any number of edits and restarts.
THEOREM PanelMatchesInputs == QuoteSpec => []ShownMatchesInputs
<1>1. PanelInv => ShownMatchesInputs
  BY DEF PanelInv
<1>2. QED
  BY <1>1, PanelInvariant, PTL

\* Demo data is never mistaken for live data (quote.go:55-57, cache/store.go:130-214),
\* for any pools, whatever instances share the store.
THEOREM DemoDataAlwaysLabelled == QuoteSpec => []DemoDataIsLabelled
<1>1. PanelInv => DemoDataIsLabelled
  BY DEF PanelInv, ShownLabelled, Labelled, DemoDataIsLabelled, OnDisplay, SimulatedAddresses
<1>2. QED
  BY <1>1, PanelInvariant, PTL
=============================================================================
