-------------------------------- MODULE Web --------------------------------
(***************************************************************************)
(* The two hooks of the page that follow the service by themselves:        *)
(* useStatus, which polls /api/v1/status, and usePriceStream, which keeps  *)
(* a websocket to /ws/prices and a series of points of its ticks.  Their   *)
(* effects run together, may be cleaned up and run again (StrictMode does  *)
(* so on every load), and every run has closures of its own.               *)
(*                                                                         *)
(* The service goes down and comes back at will.  A delay is a timer that  *)
(* fires at some time; series is that of one pair, and a point is kept     *)
(* without its price.                                                      *)
(***************************************************************************)
EXTENDS Integers, Sequences, FiniteSets

CONSTANTS MaxPoints,     \* MAX_POINTS
          SeedPoints,    \* SEED_POINTS
          SeedInterval,  \* SEED_INTERVAL
          AttemptCap,    \* attempts after which the delay of a retry grows no more
          Slots,         \* bound: polls under way at once
          Times,         \* bound: the timestamps of ticks
          MaxVersion,    \* bound: states of the service worth telling apart
          MaxRuns        \* bound: runs of the effects

ASSUME WebAssumption ==
  /\ MaxPoints \in Nat /\ SeedPoints \in Nat /\ SeedPoints < MaxPoints
  /\ SeedInterval \in Nat \ {0} /\ AttemptCap \in Nat \ {0}
  /\ Times \subseteq Int /\ MaxVersion \in Nat /\ MaxRuns \in Nat

VARIABLES up,        \* the service can be reached
          version,   \* what its status says
          mounted,   \* the effects have run and are not cleaned up
          run,       \* the number of their last run
          polls,     \* the fetches of useStatus
          reading,   \* StatusState; 0: no status yet
          socket,    \* the websocket of each run
          retryTimer,\* the runs with a timer set
          attempt,   \* of the last run
          status,    \* StreamStatus
          series

backend == <<up, version>>
effects == <<mounted, run>>
useStatus == <<polls, reading>>
usePriceStream == <<socket, retryTimer, attempt, status, series>>
vars == <<backend, effects, useStatus, usePriceStream>>

Idle == [at |-> "idle", answer |-> 0]
Sent == [at |-> "sent", answer |-> 0]

Init == /\ up \in BOOLEAN /\ version = 1
        /\ mounted = FALSE /\ run = 0
        /\ polls = [s \in Slots |-> Idle]
        /\ reading = [status |-> 0, error |-> FALSE]
        /\ socket = [r \in 1..MaxRuns |-> "none"]
        /\ retryTimer = {} /\ attempt = 0
        /\ status = "connecting" /\ series = <<>>

----------------------------------------------------------------------------
(* The service.                                                            *)

Changes == /\ up /\ version < MaxVersion
           /\ version' = version + 1
           /\ UNCHANGED <<up, effects, useStatus, usePriceStream>>

GoesDown == up /\ up' = FALSE /\ UNCHANGED <<version, effects, useStatus, usePriceStream>>

ComesUp == ~up /\ up' = TRUE /\ UNCHANGED <<version, effects, useStatus, usePriceStream>>

----------------------------------------------------------------------------
(* The effects and their cleanups.                                         *)

Disposed(r) == ~mounted \/ r # run

\* Both effects run: a first poll, and connect.
Mount == /\ ~mounted /\ run < MaxRuns
         /\ mounted' = TRUE /\ run' = run + 1
         /\ \E s \in Slots : polls' = [polls EXCEPT ![s] = Sent]
         /\ socket' = [socket EXCEPT ![run + 1] = "connecting"]
         /\ attempt' = 0 /\ status' = "connecting"
         /\ UNCHANGED <<backend, reading, retryTimer, series>>

Close(r) == socket' = [socket EXCEPT ![r] = IF @ = "none" THEN @ ELSE "closing"]

\* Mutant: only the timer is cleared.
CloseStreamTimer == /\ retryTimer' = retryTimer \ {run}
                    /\ status' = "closed"
                    /\ UNCHANGED <<socket, attempt, series>>

\* The cleanup of usePriceStream.
CloseStream == /\ retryTimer' = retryTimer \ {run}
               /\ Close(run)
               /\ status' = "closed"
               /\ UNCHANGED <<attempt, series>>

\* The cleanup of useStatus aborts its fetches, whose rejections it ignores.
Unmount == /\ mounted
           /\ mounted' = FALSE
           /\ polls' = [s \in Slots |-> Idle]
           /\ CloseStream
           /\ UNCHANGED <<backend, run, reading>>

----------------------------------------------------------------------------
(* useStatus.  The interval does not wait for the polls before.            *)

\* Mutant: no more polls after one has failed.
PollUnlessFailed(s) == /\ mounted /\ polls[s] = Idle /\ ~reading.error
                       /\ polls' = [polls EXCEPT ![s] = Sent]
                       /\ UNCHANGED <<backend, effects, reading, usePriceStream>>

Poll(s) == /\ mounted /\ polls[s] = Idle
           /\ polls' = [polls EXCEPT ![s] = Sent]
           /\ UNCHANGED <<backend, effects, reading, usePriceStream>>

\* handleStatus, which always answers 200.
Answer(s) == /\ polls[s] = Sent /\ up
             /\ polls' = [polls EXCEPT ![s] = [at |-> "answered", answer |-> version]]
             /\ UNCHANGED <<backend, effects, reading, usePriceStream>>

PollSucceeds(s) == /\ polls[s].at = "answered"
                   /\ polls' = [polls EXCEPT ![s] = Idle]
                   /\ reading' = [status |-> polls[s].answer, error |-> FALSE]
                   /\ UNCHANGED <<backend, effects, usePriceStream>>

\* The reading before is kept.
PollFails(s) == /\ polls[s] # Idle /\ ~up
                /\ polls' = [polls EXCEPT ![s] = Idle]
                /\ reading' = [reading EXCEPT !.error = TRUE]
                /\ UNCHANGED <<backend, effects, usePriceStream>>

----------------------------------------------------------------------------
(* usePriceStream.                                                         *)

\* onopen.
Opens(r) == /\ socket[r] = "connecting" /\ up
            /\ socket' = [socket EXCEPT ![r] = "open"]
            /\ attempt' = 0 /\ status' = "open"
            /\ UNCHANGED <<backend, effects, useStatus, retryTimer, series>>

Point(t, live) == [time |-> t, live |-> live]

SeedHistory(t) == [i \in 1..SeedPoints |->
                     Point(t - (SeedPoints + 1 - i) * SeedInterval, FALSE)]

LastN(seq, n) == IF Len(seq) > n THEN SubSeq(seq, Len(seq) - n + 1, Len(seq)) ELSE seq

\* Mutant: a tick of the same second is a point of its own.
IngestSameSecond(seq, t) ==
  CASE seq = <<>> -> Append(SeedHistory(t), Point(t, TRUE))
    [] seq # <<>> /\ t < seq[Len(seq)].time ->
         [seq EXCEPT ![Len(seq)] = Point(seq[Len(seq)].time, TRUE)]
    [] OTHER -> LastN(Append(seq, Point(t, TRUE)), MaxPoints)

\* ingest, of a tick whose price can be read.
Ingest(seq, t) ==
  CASE seq = <<>> -> Append(SeedHistory(t), Point(t, TRUE))
    [] seq # <<>> /\ t <= seq[Len(seq)].time ->
         [seq EXCEPT ![Len(seq)] = Point(seq[Len(seq)].time, TRUE)]
    [] OTHER -> LastN(Append(seq, Point(t, TRUE)), MaxPoints)

\* onmessage; a service that was replaced, or whose clock was set, may go back in time.
Message(r) == /\ socket[r] = "open" /\ up
              /\ \E t \in Times : series' = Ingest(series, t)
              /\ UNCHANGED <<backend, effects, useStatus, socket, retryTimer, attempt, status>>

\* The connection cannot be made, in which case onerror closes it, or it breaks, or
\* the hub ends it.
Breaks(r) == /\ socket[r] = "open" \/ (socket[r] = "connecting" /\ ~up)
             /\ Close(r)
             /\ UNCHANGED <<backend, effects, useStatus, retryTimer, attempt, status, series>>

\* Mutant: the hook gives up.
RetryGivesUp(r) == /\ status' = "retrying"
                   /\ attempt' = IF attempt < AttemptCap THEN attempt + 1 ELSE attempt
                   /\ retryTimer' = IF attempt < AttemptCap THEN retryTimer \cup {r}
                                                            ELSE retryTimer

\* The rest of onclose.
Retry(r) == /\ status' = "retrying"
            /\ attempt' = IF attempt < AttemptCap THEN attempt + 1 ELSE attempt
            /\ retryTimer' = retryTimer \cup {r}

\* onclose, which the cleanup has taken off a socket of a disposed run.
Closes(r) == /\ socket[r] = "closing"
             /\ socket' = [socket EXCEPT ![r] = "none"]
             /\ IF Disposed(r) THEN UNCHANGED <<retryTimer, attempt, status>> ELSE Retry(r)
             /\ UNCHANGED <<backend, effects, useStatus, series>>

\* connect, from the timer.
Connect(r) == /\ r \in retryTimer
              /\ retryTimer' = retryTimer \ {r}
              /\ IF Disposed(r) THEN UNCHANGED <<socket, status>>
                 ELSE /\ socket' = [socket EXCEPT ![r] = "connecting"]
                      /\ status' = IF attempt = 0 THEN "connecting" ELSE "retrying"
              /\ UNCHANGED <<backend, effects, useStatus, attempt, series>>

----------------------------------------------------------------------------
Runs == 1..MaxRuns

PollSettles(s) == Answer(s) \/ PollSucceeds(s) \/ PollFails(s)

Next == \/ Changes \/ GoesDown \/ ComesUp
        \/ Mount \/ Unmount
        \/ \E s \in Slots : Poll(s) \/ PollSettles(s)
        \/ \E r \in Runs : Opens(r) \/ Message(r) \/ Breaks(r) \/ Closes(r) \/ Connect(r)

\* The interval goes on, and the browser ends fetches and handshakes, tells of closed
\* connections, and fires timers.  Nothing is assumed of the service.
Fairness == /\ WF_vars(\E s \in Slots : Poll(s))
            /\ \A s \in Slots : WF_vars(PollSettles(s))
            /\ \A r \in Runs : WF_vars(Opens(r) \/ Closes(r) \/ Connect(r))

Spec == Init /\ [][Next]_vars /\ Fairness

----------------------------------------------------------------------------
(* Properties.                                                             *)

\* Exactly one thing keeps a stream going (usePriceStream.ts:159-165): a socket or the
\* timer of a retry, never both, and what the page says of it is true; a run that was
\* cleaned up (usePriceStream.ts:170-178) has at most a socket that is closing.
OneLifeline ==
  \A r \in Runs :
    IF Disposed(r) THEN socket[r] \in {"none", "closing"} /\ r \notin retryTimer
    ELSE /\ (socket[r] = "none") <=> (r \in retryTimer)
         /\ status = "open" => socket[r] \in {"open", "closing"}
         /\ socket[r] = "open" => status = "open"

\* The chart is never fed a backwards series (usePriceStream.ts:117-129): times go up
\* strictly, whatever the clock of the service does, the seeded points are before all
\* others, the newest is a real one, and no more than MAX_POINTS are kept.
SeriesAdvances ==
  /\ Len(series) <= MaxPoints
  /\ \A i, j \in DOMAIN series :
       i < j => series[i].time < series[j].time /\ (series[i].live => series[j].live)
  /\ series # <<>> => series[Len(series)].live

\* A restart of the service does not leave a dead chart (usePriceStream.ts:77-79):
\* once it stays up, the stream is open again, and again whenever it is cut off.
StreamReconnects == <>[](up /\ mounted) => []<>(status = "open")

\* Polls overlap and may arrive in any order (useStatus.ts:29-43), so that an old
\* reading can replace a newer one, but not for good: once the service stays up, the
\* header comes to show what it says now, and no error.
StatusSettles ==
  <>[](up /\ mounted) => <>[](reading = [status |-> version, error |-> FALSE])
=============================================================================
