------------------------------ MODULE UseQuote ------------------------------
(***************************************************************************)
(* The quote panel (web/src/hooks/useQuote.ts) against the service.  Every *)
(* edit of the inputs runs the effect: the request before is aborted, and  *)
(* unless there is nothing to ask, a timer starts; when it fires, one      *)
(* request goes out for every hop limit, and when all of them are settled  *)
(* their answers are shown, if they are still wanted.                      *)
(***************************************************************************)
EXTENDS Service

CONSTANTS HopLimits,
          Opening,   \* what the page opens with (App.tsx)
          Inputs,    \* bound: what can be entered
          MaxEdits   \* bound: edits

ASSUME UseQuoteAssumption == /\ Opening \in Inputs /\ MaxEdits \in Nat
                             /\ \A i \in Inputs : i.hops \in HopLimits

\* A route is found over the pools of its snapshot (see Router).
ASSUME RouteAssumption ==
  \A P \in SUBSET KnownPools : \A i \in Inputs : \A h \in HopLimits :
    Route(P, i.pair, h) \subseteq {p.address : p \in P}

VARIABLES inputs,
          shown,  \* QuoteState
          reqs,   \* the runs of the effect that made a request; the last one's number
                  \* is requestId.current
          edits

quoteVars == <<service, inputs, shown, reqs, edits>>

Nothing == Error(0)

EmptyMatrix == [h \in HopLimits |-> Nothing]

Blank == [quote |-> Nothing, loading |-> FALSE, stale |-> FALSE, error |-> FALSE,
          matrix |-> EmptyMatrix]

\* The amount is empty or zero, or both sides are the same token: no request.
Empty(i) == i.amount.num = 0
Unasked(i) == Empty(i) \/ i.pair[1] = i.pair[2]

\* A fetch: sent, with a handler that holds a snapshot, or settled with an answer.
Asked == [at |-> "sent", snap |-> NoSnapshot, answer |-> Nothing]
Searching(s) == [at |-> "search", snap |-> s, answer |-> Nothing]
Settled(a) == [at |-> "settled", snap |-> NoSnapshot, answer |-> a]

NewRequest(i) == [in |-> i, phase |-> "timer", aborted |-> FALSE,
                  fetches |-> [h \in HopLimits |-> Asked]]

\* The page opens with an amount in the field, and the effect has run once.
QuoteInit == /\ ServiceInit
             /\ inputs = Opening
             /\ shown = [Blank EXCEPT !.loading = TRUE]
             /\ reqs = <<NewRequest(Opening)>>
             /\ edits = 0

\* The effect's cleanup: the timer is cleared, the fetches reject.
Abort(r) ==
  CASE r.phase = "timer" -> [r EXCEPT !.phase = "over"]
    [] r.phase = "out" ->
         [r EXCEPT !.aborted = TRUE,
                   !.fetches = [h \in HopLimits |->
                      IF r.fetches[h].at = "settled" THEN r.fetches[h] ELSE Settled(Nothing)]]
    [] OTHER -> r

Cleaned == [n \in DOMAIN reqs |-> IF n = Len(reqs) THEN Abort(reqs[n]) ELSE reqs[n]]

Edit(i) ==
  /\ i # inputs /\ edits < MaxEdits
  /\ edits' = edits + 1
  /\ inputs' = i
  /\ IF Unasked(i)
       THEN /\ reqs' = Cleaned
            /\ shown' = [Blank EXCEPT !.error = ~Empty(i)]
       ELSE /\ reqs' = Append(Cleaned, NewRequest(i))
            /\ shown' = [shown EXCEPT !.loading = TRUE, !.stale = shown.quote # Nothing]
  /\ UNCHANGED service

TimerFires(n) == /\ reqs[n].phase = "timer"
                 /\ reqs' = [reqs EXCEPT ![n].phase = "out"]
                 /\ UNCHANGED <<service, inputs, shown, edits>>

----------------------------------------------------------------------------
(* The requests under way.                                                 *)

Fetching(n, h, at) == reqs[n].phase = "out" /\ reqs[n].fetches[h].at = at

Settle(n, h, answer) == reqs' = [reqs EXCEPT ![n].fetches[h] = Settled(answer)]

\* The handler loads the snapshot, and refuses or begins to search.
Admit(n, h) ==
  /\ Fetching(n, h, "sent") /\ server = "up"
  /\ LET refusal == Refusal(snap, reqs[n].in)
     IN  IF refusal # <<>> THEN Settle(n, h, Error(refusal[1]))
         ELSE reqs' = [reqs EXCEPT ![n].fetches[h] = Searching(snap)]
  /\ UNCHANGED <<service, inputs, shown, edits>>

Respond(n, h) ==
  /\ Fetching(n, h, "search")
  /\ Settle(n, h, HandleQuote(reqs[n].fetches[h].snap, reqs[n].in, h))
  /\ UNCHANGED <<service, inputs, shown, edits>>

\* The request or its answer is lost, or nobody listens.
Unreachable(n, h) ==
  /\ Fetching(n, h, "sent") \/ Fetching(n, h, "search")
  /\ Settle(n, h, Error(0))
  /\ UNCHANGED <<service, inputs, shown, edits>>

\* The instance dies, and its handlers with it.
Die == /\ Crash
       /\ reqs' = [n \in DOMAIN reqs |->
                     [reqs[n] EXCEPT !.fetches = [h \in HopLimits |->
                        IF Fetching(n, h, "search") THEN Settled(Error(0))
                                                    ELSE reqs[n].fetches[h]]]]
       /\ UNCHANGED <<inputs, shown, edits>>

AllSettled(n) == reqs[n].phase = "out" /\ \A h \in HopLimits : reqs[n].fetches[h].at = "settled"

Fulfilled(a) == a.status = 200

\* What the panel and the comparison show of the answers of request n.
Display(n) ==
  LET answer(h) == reqs[n].fetches[h].answer
      selected == answer(reqs[n].in.hops)
  IN  [quote |-> IF Fulfilled(selected) THEN selected ELSE Nothing,
       loading |-> FALSE, stale |-> FALSE, error |-> ~Fulfilled(selected),
       matrix |-> [h \in HopLimits |-> IF Fulfilled(answer(h)) THEN answer(h) ELSE Nothing]]

Over(n) == reqs' = [reqs EXCEPT ![n].phase = "over", ![n].fetches = [h \in HopLimits |-> Asked]]

\* Mutant: the answers are shown whether they are wanted or not.
ShowAlways(n) == /\ AllSettled(n)
                 /\ Over(n)
                 /\ shown' = Display(n)
                 /\ UNCHANGED <<service, inputs, edits>>

\* Mutant: the panel waits for answers that are all good.
ShowFulfilled(n) == /\ AllSettled(n)
                    /\ \A h \in HopLimits : Fulfilled(reqs[n].fetches[h].answer)
                    /\ Over(n)
                    /\ shown' = IF n # Len(reqs) \/ reqs[n].aborted THEN shown ELSE Display(n)
                    /\ UNCHANGED <<service, inputs, edits>>

\* The callback of allSettled.
Show(n) == /\ AllSettled(n)
           /\ Over(n)
           /\ shown' = IF n # Len(reqs) \/ reqs[n].aborted THEN shown ELSE Display(n)
           /\ UNCHANGED <<service, inputs, edits>>

Flow == \E n \in DOMAIN reqs :
          \/ TimerFires(n) \/ Show(n)
          \/ \E h \in HopLimits : Admit(n, h) \/ Respond(n, h) \/ Unreachable(n, h)

QuoteNext == \/ ServiceNext /\ UNCHANGED <<inputs, shown, reqs, edits>>
             \/ \E i \in Inputs : Edit(i)
             \/ Flow
             \/ Die

\* Timers fire, handlers only compute, and a browser gives up on a dead connection.
QuoteSpec == QuoteInit /\ [][QuoteNext]_quoteVars /\ WF_quoteVars(Flow)

----------------------------------------------------------------------------
(* Properties.                                                             *)

OnDisplay == ({shown.quote} \cup {shown.matrix[h] : h \in HopLimits}) \ {Nothing}

\* Unless the panel says that it is loading, what it shows answers the inputs as they
\* are (useQuote.ts:123): no answer to earlier inputs comes through, however late, and
\* the comparison has every answer in the row of its hop limit.
ShownMatchesInputs ==
  ~shown.loading => /\ \A q \in OnDisplay : q.request = inputs
                    /\ \A h \in HopLimits : shown.matrix[h] # Nothing => shown.matrix[h].hops = h
                    /\ shown.quote # Nothing => shown.quote = shown.matrix[inputs.hops]

\* quote.go:55-57, "demo data is never mistaken for live data": a quote on display is
\* labelled as simulated exactly when its route uses a pool the simulator made, also
\* when the pools came out of a shared store, and when the snapshot was replaced
\* during the search.
DemoDataIsLabelled ==
  \A q \in OnDisplay :
    q.simulated <=> q.route \cap {p.address : p \in Sourced["simulated"]} # {}

\* The panel does not stay in its loading state (useQuote.ts:105-151): whatever fails,
\* every request ends in a quote or an error.
QuoteSettles == shown.loading ~> ~shown.loading
=============================================================================
