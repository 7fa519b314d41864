-------------------------------- MODULE Hub --------------------------------
(***************************************************************************)
(* The websocket hub of internal/api/ws.go: one goroutine that prices the  *)
(* tracked pairs on a ticker and offers the ticks to every client, and two *)
(* goroutines per connection, a writer and a reader.                       *)
(*                                                                         *)
(* A price is known by the snapshot it was computed from: a tick is a pair *)
(* and the version of a snapshot.  The hub's mutex is held for one access  *)
(* of the client map at a time, so each access is one step; offering ticks *)
(* happens outside of it.  What leaves a connection is a write, which may  *)
(* fail at any time, and at the latest when its deadline passes.           *)
(***************************************************************************)
EXTENDS Integers, Sequences, FiniteSets

CONSTANTS Clients,       \* connections
          Pairs,         \* trackedPairs, a sequence
          ClientBuffer,  \* clientBuffer
          MaxVersion     \* bound: snapshots published in one behaviour

Tracked == {Pairs[i] : i \in DOMAIN Pairs}

ASSUME HubAssumption == /\ Pairs \in Seq(Tracked)
                        /\ ClientBuffer \in Nat \ {0}
                        /\ MaxVersion \in Nat

VARIABLES version,  \* the snapshot in the holder; 0: none yet
          priced,   \* tracked pairs that a direct pool of the snapshot quotes
          hubPc,    \* where Run is
          ticks,    \* the ticks of the broadcast under way
          left,     \* how many of them each target is still to be offered
          clients,  \* hub.clients
          writer,   \* where each connection's writeLoop is
          reader,   \* where its readLoop is
          greeting, \* current prices the writer has yet to send first
          send,     \* client.send
          done,     \* client.done is closed
          lost,     \* bookkeeping: a tick found the buffer full
          shown     \* bookkeeping: the version last sent, for each pair

snapshot == <<version, priced>>
hub == <<hubPc, ticks, left>>
conn == <<writer, reader, greeting, send, done, lost, shown>>
vars == <<snapshot, hub, clients, conn>>

Tick == [pair : Tracked, version : 1..MaxVersion]

Unshown == [p \in Tracked |-> 0]

Init == /\ version = 0 /\ priced = {}
        /\ hubPc = "wait" /\ ticks = <<>>
        /\ left = [c \in Clients |-> 0]
        /\ clients = {}
        /\ writer = [c \in Clients |-> "off"]
        /\ reader = [c \in Clients |-> "off"]
        /\ greeting = [c \in Clients |-> <<>>]
        /\ send = [c \in Clients |-> <<>>]
        /\ done = [c \in Clients |-> FALSE]
        /\ lost = [c \in Clients |-> FALSE]
        /\ shown = [c \in Clients |-> Unshown]

----------------------------------------------------------------------------
(* The snapshot, and what is priced from it.                               *)

\* The indexer publishes a snapshot; it may not quote every pair directly.
Publish == /\ version < MaxVersion
           /\ version' = version + 1
           /\ priced' \in SUBSET Tracked
           /\ UNCHANGED <<hub, clients, conn>>

\* What currentPrices appends for one tracked pair: nothing without a direct quote.
TickOf(p) == IF p \in priced THEN <<[pair |-> p, version |-> version]>> ELSE <<>>

\* currentPrices: the tracked pairs in their order; nothing without a snapshot.
CurrentPrices ==
  LET First[n \in 0..Len(Pairs)] ==
        IF n = 0 THEN <<>> ELSE First[n - 1] \o TickOf(Pairs[n])
  IN  First[Len(Pairs)]

----------------------------------------------------------------------------
(* Run and broadcast.                                                      *)

\* Mutant: Run returns when there is nothing to push yet.
TickerGivesUp == /\ hubPc = "wait"
                 /\ ticks' = CurrentPrices
                 /\ hubPc' = IF CurrentPrices = <<>> THEN "returned" ELSE "priced"
                 /\ UNCHANGED <<snapshot, left, clients, conn>>

TickerFires == /\ hubPc = "wait"
               /\ CurrentPrices # <<>>
               /\ ticks' = CurrentPrices
               /\ hubPc' = "priced"
               /\ UNCHANGED <<snapshot, left, clients, conn>>

\* The targets are copied under the lock.
CollectTargets ==
  /\ hubPc = "priced"
  /\ left' = [c \in Clients |-> IF c \in clients THEN Len(ticks) ELSE 0]
  /\ hubPc' = "offer"
  /\ UNCHANGED <<snapshot, ticks, clients, conn>>

\* The inner loop of broadcast: one client has all its ticks before the next.
Turn(c) == /\ hubPc = "offer"
           /\ left[c] > 0
           /\ \A d \in Clients \ {c} : left[d] \in {0, Len(ticks)}

NextTick(c) == ticks[Len(ticks) - left[c] + 1]

HasRoom(c) == Len(send[c]) < ClientBuffer

Offer(c) == /\ Turn(c)
            /\ HasRoom(c)
            /\ send' = [send EXCEPT ![c] = Append(@, NextTick(c))]
            /\ left' = [left EXCEPT ![c] = @ - 1]
            /\ UNCHANGED <<snapshot, hubPc, ticks, clients, writer, reader,
                           greeting, done, lost, shown>>

\* Mutant: the broadcaster waits for room.
OfferWaits(c) == /\ Turn(c)
                 /\ ~HasRoom(c)
                 /\ UNCHANGED vars

\* The buffer is full: the client is closed, and the loop goes on with it.
OfferOverflows(c) == /\ Turn(c)
                     /\ ~HasRoom(c)
                     /\ done' = [done EXCEPT ![c] = TRUE]
                     /\ lost' = [lost EXCEPT ![c] = TRUE]
                     /\ left' = [left EXCEPT ![c] = @ - 1]
                     /\ UNCHANGED <<snapshot, hubPc, ticks, clients, writer,
                                    reader, greeting, send, shown>>

BroadcastDone == /\ hubPc = "offer"
                 /\ \A c \in Clients : left[c] = 0
                 /\ ticks' = <<>>
                 /\ hubPc' = "wait"
                 /\ UNCHANGED <<snapshot, left, clients, conn>>

\* Mutant: the map is emptied, and nobody is told.
CloseAllSilently == /\ hubPc = "wait"
                    /\ clients' = {}
                    /\ hubPc' = "stopped"
                    /\ UNCHANGED <<snapshot, ticks, left, conn>>

\* The process shuts down and Run sees its context done, at the next select or any
\* later one: closeAll.
CloseAll == /\ hubPc = "wait"
            /\ done' = [c \in Clients |-> done[c] \/ c \in clients]
            /\ clients' = {}
            /\ hubPc' = "stopped"
            /\ UNCHANGED <<snapshot, ticks, left, writer, reader, greeting,
                           send, lost, shown>>

----------------------------------------------------------------------------
(* One connection.                                                         *)

\* handleWS: the upgraded connection joins the map, and its two loops start.
Connect(c) == /\ writer[c] = "off"
              /\ clients' = clients \cup {c}
              /\ writer' = [writer EXCEPT ![c] = "start"]
              /\ reader' = [reader EXCEPT ![c] = "read"]
              /\ UNCHANGED <<snapshot, hub, greeting, send, done, lost, shown>>

\* writeLoop computes the prices it sends first.
StartWriter(c) == /\ writer[c] = "start"
                  /\ greeting' = [greeting EXCEPT ![c] = CurrentPrices]
                  /\ writer' = [writer EXCEPT ![c] = "run"]
                  /\ UNCHANGED <<snapshot, hub, clients, reader, send, done, lost,
                                 shown>>

Show(c, t) == shown' = [shown EXCEPT ![c][t.pair] = t.version]

Greet(c) == /\ writer[c] = "run" /\ greeting[c] # <<>>
            /\ Show(c, Head(greeting[c]))
            /\ greeting' = [greeting EXCEPT ![c] = Tail(@)]
            /\ UNCHANGED <<snapshot, hub, clients, writer, reader, send, done, lost>>

\* The select of writeLoop, in its loop.
InSelect(c) == writer[c] = "run" /\ greeting[c] = <<>>

\* A queued tick is sent, whether or not the client is done already.
WriteTick(c) == /\ InSelect(c) /\ send[c] # <<>>
                /\ Show(c, Head(send[c]))
                /\ send' = [send EXCEPT ![c] = Tail(@)]
                /\ UNCHANGED <<snapshot, hub, clients, writer, reader, greeting, done,
                               lost>>

\* writeLoop returns; its locals are gone, and the bookkeeping with them.
LeaveLoop(c) == /\ writer' = [writer EXCEPT ![c] = "exit"]
                /\ greeting' = [greeting EXCEPT ![c] = <<>>]
                /\ lost' = [lost EXCEPT ![c] = FALSE]
                /\ shown' = [shown EXCEPT ![c] = Unshown]
                /\ UNCHANGED <<snapshot, hub, clients, reader, send, done>>

\* The close message, whose own failure is ignored.
SeeDone(c) == /\ InSelect(c) /\ done[c]
              /\ LeaveLoop(c)

\* A tick or a ping cannot be written; a ping that can changes nothing here.
WriteFails(c) == /\ writer[c] = "run"
                 /\ LeaveLoop(c)

\* Mutant: the client leaves the map, and its other loop is not told.
RemoveUntold(c) == /\ clients' = clients \ {c}
                   /\ UNCHANGED done

\* hub.remove.
Remove(c) == /\ clients' = clients \ {c}
             /\ done' = [done EXCEPT ![c] = TRUE]

\* The deferred function of writeLoop: remove, and close the connection, which only
\* its own reader can notice.
WriterLeaves(c) == /\ writer[c] = "exit"
                   /\ Remove(c)
                   /\ writer' = [writer EXCEPT ![c] = "gone"]
                   /\ UNCHANGED <<snapshot, hub, reader, greeting, send, lost, shown>>

\* ReadMessage returns an error, and the deferred remove runs: the peer has gone or
\* sent no pong before the read deadline, or the connection was closed here.
ReaderLeaves(c) == /\ reader[c] = "read"
                   /\ Remove(c)
                   /\ reader' = [reader EXCEPT ![c] = "gone"]
                   /\ UNCHANGED <<snapshot, hub, writer, greeting, send, lost, shown>>

MustLeave(c) == writer[c] = "gone" /\ ReaderLeaves(c)

\* Nothing refers to the connection any more; its name is free for another one.
Forget(c) == /\ writer[c] = "gone" /\ reader[c] = "gone" /\ left[c] = 0
             /\ writer' = [writer EXCEPT ![c] = "off"]
             /\ reader' = [reader EXCEPT ![c] = "off"]
             /\ send' = [send EXCEPT ![c] = <<>>]
             /\ done' = [done EXCEPT ![c] = FALSE]
             /\ lost' = [lost EXCEPT ![c] = FALSE]
             /\ UNCHANGED <<snapshot, hub, clients, greeting, shown>>

----------------------------------------------------------------------------
Broadcast == \/ TickerFires \/ CollectTargets \/ BroadcastDone
             \/ \E c \in Clients : Offer(c) \/ OfferOverflows(c)

Write(c) == StartWriter(c) \/ Greet(c) \/ WriteTick(c) \/ WriterLeaves(c)

Next == \/ Publish \/ Broadcast \/ CloseAll
        \/ \E c \in Clients : \/ Connect(c) \/ Write(c) \/ SeeDone(c) \/ WriteFails(c)
                              \/ ReaderLeaves(c) \/ Forget(c)

\* Goroutines run, the ticker fires, a write ends by its deadline, and a select
\* with several cases ready picks each of them sooner or later.
Fairness == /\ WF_vars(Broadcast)
            /\ \A c \in Clients : /\ WF_vars(Write(c))
                                  /\ WF_vars(SeeDone(c))
                                  /\ WF_vars(MustLeave(c))

Spec == Init /\ [][Next]_vars
FairSpec == Spec /\ Fairness

----------------------------------------------------------------------------
(* Properties.                                                             *)

Gone(c) == writer[c] \in {"gone", "off"} /\ reader[c] \in {"gone", "off"}

\* The map holds exactly connections with both loops running, and a connection that
\* has left it, by whichever of the three ways (ws.go:63-68, 120-127), is told so.
InMapOrTold ==
  \A c \in Clients :
    /\ c \in clients => reader[c] = "read" /\ writer[c] \in {"start", "run", "exit"}
    /\ reader[c] # "off" /\ c \notin clients => done[c]

\* A connection leaves no goroutine behind (ws.go:236-289): whichever of its two loops
\* notices the end first, the other one ends as well.  So does a client that was too
\* slow for a tick (ws.go:29-33, 81-86): until its writer sees that it is closed it may
\* be sent further ticks, and then it is dropped.
NoLoopLeaks ==
  \A c \in Clients : (reader[c] = "gone" \/ writer[c] = "exit" \/ lost[c]) ~> Gone(c)

\* No client can stall the others (ws.go:30-32, 79-88): a broadcast that has begun ends,
\* also when its targets have left in the meantime.
BroadcastEnds == hubPc = "offer" ~> hubPc = "wait"

\* A connected client comes to see the price of the latest snapshot, as long as the
\* hub runs (ws.go:98-118): no tick that was lost or overtaken stays on its chart.
ShowsLatest ==
  \A c \in Clients : \A p \in Tracked :
    []<>(\/ shown[c][p] = version \/ p \notin priced
         \/ done[c] \/ writer[c] \notin {"start", "run"} \/ hubPc = "stopped")
=============================================================================
