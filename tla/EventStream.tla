----------------------------- MODULE EventStream -----------------------------
(***************************************************************************)
(* The event stream of one run (app/services/event_stream_service.py) and  *)
(* the three that meet in it: workers that save steps, append their events *)
(* and publish notices, the Redis channel of the run, and clients that     *)
(* lose their connection and come back with Last-Event-ID.                 *)
(*                                                                         *)
(* A stream is one generator; each database read, each event handed to the *)
(* client and each wait is an action.  Events are numbered from 1: event n *)
(* has the durable sequence n - 1 (append_event counts under a row lock).  *)
(***************************************************************************)
EXTENDS Integers, Sequences, RunLifecycle

CONSTANTS
  Clients, \* readers of the run's events
  Writers, \* jobs that may append events, a late one among them
  Page,    \* LIMIT of one replay: 200
  MaxEvents, \* bound: events of the run
  MaxDrops   \* bound: connections that break

ASSUME PageAssumption == Page \in Nat \ {0}
ASSUME StreamBoundsAssumption == MaxEvents \in Nat /\ MaxDrops \in Nat

VARIABLES
  status,     \* agent_runs.status; "queued" and "running" are told apart nowhere
  log,        \* number of rows of the run in run_events
  pending,    \* events of its saved outcome a writer has not yet appended
  notice,     \* an event is appended and its notice not yet published
  lost,       \* a notice was never published
  pc,         \* where the stream of each client stands
  follow,     \* the query parameter
  subscribed, \* inside notifier.subscribe
  cursor,     \* the stream's cursor
  buffer,     \* events replay has returned and the loop has not yet yielded
  inbox,      \* notices waiting in the subscription
  seen,       \* history: the size of the log when the stream last read it
  received,   \* events the client has received, over all its connections
  drops       \* broken connections so far

writerVars == <<status, log, pending, notice, lost>>
clientVars == <<pc, follow, subscribed, cursor, buffer, inbox, seen, received,
                drops>>
vars == <<writerVars, clientVars>>

Event == 1..MaxEvents

TypeOK ==
  /\ status \in {"running", "waiting_approval", "completed", "canceled"}
  /\ log \in 0..MaxEvents
  /\ pending \in [Writers -> 0..2]
  /\ notice \in [Writers -> BOOLEAN]
  /\ lost \in BOOLEAN
  /\ pc \in [Clients -> {"off", "replay", "send", "subscribe", "wait", "ended"}]
  /\ follow \in [Clients -> BOOLEAN]
  /\ subscribed \in [Clients -> BOOLEAN]
  /\ cursor \in [Clients -> 0..MaxEvents]
  /\ buffer \in [Clients -> Seq(Event)]
  /\ inbox \in [Clients -> Nat]
  /\ seen \in [Clients -> 0..MaxEvents]
  /\ received \in [Clients -> Seq(Event)]
  /\ drops \in 0..MaxDrops

Init ==
  /\ status = "running"
  /\ log = 0
  /\ pending = [w \in Writers |-> 0]
  /\ notice = [w \in Writers |-> FALSE]
  /\ lost = FALSE
  /\ pc = [c \in Clients |-> "off"]
  /\ follow = [c \in Clients |-> FALSE]
  /\ subscribed = [c \in Clients |-> FALSE]
  /\ cursor = [c \in Clients |-> 0]
  /\ buffer = [c \in Clients |-> <<>>]
  /\ inbox = [c \in Clients |-> 0]
  /\ seen = [c \in Clients |-> 0]
  /\ received = [c \in Clients |-> <<>>]
  /\ drops = 0

-----------------------------------------------------------------------------
(* The workers and the API, as far as a stream can tell. *)

\* save_step commits the new status; the events of the outcome (one of a plan,
\* one or two of a tool call, two at a boundary) come later.
\* A save that lost the race changes nothing, yet its events are appended,
\* and a save of a late worker overwrites CANCELED (DurableRuns).
SaveStep(w) ==
  /\ pending[w] = 0 /\ ~notice[w]
  /\ \E n \in 1..2, target \in {"running", "waiting_approval", "completed"} :
       /\ target # "running" => n = 2
       /\ pending' = [pending EXCEPT ![w] = n]
       /\ status' = IF status \in {"running", "canceled"} THEN target ELSE status
  /\ UNCHANGED <<log, notice, lost, clientVars>>

AppendEvent(w) ==
  /\ pending[w] > 0 /\ ~notice[w]
  /\ log < MaxEvents
  /\ log' = log + 1
  /\ pending' = [pending EXCEPT ![w] = @ - 1]
  /\ notice' = [notice EXCEPT ![w] = TRUE]
  /\ UNCHANGED <<status, lost, clientVars>>

\* Redis hands a notice to those subscribed at that moment.
PublishEvent(w) ==
  /\ notice[w]
  /\ notice' = [notice EXCEPT ![w] = FALSE]
  /\ inbox' = [c \in Clients |-> IF subscribed[c] THEN inbox[c] + 1 ELSE inbox[c]]
  /\ UNCHANGED <<status, log, pending, lost, pc, follow, subscribed, cursor,
                 buffer, seen, received, drops>>

\* The worker dies, or Redis or the database raises: what it had still to
\* append and to publish is forgotten.
WriterStops(w) ==
  /\ pending[w] > 0 \/ notice[w]
  /\ pending' = [pending EXCEPT ![w] = 0]
  /\ notice' = [notice EXCEPT ![w] = FALSE]
  /\ lost' = (lost \/ notice[w])
  /\ UNCHANGED <<status, log, clientVars>>

RequestCancel ==
  /\ status \in {"running", "waiting_approval"}
  /\ status' = "canceled"
  /\ UNCHANGED <<log, pending, notice, lost, clientVars>>

\* decide_approval requeues a paused run.
Decide ==
  /\ status = "waiting_approval"
  /\ status' = "running"
  /\ UNCHANGED <<log, pending, notice, lost, clientVars>>

-----------------------------------------------------------------------------
(* EventStreamService.stream. *)
GoTo(c, stage) == pc' = [pc EXCEPT ![c] = stage]

\* A new connection; the client names the last event it has, if any.
Connect(c) ==
  /\ pc[c] \in {"off", "ended"}
  /\ \E f \in BOOLEAN : follow' = [follow EXCEPT ![c] = f]
  /\ cursor' = [cursor EXCEPT ![c] =
                  IF received[c] = <<>> THEN 0 ELSE received[c][Len(received[c])]]
  /\ GoTo(c, "replay")
  /\ UNCHANGED <<writerVars, subscribed, buffer, inbox, seen, received, drops>>

\* list_events: the first Page events after a number.
ListEvents(after) ==
  [i \in 1..(IF log - after < Page THEN log - after ELSE Page) |-> after + i]

\* replay(): one read; the cursor moves before anything is sent.
Replay(c) ==
  /\ pc[c] = "replay"
  /\ buffer' = [buffer EXCEPT ![c] = ListEvents(cursor[c])]
  /\ cursor' = [cursor EXCEPT ![c] = @ + Len(ListEvents(@))]
  /\ seen' = [seen EXCEPT ![c] = log]
  /\ GoTo(c, "send")
  /\ UNCHANGED <<writerVars, follow, subscribed, inbox, received, drops>>

Send(c) ==
  /\ pc[c] = "send"
  /\ buffer[c] # <<>>
  /\ received' = [received EXCEPT ![c] = Append(@, Head(buffer[c]))]
  /\ buffer' = [buffer EXCEPT ![c] = Tail(@)]
  /\ UNCHANGED <<writerVars, pc, follow, subscribed, cursor, inbox, seen, drops>>

\* The generator is left: the subscription is closed with it.
Leave(c, how) ==
  /\ GoTo(c, how)
  /\ subscribed' = [subscribed EXCEPT ![c] = FALSE]
  /\ inbox' = [inbox EXCEPT ![c] = 0]
  /\ buffer' = [buffer EXCEPT ![c] = <<>>]
  /\ UNCHANGED <<follow, cursor, seen, received>>

\* Mutant of CheckStatus: the status is read before subscribing only.
CheckStatus_OnlyFirst(c) ==
  /\ pc[c] = "send"
  /\ buffer[c] = <<>>
  /\ IF ~subscribed[c] /\ (status \in Terminal \/ ~follow[c])
       THEN Leave(c, "ended")
       ELSE /\ GoTo(c, IF subscribed[c] THEN "wait" ELSE "subscribe")
            /\ UNCHANGED <<follow, subscribed, cursor, buffer, inbox, seen,
                           received>>
  /\ UNCHANGED <<writerVars, drops>>

\* get_run after a replay is sent: the stream ends on a terminal status, and
\* before it has subscribed also when it is not to follow.
CheckStatus(c) ==
  /\ pc[c] = "send"
  /\ buffer[c] = <<>>
  /\ IF status \in Terminal \/ (~subscribed[c] /\ ~follow[c])
       THEN Leave(c, "ended")
       ELSE /\ GoTo(c, IF subscribed[c] THEN "wait" ELSE "subscribe")
            /\ UNCHANGED <<follow, subscribed, cursor, buffer, inbox, seen,
                           received>>
  /\ UNCHANGED <<writerVars, drops>>

\* Mutant of Subscribe: the log is not read again.
Subscribe_NoReplay(c) ==
  /\ pc[c] = "subscribe"
  /\ subscribed' = [subscribed EXCEPT ![c] = TRUE]
  /\ GoTo(c, "wait")
  /\ UNCHANGED <<writerVars, follow, cursor, buffer, inbox, seen, received, drops>>

Subscribe(c) ==
  /\ pc[c] = "subscribe"
  /\ subscribed' = [subscribed EXCEPT ![c] = TRUE]
  /\ GoTo(c, "replay")
  /\ UNCHANGED <<writerVars, follow, cursor, buffer, inbox, seen, received, drops>>

\* Mutant of Wait: there is no timeout.
Wait_ForNotice(c) ==
  /\ pc[c] = "wait"
  /\ inbox[c] > 0
  /\ inbox' = [inbox EXCEPT ![c] = @ - 1]
  /\ GoTo(c, "replay")
  /\ UNCHANGED <<writerVars, follow, subscribed, cursor, buffer, seen, received,
                 drops>>

\* A notice, or the keepalive after 15 seconds; both read the log again.
Wait(c) ==
  /\ pc[c] = "wait"
  /\ inbox' = [inbox EXCEPT ![c] = IF @ > 0 THEN @ - 1 ELSE 0]
  /\ GoTo(c, "replay")
  /\ UNCHANGED <<writerVars, follow, subscribed, cursor, buffer, seen, received,
                 drops>>

\* The connection breaks, or Redis or the database raises in the stream.
Disconnect(c) ==
  /\ pc[c] \notin {"off", "ended"}
  /\ drops < MaxDrops
  /\ drops' = drops + 1
  /\ Leave(c, "off")
  /\ UNCHANGED writerVars

StreamStep(c) ==
  Replay(c) \/ Send(c) \/ CheckStatus(c) \/ Subscribe(c) \/ Wait(c)

Next ==
  \/ \E w \in Writers :
       SaveStep(w) \/ AppendEvent(w) \/ PublishEvent(w) \/ WriterStops(w)
  \/ RequestCancel
  \/ Decide
  \/ \E c \in Clients : Connect(c) \/ StreamStep(c) \/ Disconnect(c)

Spec == Init /\ [][Next]_vars

\* A generator that is iterated gets to its next yield, and a client whose
\* stream has ended opens it again (an EventSource does so by itself).
FairSpec ==
  /\ Spec
  /\ \A c \in Clients : WF_vars(StreamStep(c)) /\ WF_vars(Connect(c))

-----------------------------------------------------------------------------
\* "SSE reconnect after a known sequence produces no event gap": over pages,
\* broken connections and reconnects, streams implement the feed.  Under
\* FairSpec every event is delivered, also when its notice was lost.
Feed == INSTANCE EventFeed
FeedSpec == Feed!Spec

\* A stream never waits for the notice of an event that was published before
\* it listened: what was committed since its last read will wake it.
NoLostWakeup ==
  \A c \in Clients : pc[c] = "wait" /\ log > seen[c] =>
    lost \/ inbox[c] > 0 \/ \E w \in Writers : notice[w]

\* The stream of a finished run ends.
FinishedStreamEnds ==
  \A c \in Clients :
    status = "completed" /\ pc[c] # "off" ~> pc[c] \in {"off", "ended"}

\* "The legacy chat streaming endpoint works through the new asynchronous
\* backend": the one stream it follows has delivered the whole run, with the
\* answer, when it ends.  It has not; refuted by a run of its own.
FollowedToTheEnd ==
  \A c \in Clients :
    pc[c] = "ended" /\ follow[c] /\ status = "completed" =>
      Len(received[c]) = log
=============================================================================
