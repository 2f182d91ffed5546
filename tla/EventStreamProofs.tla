-------------------------- MODULE EventStreamProofs --------------------------
(***************************************************************************)
(* Streams leave no event out and send none twice, and no stream waits for *)
(* a notice it has missed: for any number of clients and writers, any page *)
(* size, and any number of broken connections.                             *)
(***************************************************************************)
EXTENDS EventStream, TLAPS

-----------------------------------------------------------------------------
(* The inductive invariant. *)

\* A client has the first events, in order.
Prefix(c) ==
  /\ Len(received[c]) <= log
  /\ \A i \in 1..Len(received[c]) : received[c][i] = i

\* The buffer continues what the client has, and the cursor is at its end.
Ahead(c) ==
  /\ pc[c] \in {"replay", "send", "subscribe", "wait"} =>
       /\ cursor[c] = Len(received[c]) + Len(buffer[c])
       /\ cursor[c] <= log
       /\ \A i \in 1..Len(buffer[c]) : buffer[c][i] = Len(received[c]) + i
  /\ pc[c] # "send" => buffer[c] = <<>>

\* Whatever was committed after the last read of a subscribed stream is
\* still to be announced to it.
Awake(c) ==
  /\ pc[c] = "wait" => subscribed[c]
  /\ subscribed[c] /\ pc[c] \in {"send", "wait"} /\ log > seen[c] =>
       lost \/ inbox[c] > 0 \/ \E w \in Writers : notice[w]

StreamInv == TypeOK /\ \A c \in Clients : Prefix(c) /\ Ahead(c) /\ Awake(c)

-----------------------------------------------------------------------------
\* One page of the log: events that follow each other, none beyond its end.
LEMMA PageOfLog ==
  ASSUME log \in 0..MaxEvents, NEW after \in 0..MaxEvents, after <= log
  PROVE  /\ ListEvents(after) \in Seq(Event)
         /\ Len(ListEvents(after)) \in 0..(log - after)
         /\ \A i \in 1..Len(ListEvents(after)) : ListEvents(after)[i] = after + i
<1> DEFINE n == IF log - after < Page THEN log - after ELSE Page
<1>1. n \in Nat /\ n <= log - after
  BY PageAssumption, StreamBoundsAssumption
<1>2. \A i \in 1..n : after + i \in Event
  BY <1>1, StreamBoundsAssumption DEF Event
<1>3. ListEvents(after) = [i \in 1..n |-> after + i]
  BY DEF ListEvents
<1> HIDE DEF n
<1>4. ListEvents(after) \in Seq(Event) /\ Len(ListEvents(after)) = n
  BY <1>1, <1>2, <1>3
<1> QED
  BY <1>1, <1>3, <1>4, StreamBoundsAssumption

\* Types.
LEMMA StreamTypeNext == StreamInv /\ [Next]_vars => TypeOK'
<1> SUFFICES ASSUME StreamInv, [Next]_vars PROVE TypeOK'
  OBVIOUS
<1> USE StreamBoundsAssumption DEF TypeOK, GoTo, clientVars, writerVars
<1>0. TypeOK
  BY DEF StreamInv
<1>1. CASE UNCHANGED vars
  BY <1>0, <1>1 DEF vars
<1>2. ASSUME NEW w \in Writers, SaveStep(w) PROVE TypeOK'
  BY <1>0, <1>2 DEF SaveStep
<1>3. ASSUME NEW w \in Writers, AppendEvent(w) PROVE TypeOK'
  BY <1>0, <1>3 DEF AppendEvent
<1>4. ASSUME NEW w \in Writers, PublishEvent(w) PROVE TypeOK'
  BY <1>0, <1>4 DEF PublishEvent
<1>5. ASSUME NEW w \in Writers, WriterStops(w) PROVE TypeOK'
  BY <1>0, <1>5 DEF WriterStops
<1>6. CASE RequestCancel
  BY <1>0, <1>6 DEF RequestCancel
<1>7. ASSUME NEW c \in Clients, Connect(c) PROVE TypeOK'
  <2>1. (IF received[c] = <<>> THEN 0 ELSE received[c][Len(received[c])])
           \in 0..MaxEvents
    BY <1>0 DEF Event
  <2> QED
    BY <1>0, <1>7, <2>1 DEF Connect
<1>8. ASSUME NEW c \in Clients, Replay(c) PROVE TypeOK'
  <2>1. cursor[c] \in 0..MaxEvents /\ cursor[c] <= log
    BY <1>0, <1>8 DEF Replay, StreamInv, Ahead
  <2>2. /\ ListEvents(cursor[c]) \in Seq(Event)
        /\ cursor[c] + Len(ListEvents(cursor[c])) \in 0..MaxEvents
    <3>1. log \in 0..MaxEvents
      BY <1>0
    <3>2. /\ ListEvents(cursor[c]) \in Seq(Event)
          /\ Len(ListEvents(cursor[c])) \in 0..(log - cursor[c])
      BY <2>1, <3>1, PageOfLog
    <3> QED
      BY <2>1, <3>1, <3>2
  <2> QED
    BY <1>0, <1>8, <2>2 DEF Replay
<1>9. ASSUME NEW c \in Clients, Send(c) PROVE TypeOK'
  <2>1. /\ Head(buffer[c]) \in Event
        /\ Append(received[c], Head(buffer[c])) \in Seq(Event)
        /\ Tail(buffer[c]) \in Seq(Event)
    BY <1>0, <1>9 DEF Send
  <2> QED
    BY <1>0, <1>9, <2>1 DEF Send
<1>10. ASSUME NEW c \in Clients, CheckStatus(c) PROVE TypeOK'
  <2>1. CASE Leave(c, "ended")
    BY <1>0, <1>10, <2>1 DEF CheckStatus, Leave
  <2>2. CASE ~Leave(c, "ended")
    <3>1. /\ \E stage \in {"wait", "subscribe"} : pc' = [pc EXCEPT ![c] = stage]
          /\ UNCHANGED <<writerVars, follow, subscribed, cursor, buffer, inbox,
                         seen, received, drops>>
      BY <1>10, <2>2 DEF CheckStatus
    <3> QED
      BY <1>0, <3>1
  <2> QED
    BY <2>1, <2>2
<1>11. ASSUME NEW c \in Clients, Subscribe(c) PROVE TypeOK'
  BY <1>0, <1>11 DEF Subscribe
<1>12. ASSUME NEW c \in Clients, Wait(c) PROVE TypeOK'
  BY <1>0, <1>12 DEF Wait
<1>13. ASSUME NEW c \in Clients, Disconnect(c) PROVE TypeOK'
  BY <1>0, <1>13 DEF Disconnect, Leave
<1>14. CASE Decide
  BY <1>0, <1>14 DEF Decide
<1> QED
  BY <1>1, <1>2, <1>3, <1>4, <1>5, <1>6, <1>7, <1>8, <1>9, <1>10, <1>11, <1>12,
     <1>13, <1>14 DEF Next, StreamStep

-----------------------------------------------------------------------------
(* The invariant. *)

\* What one stream sees of the system; a step that leaves it alone keeps its
\* part of the invariant.
View(c) == <<pc[c], subscribed[c], cursor[c], buffer[c], inbox[c], seen[c],
             received[c]>>

LEMMA UntouchedClient ==
  ASSUME NEW c \in Clients, Prefix(c), Ahead(c), Awake(c),
         View(c)' = View(c), UNCHANGED <<log, lost, notice>>
  PROVE  Prefix(c)' /\ Ahead(c)' /\ Awake(c)'
<1>1. /\ pc'[c] = pc[c] /\ subscribed'[c] = subscribed[c]
      /\ cursor'[c] = cursor[c] /\ buffer'[c] = buffer[c]
      /\ inbox'[c] = inbox[c] /\ seen'[c] = seen[c]
      /\ received'[c] = received[c]
  BY DEF View
<1>2. Prefix(c)'
  BY <1>1 DEF Prefix
<1>3. Ahead(c)'
  BY <1>1 DEF Ahead
<1>4. Awake(c)'
  BY <1>1 DEF Awake
<1> QED
  BY <1>2, <1>3, <1>4

\* The steps of the workers and of the API.
LEMMA WriterKeepsStreams ==
  ASSUME StreamInv, NEW c \in Clients, NEW w \in Writers,
         SaveStep(w) \/ AppendEvent(w) \/ PublishEvent(w) \/ WriterStops(w)
           \/ RequestCancel \/ Decide
  PROVE  Prefix(c)' /\ Ahead(c)' /\ Awake(c)'
<1>0. TypeOK /\ Prefix(c) /\ Ahead(c) /\ Awake(c)
  BY DEF StreamInv
<1>1. CASE SaveStep(w) \/ RequestCancel \/ Decide
  BY <1>0, <1>1, UntouchedClient
     DEF SaveStep, RequestCancel, Decide, clientVars, View
<1>2. CASE AppendEvent(w)
  <2>1. log' = log + 1 /\ log \in Nat /\ UNCHANGED <<lost, clientVars>>
    BY <1>0, <1>2, StreamBoundsAssumption DEF AppendEvent, TypeOK
  <2>2. Prefix(c)'
    BY <1>0, <2>1 DEF Prefix, clientVars, TypeOK
  <2>3. Ahead(c)'
    BY <1>0, <2>1 DEF Ahead, clientVars, TypeOK
  <2>4. \E v \in Writers : notice'[v]
    BY <1>0, <1>2 DEF AppendEvent, TypeOK
  <2>5. Awake(c)'
    BY <1>0, <2>1, <2>4 DEF Awake, clientVars
  <2> QED
    BY <2>2, <2>3, <2>5
<1>3. CASE PublishEvent(w)
  <2>1. /\ UNCHANGED <<log, lost, pc, subscribed, cursor, buffer, seen, received>>
        /\ inbox'[c] = IF subscribed[c] THEN inbox[c] + 1 ELSE inbox[c]
        /\ inbox[c] \in Nat
    BY <1>0, <1>3 DEF PublishEvent, TypeOK
  <2>2. Prefix(c)' /\ Ahead(c)'
    BY <1>0, <2>1 DEF Prefix, Ahead
  <2>3. subscribed[c] => inbox'[c] > 0
    BY <2>1
  <2>4. Awake(c)'
    BY <1>0, <2>1, <2>3 DEF Awake
  <2> QED
    BY <2>2, <2>4
<1>4. CASE WriterStops(w)
  <2>1. /\ UNCHANGED <<log, clientVars>>
        /\ lost' = (lost \/ notice[w])
        /\ \A v \in Writers : v # w => notice'[v] = notice[v]
    BY <1>0, <1>4 DEF WriterStops, TypeOK
  <2>2. Prefix(c)' /\ Ahead(c)'
    BY <1>0, <2>1 DEF Prefix, Ahead, clientVars
  <2>3. lost \/ (\E v \in Writers : notice[v])
          => lost' \/ \E v \in Writers : notice'[v]
    BY <2>1
  <2>4. Awake(c)'
    BY <1>0, <2>1, <2>3 DEF Awake, clientVars
  <2> QED
    BY <2>2, <2>4
<1> QED
  BY <1>1, <1>2, <1>3, <1>4

\* The steps of a client, for the others.
LEMMA OtherClientsUntouched ==
  ASSUME StreamInv, NEW c \in Clients, NEW d \in Clients, d # c,
         Connect(d) \/ StreamStep(d) \/ Disconnect(d)
  PROVE  Prefix(c)' /\ Ahead(c)' /\ Awake(c)'
<1> USE DEF GoTo, View, TypeOK
<1>0. TypeOK /\ Prefix(c) /\ Ahead(c) /\ Awake(c)
  BY DEF StreamInv
<1>1. CASE Connect(d)
  BY <1>0, <1>1, UntouchedClient DEF Connect, writerVars
<1>2. CASE Replay(d)
  BY <1>0, <1>2, UntouchedClient DEF Replay, writerVars
<1>3. CASE Send(d)
  BY <1>0, <1>3, UntouchedClient DEF Send, writerVars
<1>4. CASE CheckStatus(d)
  BY <1>0, <1>4, UntouchedClient DEF CheckStatus, Leave, writerVars
<1>5. CASE Subscribe(d)
  BY <1>0, <1>5, UntouchedClient DEF Subscribe, writerVars
<1>6. CASE Wait(d)
  BY <1>0, <1>6, UntouchedClient DEF Wait, writerVars
<1>7. CASE Disconnect(d)
  BY <1>0, <1>7, UntouchedClient DEF Disconnect, Leave, writerVars
<1> QED
  BY <1>1, <1>2, <1>3, <1>4, <1>5, <1>6, <1>7 DEF StreamStep

\* The steps of a client, for itself.  A connection starts after the last
\* event the client has, which is as many as it has.
LEMMA ConnectKeepsStream ==
  ASSUME StreamInv, NEW c \in Clients, Connect(c)
  PROVE  Prefix(c)' /\ Ahead(c)' /\ Awake(c)'
<1> USE DEF TypeOK
<1>0. TypeOK /\ Prefix(c) /\ Ahead(c) /\ Awake(c)
  BY DEF StreamInv
<1>1. /\ pc'[c] = "replay"
      /\ cursor'[c] = IF received[c] = <<>> THEN 0
                                           ELSE received[c][Len(received[c])]
      /\ UNCHANGED <<log, notice, lost, subscribed, buffer, inbox, seen, received>>
      /\ pc[c] # "send"
  BY <1>0 DEF Connect, GoTo, writerVars
<1>2. cursor'[c] = Len(received[c])
  <2>1. received[c] \in Seq(Event)
    BY <1>0
  <2>2. CASE received[c] = <<>>
    BY <1>1, <2>2
  <2>3. CASE received[c] # <<>>
    <3>1. Len(received[c]) \in 1..Len(received[c])
      BY <2>1, <2>3
    <3> QED
      BY <1>0, <1>1, <2>3, <3>1 DEF Prefix
  <2> QED
    BY <2>2, <2>3
<1>3. buffer[c] = <<>>
  BY <1>0, <1>1 DEF Ahead
<1>4. Prefix(c)'
  BY <1>0, <1>1 DEF Prefix
<1>5. Ahead(c)'
  BY <1>0, <1>1, <1>2, <1>3 DEF Ahead, Prefix
<1>6. Awake(c)'
  BY <1>1 DEF Awake
<1> QED
  BY <1>4, <1>5, <1>6

\* A replay continues where the client stands and reads the whole log.
LEMMA ReplayKeepsStream ==
  ASSUME StreamInv, NEW c \in Clients, Replay(c)
  PROVE  Prefix(c)' /\ Ahead(c)' /\ Awake(c)'
<1> USE DEF TypeOK
<1>0. TypeOK /\ Prefix(c) /\ Ahead(c) /\ Awake(c)
  BY DEF StreamInv
<1> DEFINE page == ListEvents(cursor[c])
<1>1. /\ pc[c] = "replay" /\ pc'[c] = "send"
      /\ buffer'[c] = page
      /\ cursor'[c] = cursor[c] + Len(page)
      /\ seen'[c] = log
      /\ UNCHANGED <<log, notice, lost, subscribed, inbox, received>>
  BY <1>0 DEF Replay, GoTo, writerVars
<1>2. cursor[c] = Len(received[c]) /\ cursor[c] <= log
  <2>1. buffer[c] = <<>>
    BY <1>0, <1>1 DEF Ahead
  <2> QED
    BY <1>0, <1>1, <2>1 DEF Ahead
<1>3. /\ page \in Seq(Event)
      /\ Len(page) \in 0..(log - cursor[c])
      /\ \A i \in 1..Len(page) : page[i] = cursor[c] + i
  BY <1>0, <1>2, PageOfLog
<1> HIDE DEF page
<1>4. Prefix(c)'
  BY <1>0, <1>1 DEF Prefix
<1>5. Ahead(c)'
  BY <1>0, <1>1, <1>2, <1>3 DEF Ahead
<1>6. Awake(c)'
  BY <1>0, <1>1 DEF Awake
<1> QED
  BY <1>4, <1>5, <1>6

\* The next event of the buffer is the one after the last received.
LEMMA SendKeepsStream ==
  ASSUME StreamInv, NEW c \in Clients, Send(c)
  PROVE  Prefix(c)' /\ Ahead(c)' /\ Awake(c)'
<1>0. TypeOK /\ Prefix(c) /\ Ahead(c) /\ Awake(c)
  BY DEF StreamInv
<1> DEFINE had == received[c]
<1> DEFINE buf == buffer[c]
<1>1. /\ pc[c] = "send" /\ buf # <<>>
      /\ had \in Seq(Event) /\ buf \in Seq(Event) /\ log \in Nat
      /\ received'[c] = Append(had, Head(buf))
      /\ buffer'[c] = Tail(buf)
      /\ UNCHANGED <<log, notice, lost, pc, subscribed, cursor, inbox, seen>>
  BY <1>0, StreamBoundsAssumption DEF Send, writerVars, TypeOK
<1>2. /\ cursor[c] = Len(had) + Len(buf) /\ cursor[c] <= log
      /\ \A i \in 1..Len(buf) : buf[i] = Len(had) + i
  BY <1>0, <1>1 DEF Ahead
<1>3. \A i \in 1..Len(had) : had[i] = i
  BY <1>0 DEF Prefix
<1> HIDE DEF had, buf
<1>4. /\ Head(buf) = Len(had) + 1 /\ Len(buf) >= 1
      /\ Len(received'[c]) = Len(had) + 1 /\ Len(buffer'[c]) = Len(buf) - 1
  BY <1>1, <1>2
<1>5. \A i \in 1..Len(received'[c]) : received'[c][i] = i
  BY <1>1, <1>3, <1>4
<1>6. \A i \in 1..Len(buffer'[c]) : buffer'[c][i] = buf[i + 1]
  BY <1>1, <1>4
<1>7. Prefix(c)'
  BY <1>1, <1>2, <1>4, <1>5 DEF Prefix
<1>8. Ahead(c)'
  <2>1. \A i \in 1..Len(buffer'[c]) : buffer'[c][i] = Len(received'[c]) + i
    BY <1>1, <1>2, <1>4, <1>6
  <2>2. cursor'[c] = Len(received'[c]) + Len(buffer'[c]) /\ cursor'[c] <= log'
    BY <1>1, <1>2, <1>4
  <2> QED
    BY <1>1, <2>1, <2>2 DEF Ahead
<1>9. Awake(c)'
  BY <1>0, <1>1 DEF Awake
<1> QED
  BY <1>7, <1>8, <1>9

\* A stream that is left has nothing to send and waits for nothing.
LEMMA LeaveKeepsStream ==
  ASSUME StreamInv, NEW c \in Clients, NEW how \in {"off", "ended"},
         Leave(c, how), UNCHANGED writerVars
  PROVE  Prefix(c)' /\ Ahead(c)' /\ Awake(c)'
<1>0. TypeOK /\ Prefix(c)
  BY DEF StreamInv
<1>1. /\ pc'[c] = how /\ subscribed'[c] = FALSE /\ buffer'[c] = <<>>
      /\ UNCHANGED <<log, received>>
  BY <1>0 DEF Leave, GoTo, writerVars, TypeOK
<1> QED
  BY <1>0, <1>1 DEF Prefix, Ahead, Awake

LEMMA StreamStepKeepsStream ==
  ASSUME StreamInv, NEW c \in Clients, StreamStep(c)
  PROVE  Prefix(c)' /\ Ahead(c)' /\ Awake(c)'
<1>0. TypeOK /\ Prefix(c) /\ Ahead(c) /\ Awake(c)
  BY DEF StreamInv
<1>1. CASE Replay(c)
  BY <1>1, ReplayKeepsStream
<1>2. CASE Send(c)
  BY <1>2, SendKeepsStream
<1>3. CASE CheckStatus(c)
  <2>1. CASE Leave(c, "ended")
    BY <1>3, <2>1, LeaveKeepsStream DEF CheckStatus
  <2>2. CASE ~Leave(c, "ended")
    <3>1. /\ pc[c] = "send" /\ buffer[c] = <<>>
          /\ pc'[c] = IF subscribed[c] THEN "wait" ELSE "subscribe"
          /\ UNCHANGED <<log, notice, lost, subscribed, cursor, buffer, inbox,
                         seen, received>>
      BY <1>0, <1>3, <2>2 DEF CheckStatus, GoTo, writerVars, TypeOK
    <3>2. Prefix(c)'
      BY <1>0, <3>1 DEF Prefix
    <3>3. Ahead(c)'
      BY <1>0, <3>1 DEF Ahead
    <3>4. Awake(c)'
      BY <1>0, <3>1 DEF Awake
    <3> QED
      BY <3>2, <3>3, <3>4
  <2> QED
    BY <2>1, <2>2
<1>4. CASE Subscribe(c) \/ Wait(c)
  <2>1. /\ pc[c] \in {"subscribe", "wait"} /\ pc'[c] = "replay"
        /\ UNCHANGED <<log, cursor, buffer, received>>
    BY <1>0, <1>4 DEF Subscribe, Wait, GoTo, writerVars, TypeOK
  <2> QED
    BY <1>0, <2>1 DEF Prefix, Ahead, Awake
<1> QED
  BY <1>1, <1>2, <1>3, <1>4 DEF StreamStep

LEMMA StreamInvNext == StreamInv /\ [Next]_vars => StreamInv'
<1> SUFFICES ASSUME StreamInv, [Next]_vars PROVE StreamInv'
  OBVIOUS
<1>1. TypeOK'
  BY StreamTypeNext
<1>2. ASSUME NEW c \in Clients PROVE Prefix(c)' /\ Ahead(c)' /\ Awake(c)'
  <2>0. Prefix(c) /\ Ahead(c) /\ Awake(c)
    BY DEF StreamInv
  <2>1. CASE UNCHANGED vars
    BY <2>0, <2>1, UntouchedClient DEF vars, writerVars, clientVars, View
  <2>2. CASE \E w \in Writers :
               SaveStep(w) \/ AppendEvent(w) \/ PublishEvent(w) \/ WriterStops(w)
    BY <2>2, WriterKeepsStreams
  <2>3. CASE RequestCancel \/ Decide
    BY <2>0, <2>3, UntouchedClient DEF RequestCancel, Decide, clientVars, View
  <2>4. CASE \E d \in Clients : Connect(d) \/ StreamStep(d) \/ Disconnect(d)
    <3>1. PICK d \in Clients : Connect(d) \/ StreamStep(d) \/ Disconnect(d)
      BY <2>4
    <3>2. CASE d # c
      BY <3>1, <3>2, OtherClientsUntouched
    <3>3. CASE d = c
      BY <3>1, <3>3, ConnectKeepsStream, StreamStepKeepsStream, LeaveKeepsStream
         DEF Disconnect
    <3> QED
      BY <3>2, <3>3
  <2> QED
    BY <2>1, <2>2, <2>3, <2>4 DEF Next
<1> QED
  BY <1>1, <1>2 DEF StreamInv

LEMMA StreamInvInit == Init => StreamInv
<1> SUFFICES ASSUME Init PROVE StreamInv
  OBVIOUS
<1>1. TypeOK
  <2>1. <<>> \in Seq(Event) /\ 0 \in 0..MaxEvents /\ 0 \in 0..MaxDrops
    BY StreamBoundsAssumption
  <2>2. /\ buffer \in [Clients -> Seq(Event)]
        /\ received \in [Clients -> Seq(Event)]
    BY <2>1 DEF Init
  <2>3. /\ pc \in [Clients -> {"off", "replay", "send", "subscribe", "wait",
                                "ended"}]
        /\ cursor \in [Clients -> 0..MaxEvents]
        /\ seen \in [Clients -> 0..MaxEvents]
        /\ inbox \in [Clients -> Nat]
    BY <2>1 DEF Init
  <2>4. /\ pending \in [Writers -> 0..2] /\ notice \in [Writers -> BOOLEAN]
        /\ follow \in [Clients -> BOOLEAN]
        /\ subscribed \in [Clients -> BOOLEAN]
    BY DEF Init
  <2>5. /\ status = "running" /\ log \in 0..MaxEvents /\ lost \in BOOLEAN
        /\ drops \in 0..MaxDrops
    BY <2>1 DEF Init
  <2> QED
    BY <2>2, <2>3, <2>4, <2>5 DEF TypeOK
<1>2. ASSUME NEW c \in Clients PROVE Prefix(c) /\ Ahead(c) /\ Awake(c)
  <2>1. /\ log = 0 /\ received[c] = <<>> /\ buffer[c] = <<>>
        /\ pc[c] = "off" /\ subscribed[c] = FALSE
    BY DEF Init
  <2> QED
    BY <2>1 DEF Prefix, Ahead, Awake
<1> QED
  BY <1>1, <1>2 DEF StreamInv

\* Clients have the first events in their order, a stream's cursor stands
\* after what it has read, and what it has not read will wake it.
THEOREM StreamInvariant == Spec => []StreamInv
BY StreamInvInit, StreamInvNext, PTL DEF Spec

-----------------------------------------------------------------------------
\* The types hold; the bound on the cursor says that no stream runs ahead of
\* the log it reads (EventStreamService.stream, replay).
THEOREM StreamTypeCorrect == Spec => []TypeOK
BY StreamInvariant, PTL DEF StreamInv

\* EventStreamService.stream subscribes before its second replay: no stream
\* waits for a notice that was sent before it listened.
THEOREM NoWakeupIsLost == Spec => []NoLostWakeup
<1>1. StreamInv => NoLostWakeup
  BY DEF StreamInv, Awake, NoLostWakeup
<1> QED
  BY <1>1, StreamInvariant, PTL

\* Every step of the writers and of the streams is one event more in the log,
\* the next event delivered to one client, or nothing the feed can see.
LEMMA StreamStepsAreFeedSteps ==
  StreamInv /\ [Next]_vars => [Feed!Next]_(Feed!vars)
<1> SUFFICES ASSUME StreamInv, [Next]_vars PROVE [Feed!Next]_(Feed!vars)
  OBVIOUS
<1>0. TypeOK
  BY DEF StreamInv
<1>1. ASSUME NEW w \in Writers, AppendEvent(w) PROVE Feed!Extend
  BY <1>1 DEF AppendEvent, clientVars, Feed!Extend
<1>2. ASSUME NEW c \in Clients, Send(c) PROVE Feed!Deliver(c)
  <2>1. Prefix(c) /\ Ahead(c)
    BY DEF StreamInv
  <2>2. /\ pc[c] = "send" /\ buffer[c] # <<>>
        /\ buffer[c] \in Seq(Event) /\ log \in Nat
        /\ Len(received[c]) \in Nat
        /\ received' = [received EXCEPT ![c] = Append(@, Head(buffer[c]))]
        /\ UNCHANGED log
    BY <1>0, <1>2, StreamBoundsAssumption DEF Send, writerVars, TypeOK
  <2>3. Len(buffer[c]) >= 1 /\ Head(buffer[c]) = buffer[c][1]
    BY <2>2
  <2>4. /\ \A i \in 1..Len(buffer[c]) : buffer[c][i] = Len(received[c]) + i
        /\ Len(received[c]) + Len(buffer[c]) <= log
    BY <2>1, <2>2 DEF Ahead
  <2>5. Len(buffer[c]) \in Nat /\ 1 \in 1..Len(buffer[c])
    BY <2>2, <2>3
  <2>6. Head(buffer[c]) = Len(received[c]) + 1
    BY <2>3, <2>4, <2>5
  <2>7. Len(received[c]) < log
    <3> DEFINE had == Len(received[c])
    <3> DEFINE left == Len(buffer[c])
    <3>1. /\ had \in Nat /\ left \in Nat /\ log \in Nat
          /\ left >= 1 /\ had + left <= log
      BY <2>2, <2>3, <2>4, <2>5
    <3> HIDE DEF had, left
    <3>2. had < log
      BY <3>1
    <3> QED
      BY <3>2 DEF had
  <2> QED
    BY <2>2, <2>6, <2>7 DEF Feed!Deliver
<1>3. CASE UNCHANGED <<log, received>>
  BY <1>3 DEF Feed!vars
<1>4. CASE UNCHANGED vars
  BY <1>3, <1>4 DEF vars, writerVars, clientVars
<1>5. ASSUME NEW w \in Writers,
             SaveStep(w) \/ PublishEvent(w) \/ WriterStops(w)
               \/ RequestCancel \/ Decide
      PROVE  UNCHANGED <<log, received>>
  BY <1>5 DEF SaveStep, PublishEvent, WriterStops, RequestCancel, Decide, clientVars
<1>6. ASSUME NEW c \in Clients,
             Connect(c) \/ Replay(c) \/ CheckStatus(c) \/ Subscribe(c)
               \/ Wait(c) \/ Disconnect(c)
      PROVE  UNCHANGED <<log, received>>
  BY <1>6 DEF Connect, Replay, CheckStatus, Subscribe, Wait, Disconnect, Leave,
              writerVars
<1>7. CASE RequestCancel \/ Decide
  BY <1>3, <1>7 DEF RequestCancel, Decide, clientVars
<1> QED
  BY <1>1, <1>2, <1>3, <1>4, <1>5, <1>6, <1>7 DEF Next, StreamStep, Feed!Next

\* "SSE reconnect after a known sequence produces no event gap": streams, with
\* their pages, their reconnects and Last-Event-ID, implement the feed.
THEOREM StreamsImplementFeed == Spec => Feed!SafeSpec
<1>1. Init => Feed!Init
  BY DEF Init, Feed!Init
<1> QED
  BY <1>1, StreamInvariant, StreamStepsAreFeedSteps, PTL DEF Spec, Feed!SafeSpec
=============================================================================
