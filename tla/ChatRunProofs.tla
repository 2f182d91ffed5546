---------------------------- MODULE ChatRunProofs ----------------------------
(***************************************************************************)
(* Proofs about the in-process chat path, for any number of runs, requests *)
(* and restarts, any tools and any step limit.                             *)
(*                                                                         *)
(* The invariant says who writes to a run.  Its chat handler does as long  *)
(* as its sequence number is the next one of the log; a decision takes two *)
(* numbers, and from then on the handler that took it writes.  A handler   *)
(* that lost its turn has nothing left to append but run.waiting_approval, *)
(* at a number that is taken.                                              *)
(***************************************************************************)
EXTENDS ChatRun, AgentRuntimeProofs, FiniteSetTheorems

Streaming(r) == chat[r].phase = "streaming"
Writes(r) == Streaming(r) /\ chat[r].sequence = Len(events[r])
Resuming(d) == decider[d].phase = "resuming"
Resumers(r) == {d \in Deciders : Resuming(d) /\ decider[d].run = r}

End == {"run.completed", "run.failed"}
CountIn(q, names) == Cardinality({i \in DOMAIN q : q[i] \in names})
Spent(r) == ToolStepLimit * Count(r, Decisions)

\* A handler that resumes a run is its only writer; it works on a running
\* run, or keeps the event loop on a waiting one to ask for its approval.
DeciderOk(d) ==
  LET r == decider[d].run IN
  Resuming(d) =>
    /\ decider[d].sequence = Len(events[r])
    /\ ~Writes(r)
    /\ row[r].status = IF loop = d THEN "waiting_approval" ELSE "running"
    /\ loop = d => Pausing(decider[d].checkpoint)
    /\ messages[r] = <<"user">>
    /\ Len(ran[r]) < Spent(r) + decider[d].checkpoint.next_step
    /\ Resumers(r) = {d}

\* What a streaming handler may still owe.
ChatOk(r) ==
  Streaming(r) =>
    /\ chat[r].sequence \in 1..Len(events[r])
    /\ chat[r].checkpoint.approval_decision = "undecided"
    /\ chat[r].payloads \in {<<>>, <<"tool.completed">>, <<"tool.failed">>,
                             <<"run.waiting_approval">>, <<"run.completed">>}
    /\ chat[r].payloads \in {<<"run.waiting_approval">>, <<"run.completed">>}
         => chat[r].over
    /\ ~Writes(r) => chat[r].over

\* The row and the messages of a run its chat handler writes to.
WriterOk(r) ==
  Writes(r) =>
    /\ chat[r].payloads = <<"run.waiting_approval">> => row[r].status = "waiting_approval"
    /\ chat[r].payloads \in {<<"tool.completed">>, <<"tool.failed">>, <<"run.completed">>}
         => row[r].status = "running"
    /\ chat[r].payloads = <<>> /\ ~chat[r].over => row[r].status = "running"
    /\ messages[r] = IF chat[r].payloads = <<"run.completed">> \/ row[r].status = "completed"
                       THEN <<"user", "assistant">> ELSE <<"user">>
    /\ Len(ran[r]) < Spent(r) + chat[r].checkpoint.next_step

\* The row of a run, its log, its messages and the tools it ran.
Entitled(r) == \E d \in Resumers(r) : decider[d].checkpoint.approval_decision = "approved"
Approved(r) == CountIn(ran[r], ApprovalTools)

RowOk(r) ==
  /\ row[r].status = "absent" <=> chat[r].phase = "idle"
  /\ row[r].status = "absent" =>
       /\ events[r] = <<>> /\ ran[r] = <<>>
       /\ chat[r].payloads = <<>> /\ ~chat[r].over
       /\ chat[r].checkpoint = FreshCheckpoint
  /\ row[r].status = "waiting_approval" => Claimable(r) /\ messages[r] = <<"user">>
  /\ row[r].status = "completed" => messages[r] = <<"user", "assistant">>

NoEnd(q) == \A i \in DOMAIN q : q[i] \notin End
Ends(q) == /\ q # <<>> /\ q[Len(q)] \in End
           /\ \A i \in DOMAIN q : q[i] \in End => i = Len(q)

LogOk(r) == IF row[r].status \in {"completed", "failed"}
              THEN Ends(events[r]) ELSE NoEnd(events[r])

CountsOk(r) ==
  /\ Count(r, Decisions) + (IF row[r].status = "waiting_approval" THEN 1 ELSE 0)
       <= Count(r, {"approval.required"})
  /\ Approved(r) + (IF Entitled(r) THEN 1 ELSE 0) <= Count(r, {"approval.approved"})
  /\ Len(ran[r]) <= Spent(r) + ToolStepLimit

OkAt(r) ==
  /\ ChatOk(r) /\ WriterOk(r) /\ RowOk(r) /\ LogOk(r) /\ CountsOk(r)
  /\ \A d \in Deciders : decider[d].run = r => DeciderOk(d)

ChatInv ==
  /\ TypeOK
  /\ loop \in Deciders => Resuming(loop)
  /\ \A r \in Runs : OkAt(r)

-----------------------------------------------------------------------------
(* The engine *)

\* A step that runs a tool uses up one step and the decision; the others use
\* up neither.
LEMMA OutcomeRan ==
  ASSUME NEW c \in ExecutionCheckpoint, NEW o \in Outcomes(c)
  PROVE  \/ o.ran = NoTool /\ o.checkpoint.next_step = c.next_step
         \/ /\ o.ran \in Tools
            /\ o.checkpoint.next_step = c.next_step + 1
            /\ o.checkpoint.approval_decision = "undecided"
<1> DEFINE Fields == [next_step : 1..(ToolStepLimit + 1),
                      pending_action : CheckpointAction,
                      pending_tool : ToolName,
                      approval_decision : ApprovalDecision]
<1>0. c \in Fields
  BY DEF ExecutionCheckpoint
<1>1. CASE o.ran = NoTool
  <2>2. CASE c.pending_action = "plan"
    <3>1. o \in PlanOutcomes(c)
      BY <2>2 DEF Outcomes
    <3>2. PICK d \in {[c EXCEPT !.pending_action = "answer"]} \cup
                     {[c EXCEPT !.pending_action = "tool", !.pending_tool = t]
                        : t \in ToolName} :
            o = Progress("plan", d, <<"planner.completed">>, NoTool)
      BY <3>1 DEF PlanOutcomes
    <3>3. d.next_step = c.next_step
      BY <1>0, <3>2
    <3>4. o.checkpoint = d
      BY <3>2 DEF Progress
    <3> QED
      BY <1>1, <3>3, <3>4
  <2>3. CASE c.pending_action = "answer"
    <3>1. o \in AnswerOutcomes(c)
      BY <2>3 DEF Outcomes
    <3> QED
      BY <1>1, <3>1 DEF AnswerOutcomes
  <2>4. CASE c.pending_action = "tool"
    <3>1. o \in ToolOutcomes(c)
      BY <2>4 DEF Outcomes
    <3>2. o \in ExecuteTool(c) => o.ran = c.pending_tool
      BY DEF ExecuteTool, Progress
    <3>3. CASE o \in ExecuteTool(c)
      <4>1. c.pending_tool = NoTool
        BY <1>1, <3>2, <3>3
      <4>2. o = Progress("tool_call", [c EXCEPT !.pending_action = "answer"], <<>>, NoTool)
        BY <3>1, <4>1 DEF ToolOutcomes
      <4>3. [c EXCEPT !.pending_action = "answer"].next_step = c.next_step
        BY <1>0
      <4>4. o.checkpoint = [c EXCEPT !.pending_action = "answer"]
        BY <4>2 DEF Progress
      <4> QED
        BY <1>1, <4>3, <4>4
    <3>4. CASE o \notin ExecuteTool(c)
      <4>1. \/ o.checkpoint = c
            \/ \E d \in {c, ClearPendingTool(c)} :
                 o.checkpoint = [d EXCEPT !.pending_action = "answer"]
        BY <3>1, <3>4 DEF ToolOutcomes, Progress
      <4>2. \A d \in {c, ClearPendingTool(c)} :
              [d EXCEPT !.pending_action = "answer"].next_step = c.next_step
        BY <1>0 DEF ClearPendingTool
      <4> QED
        BY <1>1, <4>1, <4>2
    <3> QED
      BY <3>3, <3>4
  <2> QED
    BY <2>2, <2>3, <2>4 DEF ExecutionCheckpoint, CheckpointAction
<1>2. CASE o.ran # NoTool
  <2>1. c.pending_action # "plan"
    <3>1. ASSUME o \in PlanOutcomes(c)
          PROVE  FALSE
      <4>1. PICK d : o = Progress("plan", d, <<"planner.completed">>, NoTool)
        BY <3>1 DEF PlanOutcomes
      <4> QED
        BY <1>2, <4>1 DEF Progress
    <3> QED
      BY <3>1 DEF Outcomes
  <2>2. c.pending_action # "answer"
    BY <1>2 DEF Outcomes, AnswerOutcomes
  <2>3. o \in ToolOutcomes(c)
    BY <2>1, <2>2 DEF Outcomes, ExecutionCheckpoint, CheckpointAction
  <2>4. o \in ExecuteTool(c)
    BY <1>2, <2>3 DEF ToolOutcomes, Progress
  <2>5. PICK act \in {"answer", IF c.next_step + 1 > ToolStepLimit
                                  THEN "answer" ELSE "plan"},
             evs \in {<<"tool.requested", "tool.completed">>,
                      <<"tool.requested", "tool.failed">>} :
          o = Progress("tool_call",
                       [ClearPendingTool(c) EXCEPT
                          !.next_step = c.next_step + 1,
                          !.pending_action = act],
                       evs, c.pending_tool)
    BY <2>4 DEF ExecuteTool
  <2>6. /\ ClearPendingTool(c) \in Fields
        /\ ClearPendingTool(c).approval_decision = "undecided"
    BY <1>0 DEF ClearPendingTool, ToolName, ApprovalDecision
  <2>7. /\ o.checkpoint.next_step = c.next_step + 1
        /\ o.checkpoint.approval_decision = "undecided"
    BY <2>5, <2>6 DEF Progress
  <2>8. o.ran \in Tools
    BY <1>2, OutcomeType DEF StepOutcome
  <2> QED
    BY <2>7, <2>8
<1> QED
  BY <1>1, <1>2

\* What an outcome appends: an answer, a request, or nothing that counts.
LEMMA OutcomeLog ==
  ASSUME NEW c \in ExecutionCheckpoint, NEW o \in Outcomes(c)
  PROVE  \/ o = Answer(c)
         \/ o = Pause(c) /\ c.pending_tool \in ApprovalTools
         \/ o.events \in QuietLogs /\ ~o.waiting /\ ~o.completed
<1>1. ASSUME NEW type, NEW d, NEW tool, NEW evs, o = Progress(type, d, evs, tool)
      PROVE  o.events = evs /\ ~o.waiting /\ ~o.completed
  BY <1>1 DEF Progress
<1> QED
  BY <1>1, OutcomeCases DEF Pausing

-----------------------------------------------------------------------------
(* Logs *)

LEMMA CountAppend ==
  ASSUME NEW S, NEW q \in Seq(S), NEW e \in S, NEW names
  PROVE  /\ CountIn(q, names) \in Nat
         /\ CountIn(Append(q, e), names)
              = CountIn(q, names) + (IF e \in names THEN 1 ELSE 0)
<1> DEFINE P(p) == {i \in DOMAIN p : p[i] \in names}
           n == Len(q) + 1
<1>1. Len(q) \in Nat /\ DOMAIN q = 1..Len(q) /\ DOMAIN Append(q, e) = 1..n
  OBVIOUS
<1>2. IsFiniteSet(P(q))
  <2>1. IsFiniteSet(1..Len(q))
    BY <1>1, FS_Interval
  <2> QED
    BY <1>1, <2>1, FS_Subset
<1>3. \A i \in 1..Len(q) : Append(q, e)[i] = q[i]
  OBVIOUS
<1>4. Append(q, e)[n] = e
  OBVIOUS
<1>5. P(Append(q, e)) = IF e \in names THEN P(q) \cup {n} ELSE P(q)
  <2> HIDE DEF n
  <2>1. 1..n = (1..Len(q)) \cup {n}
    BY <1>1 DEF n
  <2> QED
    BY <1>1, <1>3, <1>4, <2>1
<1>6. n \notin P(q)
  BY <1>1
<1>7. Cardinality(P(q)) \in Nat
  BY <1>2, FS_CardinalityType
<1>8. Cardinality(P(q) \cup {n}) = Cardinality(P(q)) + 1
  BY <1>2, <1>6, FS_AddElement, Zenon
<1>9. \A p : CountIn(p, names) = Cardinality(P(p))
  BY DEF CountIn
<1> DEFINE size(p) == Cardinality(P(p))
<1>10. size(Append(q, e)) = size(q) + (IF e \in names THEN 1 ELSE 0)
  <2> HIDE DEF P, n
  <2>1. CASE e \in names
    BY <1>5, <1>7, <1>8, <2>1
  <2>2. CASE e \notin names
    BY <1>5, <1>7, <2>2
  <2> QED
    BY <2>1, <2>2
<1> QED
  BY <1>7, <1>9, <1>10

LEMMA AppendIsConcat ==
  ASSUME NEW S, NEW q \in Seq(S)
  PROVE  /\ q \o <<>> = q
         /\ \A a \in S : q \o <<a>> = Append(q, a)
         /\ \A a, b \in S : q \o <<a, b>> = Append(Append(q, a), b)
<1>1. q \o <<>> = q
  OBVIOUS
<1>2. ASSUME NEW a \in S
      PROVE  q \o <<a>> = Append(q, a)
  OBVIOUS
<1>3. ASSUME NEW a \in S, NEW b \in S
      PROVE  q \o <<a, b>> = Append(Append(q, a), b)
  OBVIOUS
<1> QED
  BY <1>1, <1>2, <1>3

LEMMA EndAppend ==
  ASSUME NEW S, NEW q \in Seq(S), NEW e \in S, NoEnd(q)
  PROVE  /\ e \notin End => NoEnd(Append(q, e))
         /\ e \in End => Ends(Append(q, e))
<1>1. /\ Len(q) \in Nat /\ DOMAIN q = 1..Len(q)
      /\ DOMAIN Append(q, e) = 1..(Len(q) + 1)
      /\ Len(Append(q, e)) = Len(q) + 1
      /\ Append(q, e)[Len(q) + 1] = e
      /\ Append(q, e) # <<>>
  OBVIOUS
<1>2. \A i \in 1..Len(q) : Append(q, e)[i] = q[i]
  OBVIOUS
<1>3. \A i \in 1..Len(q) : Append(q, e)[i] \notin End
  BY <1>1, <1>2 DEF NoEnd
<1>4. \A i \in 1..(Len(q) + 1) : i \in 1..Len(q) \/ i = Len(q) + 1
  BY <1>1
<1> QED
  BY <1>1, <1>3, <1>4 DEF NoEnd, Ends

\* The logs of runs: what an append does to all that is said about them.
Counted == {Decisions, {"approval.required"}, {"approval.approved"}}

\* The events that change no count, no end, no row and no message.
QuietEvent == {"planner.completed", "tool.requested", "tool.completed", "tool.failed"}

LEMMA QuietEventFacts ==
  ASSUME NEW e \in QuietEvent
  PROVE  /\ e \in EventName /\ e \in RunEvent /\ e \notin End
         /\ e # "assistant.message"
         /\ \A names \in Counted : e \notin names
         /\ \A ro, tool : ApplyRunUpdates(ro, e, tool) = ro
  BY DEF QuietEvent, EventName, RunEvent, End, Counted, Decisions, ApplyRunUpdates

LEMMA QuietAppend ==
  ASSUME NEW q \in Seq(RunEvent), NEW e \in QuietEvent
  PROVE  /\ Append(q, e) \in Seq(RunEvent)
         /\ Len(Append(q, e)) = Len(q) + 1
         /\ \A names \in Counted : CountIn(Append(q, e), names) = CountIn(q, names)
         /\ NoEnd(q) => NoEnd(Append(q, e))
<1>1. e \in RunEvent /\ e \notin End
  BY QuietEventFacts
<1>2. ASSUME NEW names \in Counted
      PROVE  CountIn(Append(q, e), names) = CountIn(q, names)
  <2>1. e \notin names
    BY QuietEventFacts
  <2> QED
    BY <1>1, <2>1, CountAppend
<1>3. NoEnd(q) => NoEnd(Append(q, e))
  BY <1>1, EndAppend
<1> QED
  BY <1>1, <1>2, <1>3

LEMMA QuietConcat ==
  ASSUME NEW q \in Seq(RunEvent), NEW evs \in QuietLogs
  PROVE  /\ q \o evs \in Seq(RunEvent)
         /\ Len(q \o evs) = Len(q) + Len(evs)
         /\ \A names \in Counted : CountIn(q \o evs, names) = CountIn(q, names)
         /\ NoEnd(q) => NoEnd(q \o evs)
<1>1. CASE evs = <<>>
  <2>1. q \o evs = q /\ Len(evs) = 0
    BY <1>1
  <2> QED
    BY <2>1
<1>2. CASE \E e \in QuietEvent : evs = <<e>>
  <2>1. PICK e \in QuietEvent : evs = <<e>>
    BY <1>2
  <2>2. q \o evs = Append(q, e)
    BY <2>1, QuietEventFacts, AppendIsConcat
  <2>3. Len(evs) = 1
    BY <2>1
  <2> QED
    BY <2>2, <2>3, QuietAppend
<1>3. CASE \E e, f \in QuietEvent : evs = <<e, f>>
  <2>1. PICK e \in QuietEvent, f \in QuietEvent : evs = <<e, f>>
    BY <1>3
  <2>2. q \o evs = Append(Append(q, e), f)
    BY <2>1, QuietEventFacts, AppendIsConcat
  <2>3. Len(evs) = 2
    BY <2>1
  <2>4. Append(q, e) \in Seq(RunEvent)
    BY QuietAppend
  <2>5. /\ Append(Append(q, e), f) \in Seq(RunEvent)
        /\ Len(Append(Append(q, e), f)) = Len(Append(q, e)) + 1
        /\ \A names \in Counted :
             CountIn(Append(Append(q, e), f), names) = CountIn(Append(q, e), names)
        /\ NoEnd(Append(q, e)) => NoEnd(Append(Append(q, e), f))
    BY <2>4, QuietAppend
  <2>6. /\ Len(Append(q, e)) = Len(q) + 1
        /\ \A names \in Counted : CountIn(Append(q, e), names) = CountIn(q, names)
        /\ NoEnd(q) => NoEnd(Append(q, e))
    BY QuietAppend
  <2>7. Len(q) + 1 + 1 = Len(q) + 2
    OBVIOUS
  <2> QED
    BY <2>2, <2>3, <2>5, <2>6, <2>7
<1>4. \/ evs = <<>> \/ evs \in {<<"planner.completed">>, <<"tool.failed">>}
      \/ evs \in {<<"tool.requested", "tool.completed">>,
                  <<"tool.requested", "tool.failed">>}
  BY DEF QuietLogs
<1> QED
  BY <1>1, <1>2, <1>3, <1>4 DEF QuietEvent

\* Spent budgets grow by the step limit with every decision.
LEMMA SpentFacts ==
  ASSUME NEW n \in Nat
  PROVE  /\ ToolStepLimit * n \in Nat
         /\ ToolStepLimit * (n + 1) = ToolStepLimit * n + ToolStepLimit
  BY ToolStepLimitPos

-----------------------------------------------------------------------------
(* Types *)

LEMMA RowType ==
  ASSUME NEW ro \in Row, NEW e, NEW tool \in ToolName
  PROVE  ApplyRunUpdates(ro, e, tool) \in Row
<1>1. NoTool \in ToolName
  BY DEF ToolName
<1>2. ApplyRunUpdates(ro, e, tool) \in
        {[status |-> "waiting_approval", approval_status |-> "pending",
          pending_tool_name |-> tool],
         [ro EXCEPT !.status = "waiting_approval"],
         [ro EXCEPT !.status = "running", !.approval_status = "approved"],
         [ro EXCEPT !.approval_status = "rejected"],
         [ro EXCEPT !.status = "running"],
         [ro EXCEPT !.status = "completed", !.pending_tool_name = NoTool],
         [ro EXCEPT !.status = "failed", !.pending_tool_name = NoTool], ro}
  BY DEF ApplyRunUpdates
<1>3. /\ [ro EXCEPT !.status = "waiting_approval"] \in Row
      /\ [ro EXCEPT !.status = "running"] \in Row
      /\ [ro EXCEPT !.approval_status = "rejected"] \in Row
  BY DEF Row
<1>4. [ro EXCEPT !.status = "running", !.approval_status = "approved"] \in Row
  BY DEF Row
<1>5. /\ [ro EXCEPT !.status = "completed", !.pending_tool_name = NoTool] \in Row
      /\ [ro EXCEPT !.status = "failed", !.pending_tool_name = NoTool] \in Row
  BY <1>1 DEF Row
<1>6. [status |-> "waiting_approval", approval_status |-> "pending",
       pending_tool_name |-> tool] \in Row
  BY DEF Row
<1> QED
  BY <1>2, <1>3, <1>4, <1>5, <1>6

LEMMA InitType == Init => TypeOK
<1> SUFFICES ASSUME Init PROVE TypeOK
  OBVIOUS
<1>1. NoRow \in Row
  BY DEF NoRow, Row, ToolName
<1>2. row \in [Runs -> Row]
  BY <1>1 DEF Init
<1>3. /\ events \in [Runs -> Seq(RunEvent)]
      /\ messages \in [Runs -> Seq({"user", "assistant"})]
      /\ ran \in [Runs -> Seq(Tools)]
  BY ShortLogs DEF Init
<1>4. [phase |-> "idle", sequence |-> 0, checkpoint |-> FreshCheckpoint,
       payloads |-> <<>>, over |-> FALSE] \in ChatHandler
  BY FreshCheckpointType, ShortLogs DEF ChatHandler
<1>5. chat \in [Runs -> ChatHandler]
  BY <1>4 DEF Init
<1>6. decider \in [Deciders -> DecisionHandler]
  <2>1. [phase : {"idle"}, run : Runs, sequence : {0}, checkpoint : {FreshCheckpoint}]
           \subseteq DecisionHandler
    BY FreshCheckpointType DEF DecisionHandler
  <2> QED
    BY <2>1 DEF Init
<1> QED
  BY <1>2, <1>3, <1>5, <1>6 DEF Init, TypeOK

\* Appending events and storing the row they give.
LEMMA AppendEventType ==
  ASSUME TypeOK, NEW r \in Runs, NEW e \in RunEvent, NEW tool \in ToolName,
         AppendEvent(r, e, tool)
  PROVE  events' \in [Runs -> Seq(RunEvent)] /\ row' \in [Runs -> Row]
<1>1. Append(events[r], e) \in Seq(RunEvent)
  BY DEF TypeOK
<1>2. ApplyRunUpdates(row[r], e, tool) \in Row
  BY RowType DEF TypeOK
<1> QED
  BY <1>1, <1>2 DEF AppendEvent, TypeOK

LEMMA AddMessagesType ==
  ASSUME TypeOK, NEW r \in Runs, NEW evs, AddMessages(r, evs)
  PROVE  messages' \in [Runs -> Seq({"user", "assistant"})]
<1>1. Append(messages[r], "assistant") \in Seq({"user", "assistant"})
  BY DEF TypeOK
<1> QED
  BY <1>1 DEF AddMessages, TypeOK

LEMMA RecordToolType ==
  ASSUME TypeOK, NEW r \in Runs, NEW c \in ExecutionCheckpoint,
         NEW o \in Outcomes(c), RecordTool(r, o)
  PROVE  ran' \in [Runs -> Seq(Tools)]
<1>1. o.ran = NoTool \/ o.ran \in Tools
  BY OutcomeRan
<1>2. o.ran \in Tools => Append(ran[r], o.ran) \in Seq(Tools)
  BY DEF TypeOK
<1> QED
  BY <1>1, <1>2 DEF RecordTool, TypeOK

LEMMA YieldType ==
  ASSUME TypeOK, NEW r \in Runs, NEW c \in ExecutionCheckpoint,
         NEW ps \in Seq(EventName), ps # <<>>, NEW over \in BOOLEAN,
         Yield(r, c, ps, over)
  PROVE  /\ row' \in [Runs -> Row]
         /\ events' \in [Runs -> Seq(RunEvent)]
         /\ messages' \in [Runs -> Seq({"user", "assistant"})]
         /\ chat' \in [Runs -> ChatHandler]
<1>1. CASE SequenceFree(r, chat[r].sequence)
  <2>1. Head(ps) \in EventName /\ Head(ps) \in RunEvent /\ Tail(ps) \in Seq(EventName)
    BY DEF RunEvent
  <2>2. /\ AppendEvent(r, Head(ps), c.pending_tool)
        /\ AddMessages(r, <<Head(ps)>>)
        /\ chat' = [chat EXCEPT ![r].sequence = @ + 1, ![r].checkpoint = c,
                                ![r].payloads = Tail(ps), ![r].over = over]
    BY <1>1 DEF Yield
  <2>3. c.pending_tool \in ToolName
    BY DEF ExecutionCheckpoint
  <2>4. chat' \in [Runs -> ChatHandler]
    <3> DEFINE new == [chat[r] EXCEPT !.sequence = @ + 1, !.checkpoint = c,
                                     !.payloads = Tail(ps), !.over = over]
    <3>0. chat[r] \in ChatHandler
      BY DEF TypeOK
    <3>1. new \in ChatHandler
      <4> DEFINE rest == Tail(ps)
      <4>1. rest \in Seq(EventName) /\ chat[r].sequence + 1 \in Nat
        BY <2>1, <3>0 DEF ChatHandler
      <4>2. [chat[r] EXCEPT !.sequence = @ + 1] \in ChatHandler
        BY <3>0, <4>1 DEF ChatHandler
      <4>3. new = [[chat[r] EXCEPT !.sequence = @ + 1] EXCEPT
                     !.checkpoint = c, !.payloads = rest, !.over = over]
        OBVIOUS
      <4> HIDE DEF rest, new
      <4> QED
        BY <4>1, <4>2, <4>3 DEF ChatHandler
    <3>2. chat' = [chat EXCEPT ![r] = new]
      BY <2>2
    <3> HIDE DEF new
    <3> QED
      BY <3>1, <3>2 DEF TypeOK
  <2> QED
    BY <2>1, <2>2, <2>3, <2>4, AppendEventType, AddMessagesType
<1>2. CASE ~SequenceFree(r, chat[r].sequence)
  <2>1. ChatRaises(r)
    BY <1>2 DEF Yield
  <2> QED
    BY <2>1 DEF ChatRaises, TypeOK, ChatHandler
<1> QED
  BY <1>1, <1>2

LEMMA AppendAllType ==
  ASSUME TypeOK, NEW r \in Runs, NEW evs \in Seq(EventName), NEW tool \in ToolName,
         AppendAll(r, evs, tool)
  PROVE  /\ row' \in [Runs -> Row]
         /\ events' \in [Runs -> Seq(RunEvent)]
         /\ messages' \in [Runs -> Seq({"user", "assistant"})]
<1>1. events[r] \o evs \in Seq(RunEvent)
  BY DEF TypeOK, RunEvent
<1>2. /\ ApplyRunUpdates(row[r], evs[1], tool) \in Row
      /\ ApplyRunUpdates(ApplyRunUpdates(row[r], evs[1], tool), evs[2], tool) \in Row
  BY RowType DEF TypeOK
<1>3. row' = [row EXCEPT ![r] =
       CASE Len(evs) = 1 -> ApplyRunUpdates(row[r], evs[1], tool)
         [] Len(evs) = 2 ->
              ApplyRunUpdates(ApplyRunUpdates(row[r], evs[1], tool), evs[2], tool)
         [] OTHER -> row[r]]
  BY DEF AppendAll
<1>4. row' \in [Runs -> Row]
  BY <1>2, <1>3 DEF TypeOK
<1>5. events' \in [Runs -> Seq(RunEvent)]
  BY <1>1 DEF AppendAll, TypeOK
<1>6. messages' \in [Runs -> Seq({"user", "assistant"})]
  BY AddMessagesType DEF AppendAll
<1> QED
  BY <1>4, <1>5, <1>6

LEMMA ChatPhaseType ==
  ASSUME TypeOK, NEW r \in Runs, NEW p \in {"returned", "raised", "gone"},
         chat' = [chat EXCEPT ![r].phase = p]
  PROVE  chat' \in [Runs -> ChatHandler]
<1>1. [chat[r] EXCEPT !.phase = p] \in ChatHandler
  BY DEF TypeOK, ChatHandler
<1>2. chat' = [chat EXCEPT ![r] = [chat[r] EXCEPT !.phase = p]]
  OBVIOUS
<1> QED
  BY <1>1, <1>2 DEF TypeOK

LEMMA TypeStep ==
  ASSUME TypeOK, [Next]_vars
  PROVE  TypeOK'
<1>0. NoTool \in ToolName
  BY DEF ToolName
<1>1. ASSUME NEW r \in Runs, StartChat(r)
      PROVE  TypeOK'
  <2>1. chat[r] \in ChatHandler /\ row[r] \in Row
    BY DEF TypeOK
  <2>2. [chat[r] EXCEPT !.phase = "streaming", !.sequence = 1] \in ChatHandler
    BY <2>1 DEF ChatHandler
  <2>3. [row[r] EXCEPT !.status = "running"] \in Row
    BY <2>1 DEF Row
  <2>4. chat' = [chat EXCEPT ![r] = [chat[r] EXCEPT !.phase = "streaming", !.sequence = 1]]
    BY <1>1 DEF StartChat
  <2>5. chat' \in [Runs -> ChatHandler]
    BY <2>2, <2>4 DEF TypeOK
  <2>6. row' \in [Runs -> Row]
    BY <1>1, <2>3 DEF StartChat, TypeOK
  <2>7. <<"run.started">> \in Seq(RunEvent) /\ <<"user">> \in Seq({"user", "assistant"})
    BY DEF RunEvent
  <2>8. /\ events' \in [Runs -> Seq(RunEvent)]
        /\ messages' \in [Runs -> Seq({"user", "assistant"})]
    BY <1>1, <2>7 DEF StartChat, TypeOK
  <2> QED
    BY <1>1, <2>5, <2>6, <2>8 DEF StartChat, TypeOK
<1>2. ASSUME NEW r \in Runs, ChatPayload(r)
      PROVE  TypeOK'
  <2>1. chat[r] \in ChatHandler
    BY DEF TypeOK
  <2>2. Yield(r, chat[r].checkpoint, chat[r].payloads, chat[r].over)
    BY <1>2 DEF ChatPayload
  <2>3. /\ row' \in [Runs -> Row]
        /\ events' \in [Runs -> Seq(RunEvent)]
        /\ messages' \in [Runs -> Seq({"user", "assistant"})]
        /\ chat' \in [Runs -> ChatHandler]
    BY <1>2, <2>1, <2>2, YieldType DEF ChatPayload, ChatHandler
  <2> QED
    BY <1>2, <2>3 DEF ChatPayload, TypeOK
<1>3. ASSUME NEW r \in Runs, ChatAdvance(r)
      PROVE  TypeOK'
  <2>1. chat[r] \in ChatHandler /\ chat[r].checkpoint \in ExecutionCheckpoint
    BY DEF TypeOK, ChatHandler
  <2>2. PICK o \in Outcomes(chat[r].checkpoint) :
          /\ IF o.events = <<>>
               THEN /\ chat' = [chat EXCEPT ![r].checkpoint = o.checkpoint]
                    /\ UNCHANGED <<row, events, messages>>
               ELSE Yield(r, o.checkpoint, o.events, o.waiting \/ o.completed)
          /\ RecordTool(r, o)
    BY <1>3 DEF ChatAdvance
  <2>3. /\ o.checkpoint \in ExecutionCheckpoint /\ o.events \in Seq(EventName)
        /\ (o.waiting \/ o.completed) \in BOOLEAN
    BY <2>1, OutcomeType DEF StepOutcome
  <2>4. /\ row' \in [Runs -> Row]
        /\ events' \in [Runs -> Seq(RunEvent)]
        /\ messages' \in [Runs -> Seq({"user", "assistant"})]
        /\ chat' \in [Runs -> ChatHandler]
    <3>1. CASE o.events = <<>>
      <4>1. [chat[r] EXCEPT !.checkpoint = o.checkpoint] \in ChatHandler
        BY <2>1, <2>3 DEF ChatHandler
      <4>2. chat' = [chat EXCEPT ![r] = [chat[r] EXCEPT !.checkpoint = o.checkpoint]]
        BY <2>2, <3>1
      <4> QED
        BY <2>2, <3>1, <4>1, <4>2 DEF TypeOK
    <3>2. CASE o.events # <<>>
      <4>1. Yield(r, o.checkpoint, o.events, o.waiting \/ o.completed)
        BY <2>2, <3>2
      <4> QED
        BY <2>3, <3>2, <4>1, YieldType
    <3> QED
      BY <3>1, <3>2
  <2>5. ran' \in [Runs -> Seq(Tools)]
    BY <2>1, <2>2, RecordToolType
  <2> QED
    BY <1>3, <2>4, <2>5 DEF ChatAdvance, TypeOK
<1>4. ASSUME NEW r \in Runs, ChatFails(r)
      PROVE  TypeOK'
  <2>1. "run.failed" \in RunEvent
    BY DEF RunEvent
  <2>2. chat' = [chat EXCEPT ![r].phase = "returned"] \/ chat' = [chat EXCEPT ![r].phase = "raised"]
    BY <1>4 DEF ChatFails, ChatRaises
  <2>3. chat' \in [Runs -> ChatHandler]
    BY <2>2, ChatPhaseType
  <2>4. events' \in [Runs -> Seq(RunEvent)] /\ row' \in [Runs -> Row]
    BY <1>0, <1>4, <2>1, AppendEventType DEF ChatFails, ChatRaises, TypeOK
  <2> QED
    BY <1>4, <2>3, <2>4 DEF ChatFails, ChatRaises, TypeOK
<1>5. ASSUME NEW r \in Runs, ChatReturns(r) \/ Disconnect(r)
      PROVE  TypeOK'
  <2>1. chat' = [chat EXCEPT ![r].phase = "returned"] \/ chat' = [chat EXCEPT ![r].phase = "gone"]
    BY <1>5 DEF ChatReturns, Disconnect
  <2>2. chat' \in [Runs -> ChatHandler]
    BY <2>1, ChatPhaseType
  <2> QED
    BY <1>5, <2>2 DEF ChatReturns, Disconnect, TypeOK
<1>6. ASSUME NEW d \in Deciders, NEW x \in {"approved", "rejected"}, Decide(d, x)
      PROVE  TypeOK'
  <2> DEFINE r == decider[d].run
             name == IF x = "approved" THEN "approval.approved" ELSE "approval.rejected"
             claimed == [row[r] EXCEPT !.approval_status = x, !.status = "running"]
             new == [decider[d] EXCEPT !.phase = "resuming",
                       !.sequence = Len(events[r]) + 2,
                       !.checkpoint = ResumeCheckpoint(row[r].pending_tool_name, x)]
  <2>1. decider[d] \in DecisionHandler /\ r \in Runs
    BY DEF TypeOK, DecisionHandler
  <2>2. row[r] \in Row /\ events[r] \in Seq(RunEvent) /\ row[r].pending_tool_name \in ToolName
    BY <2>1 DEF TypeOK, Row
  <2>3. claimed \in Row
    BY <2>2 DEF Row
  <2>4. row' = [row EXCEPT ![r] =
                  ApplyRunUpdates(ApplyRunUpdates(claimed, name, NoTool), "run.resumed", NoTool)]
    BY <1>6 DEF Decide
  <2>5. row' \in [Runs -> Row]
    <3> HIDE DEF claimed, name, r
    <3>1. ApplyRunUpdates(ApplyRunUpdates(claimed, name, NoTool), "run.resumed", NoTool) \in Row
      BY <1>0, <2>3, RowType
    <3> QED
      BY <2>4, <3>1 DEF TypeOK
  <2>6. events[r] \o <<name, "run.resumed">> \in Seq(RunEvent)
    BY <2>2 DEF RunEvent
  <2>7. events' \in [Runs -> Seq(RunEvent)]
    BY <1>6, <2>6 DEF Decide, TypeOK
  <2>8. ResumeCheckpoint(row[r].pending_tool_name, x) \in ExecutionCheckpoint
    BY <2>2, ToolStepLimitPos
    DEF ResumeCheckpoint, ExecutionCheckpoint, CheckpointAction, ApprovalDecision
  <2>9. new \in DecisionHandler
    <3> HIDE DEF r
    <3>1. Len(events[r]) + 2 \in Nat
      BY <2>2
    <3> QED
      BY <2>1, <2>8, <3>1 DEF DecisionHandler
  <2>10. decider' = [decider EXCEPT ![d] = new]
    BY <1>6 DEF Decide
  <2>11. decider' \in [Deciders -> DecisionHandler]
    BY <2>9, <2>10 DEF TypeOK
  <2> QED
    BY <1>6, <2>5, <2>7, <2>11 DEF Decide, TypeOK
<1>7. ASSUME NEW d \in Deciders, ResumeAdvance(d)
      PROVE  TypeOK'
  <2> DEFINE r == decider[d].run
  <2>1. /\ decider[d] \in DecisionHandler /\ r \in Runs
        /\ decider[d].checkpoint \in ExecutionCheckpoint
    BY DEF TypeOK, DecisionHandler
  <2>2. PICK o \in Outcomes(decider[d].checkpoint) :
          /\ IF o.events = <<>> \/ SequenceFree(r, decider[d].sequence)
               THEN /\ AppendAll(r, o.events, o.checkpoint.pending_tool)
                    /\ decider' = [decider EXCEPT
                         ![d].phase = IF ResumeReturns(o) THEN "returned" ELSE @,
                         ![d].sequence = @ + Len(o.events),
                         ![d].checkpoint = o.checkpoint]
                    /\ loop' = IF o.waiting /\ ~ResumeReturns(o)
                                 THEN d ELSE NoHandler
               ELSE /\ decider' = [decider EXCEPT ![d].phase = "raised"]
                    /\ loop' = NoHandler
                    /\ UNCHANGED <<row, events, messages>>
          /\ RecordTool(r, o)
    BY <1>7 DEF ResumeAdvance
  <2>3. o.checkpoint \in ExecutionCheckpoint /\ o.events \in Seq(EventName)
    BY <2>1, OutcomeType DEF StepOutcome
  <2>4. o.checkpoint.pending_tool \in ToolName /\ Len(o.events) \in Nat
    BY <2>3 DEF ExecutionCheckpoint
  <2>5. ran' \in [Runs -> Seq(Tools)]
    BY <2>1, <2>2, RecordToolType
  <2>6. loop' \in Deciders \cup {NoHandler}
    BY <2>2
  <2>7. /\ row' \in [Runs -> Row]
        /\ events' \in [Runs -> Seq(RunEvent)]
        /\ messages' \in [Runs -> Seq({"user", "assistant"})]
    BY <2>1, <2>2, <2>3, <2>4, AppendAllType DEF TypeOK
  <2>8. decider' \in [Deciders -> DecisionHandler]
    <3> DEFINE new == [decider[d] EXCEPT
                         !.phase = IF ResumeReturns(o) THEN "returned" ELSE @,
                         !.sequence = @ + Len(o.events),
                         !.checkpoint = o.checkpoint]
    <3>1. decider[d].sequence + Len(o.events) \in Nat
      BY <2>1, <2>4 DEF DecisionHandler
    <3>2. new \in DecisionHandler
      BY <2>1, <2>3, <3>1 DEF DecisionHandler
    <3>3. [decider[d] EXCEPT !.phase = "raised"] \in DecisionHandler
      BY <2>1 DEF DecisionHandler
    <3>4. \/ decider' = [decider EXCEPT ![d] = new]
          \/ decider' = [decider EXCEPT ![d] = [decider[d] EXCEPT !.phase = "raised"]]
      BY <2>2
    <3> HIDE DEF new
    <3> QED
      BY <3>2, <3>3, <3>4 DEF TypeOK
  <2> QED
    BY <1>7, <2>5, <2>6, <2>7, <2>8 DEF ResumeAdvance, TypeOK
<1>8. ASSUME NEW d \in Deciders, ResumeRaises(d)
      PROVE  TypeOK'
  BY <1>8 DEF ResumeRaises, TypeOK, DecisionHandler
<1>9. ASSUME Restart
      PROVE  TypeOK'
  <2>1. chat' \in [Runs -> ChatHandler]
    BY <1>9 DEF Restart, TypeOK, ChatHandler
  <2>2. decider' \in [Deciders -> DecisionHandler]
    BY <1>9 DEF Restart, TypeOK, DecisionHandler
  <2> QED
    BY <1>9, <2>1, <2>2 DEF Restart, TypeOK
<1>10. CASE UNCHANGED vars
  BY <1>10 DEF vars, TypeOK
<1> QED
  BY <1>1, <1>2, <1>3, <1>4, <1>5, <1>6, <1>7, <1>8, <1>9, <1>10
  DEF Next, ChatStep, DeciderStep

\* The repositories, the logs and the handlers stay well formed.
THEOREM ChatTypeCorrect == Spec => []TypeOK
<1>1. TypeOK /\ [Next]_vars => TypeOK'
  BY TypeStep
<1> QED
  BY InitType, <1>1, PTL DEF Spec

-----------------------------------------------------------------------------
(* Who writes to a run: the invariant *)

LEMMA ChatInvInit == Init => ChatInv
<1> SUFFICES ASSUME Init PROVE ChatInv
  OBVIOUS
<1>1. loop \notin Deciders
  BY HandlerAssumption DEF Init
<1>2. \A d \in Deciders : ~Resuming(d)
  BY DEF Init, Resuming
<1>3. ASSUME NEW r \in Runs
      PROVE  OkAt(r)
  <2>1. /\ ~Streaming(r) /\ events[r] = <<>> /\ ran[r] = <<>>
        /\ row[r] = NoRow /\ chat[r].phase = "idle"
    BY DEF Init, Streaming
  <2>2. Resumers(r) = {}
    BY <1>2 DEF Resumers
  <2>3. \A names : CountIn(<<>>, names) = 0
    <3>1. \A names : {i \in DOMAIN <<>> : <<>>[i] \in names} = {}
      OBVIOUS
    <3> QED
      BY <3>1, FS_EmptySet DEF CountIn
  <2>4. \A names : Count(r, names) = 0
    BY <2>1, <2>3 DEF Count, CountIn
  <2>5. CountsOk(r)
    <3>1. Approved(r) = 0 /\ ~Entitled(r)
      BY <2>1, <2>2, <2>3 DEF Approved, Entitled
    <3>2. Len(ran[r]) = 0 /\ Spent(r) = 0
      BY <2>1, <2>4, ToolStepLimitPos DEF Spent
    <3>3. row[r].status # "waiting_approval"
      BY <2>1 DEF NoRow
    <3> QED
      BY <2>4, <3>1, <3>2, <3>3, ToolStepLimitPos DEF CountsOk
  <2>6. chat[r].payloads = <<>> /\ ~chat[r].over /\ chat[r].checkpoint = FreshCheckpoint
    BY DEF Init
  <2>7. RowOk(r) /\ LogOk(r)
    BY <2>1, <2>6 DEF RowOk, LogOk, NoEnd, NoRow
  <2> QED
    BY <1>2, <2>1, <2>5, <2>7 DEF OkAt, ChatOk, WriterOk, Writes, DeciderOk
<1> QED
  BY InitType, <1>1, <1>3 DEF ChatInv

\* Handlers of one run: what an action leaves alone elsewhere.
OnlyAt(r) ==
  /\ \A q \in Runs \ {r} :
       /\ row'[q] = row[q] /\ events'[q] = events[q] /\ messages'[q] = messages[q]
       /\ ran'[q] = ran[q] /\ chat'[q] = chat[q]
  /\ \A d \in Deciders :
       /\ decider'[d].run = decider[d].run
       /\ decider[d].run # r => decider'[d] = decider[d] /\ loop # d /\ loop' # d

LEMMA ByRun ==
  ASSUME ChatInv, TypeOK', NEW r \in Runs, OnlyAt(r),
         loop' \in Deciders => Resuming(loop)', OkAt(r)'
  PROVE  ChatInv'
<1>1. ASSUME NEW q \in Runs, q # r
      PROVE  OkAt(q)'
  <2>1. OkAt(q)
    BY DEF ChatInv
  <2>2. /\ row'[q] = row[q] /\ events'[q] = events[q] /\ messages'[q] = messages[q]
        /\ ran'[q] = ran[q] /\ chat'[q] = chat[q]
    BY <1>1 DEF OnlyAt
  <2>3. \A d \in Deciders : decider[d].run = q =>
          /\ decider'[d] = decider[d] /\ loop # d /\ loop' # d
          /\ Resuming(d)' <=> Resuming(d)
    BY <1>1 DEF OnlyAt, Resuming
  <2>4. \A d \in Deciders : decider'[d].run = decider[d].run
    BY DEF OnlyAt
  <2>5. Resumers(q)' = Resumers(q)
    BY <2>3, <2>4 DEF Resumers
  <2>6. \A names : Count(q, names)' = Count(q, names)
    BY <2>2 DEF Count
  <2>7. Spent(q)' = Spent(q)
    BY <2>6 DEF Spent
  <2>8. Writes(q)' <=> Writes(q)
    BY <2>2 DEF Writes, Streaming
  <2>9. Entitled(q)' <=> Entitled(q)
    BY <2>3, <2>5 DEF Entitled, Resumers
  <2>10. ChatOk(q)'
    BY <2>1, <2>2, <2>8 DEF OkAt, ChatOk, Streaming
  <2>11. WriterOk(q)'
    BY <2>1, <2>2, <2>7, <2>8 DEF OkAt, WriterOk
  <2>12. RowOk(q)' /\ LogOk(q)'
    BY <2>1, <2>2 DEF OkAt, RowOk, LogOk, Claimable, NoEnd, Ends
  <2>13. Approved(q)' = Approved(q)
    BY <2>2 DEF Approved
  <2>14. CountsOk(q)'
    BY <2>1, <2>2, <2>6, <2>7, <2>9, <2>13 DEF OkAt, CountsOk
  <2>15. ASSUME NEW d \in Deciders, decider'[d].run = q
         PROVE  DeciderOk(d)'
    <3>1. DeciderOk(d) /\ decider[d].run = q
      BY <2>1, <2>4, <2>15 DEF OkAt
    <3> QED
      BY <2>2, <2>3, <2>5, <2>7, <2>8, <3>1 DEF DeciderOk
  <2> QED
    BY <2>10, <2>11, <2>12, <2>14, <2>15 DEF OkAt
<1> QED
  BY <1>1 DEF ChatInv

\* Nobody resumes a run its chat handler writes to.
LEMMA OneWriter ==
  ASSUME ChatInv, NEW r \in Runs
  PROVE  /\ Writes(r) => Resumers(r) = {}
         /\ row[r].status = "absent" => Resumers(r) = {}
         /\ loop = NoHandler /\ row[r].status # "running" => Resumers(r) = {}
<1>1. ASSUME NEW d \in Resumers(r)
      PROVE  /\ ~Writes(r) /\ row[r].status \in {"running", "waiting_approval"}
             /\ loop = NoHandler => row[r].status = "running"
  <2>1. d \in Deciders /\ DeciderOk(d) /\ decider[d].run = r /\ Resuming(d)
    BY DEF Resumers, ChatInv, OkAt
  <2> QED
    BY <2>1, HandlerAssumption DEF DeciderOk
<1> QED
  BY <1>1

\* A handler that ends changes nothing that is said about its run.
LEMMA ChatLeaves ==
  ASSUME ChatInv, TypeOK', NEW r \in Runs, Streaming(r),
         NEW p \in {"returned", "raised", "gone"},
         chat' = [chat EXCEPT ![r].phase = p], loop = NoHandler,
         UNCHANGED <<row, events, messages, ran, decider, loop>>
  PROVE  ChatInv'
<1>1. OkAt(r)
  BY DEF ChatInv
<1>2. chat'[r].phase = p /\ \A q \in Runs \ {r} : chat'[q] = chat[q]
  BY DEF ChatInv, TypeOK, ChatHandler
<1>3. OnlyAt(r)
  BY <1>2, HandlerAssumption DEF OnlyAt
<1>4. ~Streaming(r)' /\ ~Writes(r)'
  BY <1>2 DEF Streaming, Writes
<1>5. ChatOk(r)' /\ WriterOk(r)'
  BY <1>4 DEF ChatOk, WriterOk
<1>6. RowOk(r)' /\ LogOk(r)'
  <2>1. chat[r].phase # "idle" /\ chat'[r].phase # "idle"
    BY <1>2 DEF Streaming
  <2> QED
    BY <1>1, <2>1 DEF OkAt, RowOk, LogOk, Claimable, NoEnd, Ends
<1>7. /\ Spent(r)' = Spent(r) /\ \A names : Count(r, names)' = Count(r, names)
      /\ Resumers(r)' = Resumers(r)
  BY DEF Spent, Count, Resumers, Resuming
<1>8. CountsOk(r)'
  <2>1. Approved(r)' = Approved(r) /\ (Entitled(r)' <=> Entitled(r))
    BY <1>7 DEF Approved, Entitled
  <2> QED
    BY <1>1, <1>7, <2>1 DEF OkAt, CountsOk
<1>9. ASSUME NEW d \in Deciders, decider'[d].run = r
      PROVE  DeciderOk(d)'
  <2>1. DeciderOk(d)
    BY <1>1, <1>9 DEF OkAt
  <2> QED
    BY <1>4, <1>7, <1>9, <2>1 DEF DeciderOk, Resuming
<1>10. OkAt(r)'
  BY <1>5, <1>6, <1>8, <1>9 DEF OkAt
<1>11. loop' \in Deciders => Resuming(loop)'
  BY HandlerAssumption
<1> QED
  BY <1>3, <1>10, <1>11, ByRun

\* The ways in which the chat handler of r appends its next event.
Yields(r, c, e, rest, over) ==
  \/ /\ row[r].status = "running" /\ chat[r].payloads # <<"run.completed">>
     /\ \/ e \in QuietEvent /\ rest \in {<<>>, <<"tool.completed">>, <<"tool.failed">>}
        \/ e = "assistant.message" /\ rest = <<"run.completed">> /\ over
        \/ /\ e = "approval.required" /\ rest = <<"run.waiting_approval">> /\ over
           /\ c.pending_tool # NoTool
  \/ row[r].status = "running" /\ chat[r].payloads = <<"run.completed">>
     /\ e = "run.completed" /\ rest = <<>> /\ over
  \/ row[r].status = "waiting_approval" /\ chat[r].payloads = <<"run.waiting_approval">>
     /\ e = "run.waiting_approval" /\ rest = <<>> /\ over

LEMMA SeqEqual ==
  ASSUME NEW S, NEW p \in Seq(S), NEW q \in Seq(S), Len(p) = Len(q),
         \A i \in 1..Len(p) : p[i] = q[i]
  PROVE  p = q
  OBVIOUS

LEMMA OwedDistinct ==
  /\ \A q \in {<<>>, <<"tool.completed">>, <<"tool.failed">>} :
       q \notin {<<"run.waiting_approval">>, <<"run.completed">>}
  /\ <<"run.waiting_approval">> \notin
       {<<>>, <<"tool.completed">>, <<"tool.failed">>, <<"run.completed">>}
  /\ <<"run.completed">> \notin {<<>>, <<"tool.completed">>, <<"tool.failed">>}
  /\ <<>> \notin {<<"tool.completed">>, <<"tool.failed">>, <<"run.completed">>}
  /\ Append(<<"user">>, "assistant") = <<"user", "assistant">>
<1>1. /\ <<"tool.completed">>[1] = "tool.completed" /\ <<"tool.failed">>[1] = "tool.failed"
      /\ <<"run.waiting_approval">>[1] = "run.waiting_approval"
      /\ <<"run.completed">>[1] = "run.completed"
      /\ <<"run.waiting_approval">> # <<>> /\ <<"run.completed">> # <<>>
      /\ <<"tool.completed">> # <<>> /\ <<"tool.failed">> # <<>>
  OBVIOUS
<1>2. Append(<<"user">>, "assistant") = <<"user", "assistant">>
  <2> DEFINE S == {"user", "assistant"}
             q == Append(<<"user">>, "assistant")
             p == <<"user", "assistant">>
  <2>1. <<"user">> \in Seq(S) /\ p \in Seq(S) /\ Len(p) = 2 /\ Len(<<"user">>) = 1
        /\ p[1] = "user" /\ p[2] = "assistant" /\ <<"user">>[1] = "user"
    OBVIOUS
  <2>2. q \in Seq(S) /\ Len(q) = 2 /\ q[1] = "user" /\ q[2] = "assistant"
    BY <2>1
  <2>3. DOMAIN p = 1..2 /\ DOMAIN q = 1..2
    BY <2>1, <2>2
  <2>4. \A i \in 1..2 : p[i] = q[i]
    <3>1. \A i \in 1..2 : i = 1 \/ i = 2
      OBVIOUS
    <3> HIDE DEF p, q
    <3> QED
      BY <2>1, <2>2, <3>1
  <2> HIDE DEF p, q
  <2>5. p = q
    BY <2>1, <2>2, <2>3, <2>4, SeqEqual
  <2> QED
    BY <2>5 DEF p, q
<1> QED
  BY <1>1, <1>2

LEMMA ChatYields ==
  ASSUME ChatInv, TypeOK', NEW r \in Runs, Writes(r), loop = NoHandler,
         NEW c \in ExecutionCheckpoint, c.approval_decision = "undecided",
         NEW e \in EventName, NEW rest \in Seq(EventName), NEW over \in BOOLEAN,
         Yields(r, c, e, rest, over),
         AppendEvent(r, e, c.pending_tool), AddMessages(r, <<e>>),
         chat' = [chat EXCEPT ![r].sequence = @ + 1, ![r].checkpoint = c,
                              ![r].payloads = rest, ![r].over = over],
         \A q \in Runs \ {r} : ran'[q] = ran[q],
         Approved(r)' = Approved(r), Len(ran'[r]) < Spent(r) + c.next_step,
         UNCHANGED <<decider, loop>>
  PROVE  ChatInv'
<1>1. OkAt(r)
  BY DEF ChatInv
<1>2. /\ chat'[r].phase = "streaming" /\ chat'[r].sequence = chat[r].sequence + 1
      /\ chat'[r].checkpoint = c /\ chat'[r].payloads = rest /\ chat'[r].over = over
      /\ \A q \in Runs \ {r} : chat'[q] = chat[q]
  BY DEF ChatInv, TypeOK, ChatHandler, Writes, Streaming
<1>3. /\ events'[r] = Append(events[r], e)
      /\ \A q \in Runs \ {r} : events'[q] = events[q]
      /\ events[r] \in Seq(RunEvent) /\ e \in RunEvent
      /\ Len(events'[r]) = Len(events[r]) + 1 /\ Len(events[r]) \in Nat
  BY DEF AppendEvent, ChatInv, TypeOK, RunEvent
<1>4. /\ row'[r] = ApplyRunUpdates(row[r], e, c.pending_tool)
      /\ \A q \in Runs \ {r} : row'[q] = row[q]
  BY DEF AppendEvent, ChatInv, TypeOK
<1>5. /\ messages'[r] = IF e = "assistant.message"
                          THEN Append(messages[r], "assistant") ELSE messages[r]
      /\ \A q \in Runs \ {r} : messages'[q] = messages[q]
  <2>1. (\E i \in DOMAIN <<e>> : <<e>>[i] = "assistant.message") <=> e = "assistant.message"
    OBVIOUS
  <2> QED
    BY <2>1 DEF AddMessages, ChatInv, TypeOK
<1>6. OnlyAt(r)
  BY <1>2, <1>3, <1>4, <1>5, HandlerAssumption DEF OnlyAt
<1>7. Resumers(r) = {} /\ Resumers(r)' = {}
  <2>1. Resumers(r) = {}
    BY OneWriter
  <2> QED
    BY <2>1 DEF Resumers, Resuming
<1>8. Writes(r)' /\ Streaming(r)'
  BY <1>2, <1>3 DEF Writes, Streaming
<1>9. messages[r] = IF chat[r].payloads = <<"run.completed">> THEN <<"user", "assistant">>
                    ELSE <<"user">>
  <2>1. row[r].status # "completed"
    BY DEF Yields
  <2> QED
    BY <1>1, <2>1 DEF OkAt, WriterOk
<1>10. NoEnd(events[r]) /\ row[r].status \in {"running", "waiting_approval"}
  <2>1. row[r].status \in {"running", "waiting_approval"}
    BY DEF Yields
  <2> QED
    BY <1>1, <2>1 DEF OkAt, LogOk
<1>11. row[r] \in Row /\ (row[r].status = "waiting_approval" => Claimable(r))
  BY <1>1 DEF ChatInv, TypeOK, OkAt, RowOk
<1>12. /\ \A names : /\ Count(r, names) \in Nat
                     /\ Count(r, names)' = Count(r, names) + (IF e \in names THEN 1 ELSE 0)
       /\ e \notin Decisions /\ Spent(r)' = Spent(r) /\ Spent(r) \in Nat
  <2>1. \A names : /\ CountIn(events[r], names) \in Nat
                   /\ CountIn(events'[r], names)
                        = CountIn(events[r], names) + (IF e \in names THEN 1 ELSE 0)
    BY <1>3, CountAppend
  <2>2. \A names : Count(r, names) = CountIn(events[r], names)
                   /\ Count(r, names)' = CountIn(events'[r], names)
    BY DEF Count, CountIn
  <2>3. e \notin Decisions
    BY DEF Decisions, EventName
  <2>4. Count(r, Decisions)' = Count(r, Decisions)
    BY <2>1, <2>2, <2>3
  <2> QED
    BY <2>1, <2>2, <2>3, <2>4, SpentFacts DEF Spent
<1>13. c.next_step <= ToolStepLimit + 1 /\ c.next_step \in Nat
  BY ToolStepLimitPos DEF ExecutionCheckpoint
<1>14. Len(ran'[r]) \in Nat
  BY DEF TypeOK
<1>15. "approval.approved" # e
  BY DEF EventName
<1>16. Approved(r) + 0 <= Count(r, {"approval.approved"})
  BY <1>1, <1>7 DEF OkAt, CountsOk, Entitled
<1>17. ~Entitled(r)'
  BY <1>7 DEF Entitled
<1>18. CountsOk(r)' <=>
         /\ Count(r, Decisions) + (IF row'[r].status = "waiting_approval" THEN 1 ELSE 0)
              <= Count(r, {"approval.required"}) + (IF e = "approval.required" THEN 1 ELSE 0)
  <2>1. Count(r, {"approval.approved"})' = Count(r, {"approval.approved"})
    BY <1>12, <1>15
  <2>2. Approved(r)' + 0 <= Count(r, {"approval.approved"})'
    BY <1>16, <2>1
  <2>3. Len(ran'[r]) <= Spent(r)' + ToolStepLimit
    BY <1>12, <1>13, <1>14, ToolStepLimitPos
  <2>4. Count(r, {"approval.required"})'
          = Count(r, {"approval.required"}) + (IF e = "approval.required" THEN 1 ELSE 0)
    BY <1>12
  <2>5. Count(r, Decisions)' = Count(r, Decisions)
    BY <1>12
  <2> QED
    BY <1>17, <2>2, <2>3, <2>4, <2>5 DEF CountsOk
<1>19. Count(r, Decisions) + (IF row[r].status = "waiting_approval" THEN 1 ELSE 0)
         <= Count(r, {"approval.required"})
  BY <1>1 DEF OkAt, CountsOk
<1>20. \A d \in Deciders : decider'[d].run = r => DeciderOk(d)'
  BY <1>7 DEF DeciderOk, Resumers
<1>21. Len(ran'[r]) < Spent(r)' + chat'[r].checkpoint.next_step
  BY <1>2, <1>12
<1>22. /\ chat'[r].sequence \in 1..Len(events'[r])
       /\ chat'[r].checkpoint.approval_decision = "undecided"
  BY <1>2, <1>3 DEF Writes, ChatInv, TypeOK, ChatHandler
<1>23. ASSUME chat[r].payloads # <<"run.completed">>, row[r].status = "running",
              e \in QuietEvent, rest \in {<<>>, <<"tool.completed">>, <<"tool.failed">>}
       PROVE  OkAt(r)'
  <2>1. row'[r] = row[r] /\ e \notin End /\ e # "assistant.message" /\ e # "approval.required"
    BY <1>4, <1>23, QuietEventFacts DEF QuietEvent
  <2>2. ChatOk(r)'
    BY <1>2, <1>8, <1>22, <1>23, OwedDistinct DEF ChatOk
  <2>3. WriterOk(r)'
    <3>1. messages'[r] = <<"user">>
      BY <1>5, <1>9, <1>23, <2>1
    <3> QED
      BY <1>2, <1>21, <1>23, <2>1, <3>1, OwedDistinct DEF WriterOk
  <2>4. RowOk(r)'
    BY <1>2, <1>23, <2>1 DEF RowOk
  <2>5. LogOk(r)'
    BY <1>3, <1>10, <1>23, <2>1, EndAppend DEF LogOk
  <2>6. CountsOk(r)'
    BY <1>12, <1>18, <1>19, <2>1
  <2> QED
    BY <1>20, <2>2, <2>3, <2>4, <2>5, <2>6 DEF OkAt
<1>24. ASSUME chat[r].payloads # <<"run.completed">>, row[r].status = "running",
              e = "assistant.message", rest = <<"run.completed">>, over
       PROVE  OkAt(r)'
  <2>1. row'[r] = row[r] /\ e \notin End
    BY <1>4, <1>24 DEF End, ApplyRunUpdates
  <2>2. ChatOk(r)'
    BY <1>2, <1>8, <1>22, <1>24 DEF ChatOk
  <2>3. messages'[r] = <<"user", "assistant">>
    BY <1>5, <1>9, <1>24, OwedDistinct
  <2>4. WriterOk(r)'
    BY <1>2, <1>21, <1>24, <2>1, <2>3, OwedDistinct DEF WriterOk
  <2>5. RowOk(r)'
    BY <1>2, <1>24, <2>1 DEF RowOk
  <2>6. LogOk(r)'
    BY <1>3, <1>10, <1>24, <2>1, EndAppend DEF LogOk
  <2>7. CountsOk(r)'
    BY <1>12, <1>18, <1>19, <1>24, <2>1
  <2> QED
    BY <1>20, <2>2, <2>4, <2>5, <2>6, <2>7 DEF OkAt
<1>25. ASSUME chat[r].payloads # <<"run.completed">>, row[r].status = "running",
              e = "approval.required", rest = <<"run.waiting_approval">>, over,
              c.pending_tool # NoTool
       PROVE  OkAt(r)'
  <2>1. /\ row'[r] = [status |-> "waiting_approval", approval_status |-> "pending",
                      pending_tool_name |-> c.pending_tool]
        /\ e \notin End
    BY <1>4, <1>25 DEF End, ApplyRunUpdates
  <2>2. Claimable(r)' /\ row'[r].status = "waiting_approval" /\ messages'[r] = <<"user">>
    BY <1>5, <1>9, <1>25, <2>1 DEF Claimable
  <2>3. ChatOk(r)'
    BY <1>2, <1>8, <1>22, <1>25 DEF ChatOk
  <2>4. WriterOk(r)'
    BY <1>2, <1>21, <1>25, <2>2, OwedDistinct DEF WriterOk
  <2>5. RowOk(r)'
    BY <1>2, <2>2 DEF RowOk
  <2>6. LogOk(r)'
    BY <1>3, <1>10, <2>1, <2>2, EndAppend DEF LogOk
  <2>7. CountsOk(r)'
    BY <1>12, <1>18, <1>19, <1>25, <2>2
  <2> QED
    BY <1>20, <2>3, <2>4, <2>5, <2>6, <2>7 DEF OkAt
<1>26. ASSUME row[r].status = "running", chat[r].payloads = <<"run.completed">>,
              e = "run.completed", rest = <<>>, over
       PROVE  OkAt(r)'
  <2>0. row'[r] = [row[r] EXCEPT !.status = "completed", !.pending_tool_name = NoTool]
    BY <1>4, <1>26 DEF ApplyRunUpdates
  <2>1. row'[r].status = "completed" /\ e \in End /\ messages'[r] = <<"user", "assistant">>
    BY <1>5, <1>9, <1>11, <1>26, <2>0 DEF End, Row
  <2>2. ChatOk(r)'
    BY <1>2, <1>8, <1>22, <1>26 DEF ChatOk
  <2>3. WriterOk(r)'
    BY <1>2, <1>21, <1>26, <2>1, OwedDistinct DEF WriterOk
  <2>4. RowOk(r)'
    BY <1>2, <2>1 DEF RowOk
  <2>5. LogOk(r)'
    BY <1>3, <1>10, <2>1, EndAppend DEF LogOk
  <2>6. CountsOk(r)'
    BY <1>12, <1>18, <1>19, <1>26, <2>1
  <2> QED
    BY <1>20, <2>2, <2>3, <2>4, <2>5, <2>6 DEF OkAt
<1>27. ASSUME row[r].status = "waiting_approval",
              chat[r].payloads = <<"run.waiting_approval">>,
              e = "run.waiting_approval", rest = <<>>, over
       PROVE  OkAt(r)'
  <2>1. row'[r] = [row[r] EXCEPT !.status = "waiting_approval"] /\ e \notin End
    BY <1>4, <1>27 DEF End, ApplyRunUpdates
  <2>2. /\ row'[r].status = "waiting_approval"
        /\ row'[r].approval_status = row[r].approval_status
        /\ row'[r].pending_tool_name = row[r].pending_tool_name
    BY <1>11, <2>1 DEF Row
  <2>3. Claimable(r)' /\ row'[r].status = "waiting_approval" /\ messages'[r] = <<"user">>
    <3>1. messages'[r] = <<"user">>
      BY <1>5, <1>9, <1>27, OwedDistinct
    <3> QED
      BY <1>11, <1>27, <2>2, <3>1 DEF Claimable
  <2>4. ChatOk(r)'
    BY <1>2, <1>8, <1>22, <1>27 DEF ChatOk
  <2>5. WriterOk(r)'
    BY <1>2, <1>21, <1>27, <2>3, OwedDistinct DEF WriterOk
  <2>6. RowOk(r)'
    BY <1>2, <2>3 DEF RowOk
  <2>7. LogOk(r)'
    BY <1>3, <1>10, <2>1, <2>3, EndAppend DEF LogOk
  <2>8. CountsOk(r)'
    BY <1>12, <1>18, <1>19, <1>27, <2>2
  <2> QED
    BY <1>20, <2>4, <2>5, <2>6, <2>7, <2>8 DEF OkAt
<1>28. OkAt(r)'
  BY <1>23, <1>24, <1>25, <1>26, <1>27 DEF Yields
<1>29. loop' \in Deciders => Resuming(loop)'
  BY HandlerAssumption
<1> QED
  BY <1>6, <1>28, <1>29, ByRun

LEMMA StartChatOk ==
  ASSUME ChatInv, TypeOK', NEW r \in Runs, StartChat(r)
  PROVE  ChatInv'
<1>1. OkAt(r) /\ loop = NoHandler /\ loop' = NoHandler /\ decider' = decider
  BY DEF ChatInv, StartChat
<1>2. row[r].status = "absent" /\ ran[r] = <<>> /\ Resumers(r) = {}
  BY <1>1, OneWriter DEF StartChat, OkAt, RowOk
<1>3. /\ chat'[r].phase = "streaming" /\ chat'[r].sequence = 1
      /\ chat'[r].payloads = <<>> /\ ~chat'[r].over
      /\ chat'[r].checkpoint = FreshCheckpoint
      /\ \A q \in Runs \ {r} : chat'[q] = chat[q]
  BY <1>1, <1>2 DEF StartChat, OkAt, RowOk, ChatInv, TypeOK, ChatHandler
<1>4. /\ row'[r].status = "running" /\ events'[r] = <<"run.started">>
      /\ messages'[r] = <<"user">> /\ ran' = ran
      /\ \A q \in Runs \ {r} :
           row'[q] = row[q] /\ events'[q] = events[q] /\ messages'[q] = messages[q]
  BY DEF StartChat, ChatInv, TypeOK, Row
<1>5. OnlyAt(r)
  BY <1>1, <1>3, <1>4, HandlerAssumption DEF OnlyAt
<1>6. Resumers(r)' = {} /\ ~Entitled(r)'
  BY <1>1, <1>2 DEF Resumers, Resuming, Entitled
<1>7. Len(events'[r]) = 1 /\ DOMAIN events'[r] = {1} /\ events'[r][1] = "run.started"
  BY <1>4
<1>8. Writes(r)' /\ Streaming(r)'
  BY <1>3, <1>7 DEF Writes, Streaming
<1>9. ASSUME NEW names, "run.started" \notin names
      PROVE  Count(r, names)' = 0
  <2>1. {i \in DOMAIN events'[r] : events'[r][i] \in names} = {}
    BY <1>7, <1>9
  <2> QED
    BY <2>1, FS_EmptySet DEF Count
<1>10. /\ Count(r, Decisions)' = 0 /\ Count(r, {"approval.required"})' = 0
       /\ Count(r, {"approval.approved"})' = 0
  BY <1>9 DEF Decisions
<1>11. Spent(r)' = 0 /\ Len(ran'[r]) = 0 /\ Approved(r)' = 0
  <2>1. {i \in DOMAIN <<>> : <<>>[i] \in ApprovalTools} = {}
    OBVIOUS
  <2>2. CountIn(<<>>, ApprovalTools) = 0
    BY <2>1, FS_EmptySet DEF CountIn
  <2>3. Approved(r)' = 0 /\ Len(ran'[r]) = 0
    BY <1>2, <1>4, <2>2 DEF Approved
  <2> QED
    BY <1>10, <2>3, ToolStepLimitPos DEF Spent
<1>12. CountsOk(r)'
  BY <1>4, <1>6, <1>10, <1>11, ToolStepLimitPos DEF CountsOk
<1>13. ChatOk(r)'
  BY <1>3, <1>7, <1>8, OwedDistinct DEF ChatOk, FreshCheckpoint
<1>14. WriterOk(r)'
  BY <1>3, <1>4, <1>11, OwedDistinct DEF WriterOk, FreshCheckpoint
<1>15. RowOk(r)' /\ LogOk(r)'
  BY <1>3, <1>4, <1>7 DEF RowOk, LogOk, NoEnd, End
<1>16. \A d \in Deciders : decider'[d].run = r => DeciderOk(d)'
  BY <1>6 DEF DeciderOk, Resumers
<1>17. OkAt(r)'
  BY <1>12, <1>13, <1>14, <1>15, <1>16 DEF OkAt
<1> QED
  BY <1>1, <1>5, <1>17, HandlerAssumption, ByRun

LEMMA ChatPayloadOk ==
  ASSUME ChatInv, TypeOK', NEW r \in Runs, ChatPayload(r)
  PROVE  ChatInv'
<1>1. OkAt(r) /\ chat[r] \in ChatHandler /\ Streaming(r) /\ loop = NoHandler
      /\ UNCHANGED <<ran, decider, loop>> /\ events[r] \in Seq(RunEvent)
  BY DEF ChatInv, TypeOK, ChatPayload, Streaming
<1>2. Yield(r, chat[r].checkpoint, chat[r].payloads, chat[r].over)
  BY DEF ChatPayload
<1>3. CASE ~Writes(r)
  <2>1. ~SequenceFree(r, chat[r].sequence)
    BY <1>1, <1>3 DEF OkAt, ChatOk, Writes, SequenceFree
  <2>2. chat' = [chat EXCEPT ![r].phase = "raised"] /\ UNCHANGED <<row, events, messages>>
    BY <1>2, <2>1 DEF Yield, ChatRaises
  <2> QED
    BY <1>1, <2>2, ChatLeaves
<1>4. CASE Writes(r)
  <2> DEFINE c == chat[r].checkpoint
             e == Head(chat[r].payloads)
             rest == Tail(chat[r].payloads)
             over == chat[r].over
  <2>1. SequenceFree(r, chat[r].sequence)
    BY <1>1, <1>4 DEF Writes, SequenceFree
  <2>2. /\ AppendEvent(r, e, c.pending_tool) /\ AddMessages(r, <<e>>)
        /\ chat' = [chat EXCEPT ![r].sequence = @ + 1, ![r].checkpoint = c,
                                ![r].payloads = rest, ![r].over = over]
    BY <1>2, <2>1 DEF Yield
  <2>3. /\ c \in ExecutionCheckpoint /\ c.approval_decision = "undecided"
        /\ over \in BOOLEAN
    BY <1>1 DEF ChatHandler, OkAt, ChatOk
  <2>4. /\ chat[r].payloads \in {<<"tool.completed">>, <<"tool.failed">>,
                                 <<"run.waiting_approval">>, <<"run.completed">>}
        /\ e \in {"tool.completed", "tool.failed", "run.waiting_approval", "run.completed"}
        /\ chat[r].payloads = <<e>> /\ rest = <<>>
    <3>1. chat[r].payloads \in {<<"tool.completed">>, <<"tool.failed">>,
                                <<"run.waiting_approval">>, <<"run.completed">>}
      BY <1>1 DEF ChatPayload, OkAt, ChatOk
    <3>2. PICK a \in {"tool.completed", "tool.failed", "run.waiting_approval",
                      "run.completed"} : chat[r].payloads = <<a>>
      BY <3>1
    <3>3. Head(<<a>>) = a /\ Tail(<<a>>) = <<>>
      OBVIOUS
    <3> QED
      BY <3>1, <3>2, <3>3
  <2>5. e \in EventName /\ rest \in Seq(EventName)
    BY <2>4 DEF EventName
  <2>6. chat[r].payloads[1] = e
    BY <2>4
  <2>7. Yields(r, c, e, rest, over)
    <3>1. CASE e = "run.completed"
      <4>1. row[r].status = "running" /\ over
        BY <1>1, <1>4, <2>4, <3>1 DEF OkAt, ChatOk, WriterOk
      <4> QED
        BY <2>4, <3>1, <4>1 DEF Yields
    <3>2. CASE e = "run.waiting_approval"
      <4>1. row[r].status = "waiting_approval" /\ over
        BY <1>1, <1>4, <2>4, <3>2 DEF OkAt, ChatOk, WriterOk
      <4> QED
        BY <2>4, <3>2, <4>1 DEF Yields
    <3>3. CASE e \in {"tool.completed", "tool.failed"}
      <4>1. chat[r].payloads \in {<<"tool.completed">>, <<"tool.failed">>}
        BY <2>4, <3>3
      <4>2. row[r].status = "running" /\ chat[r].payloads # <<"run.completed">>
        BY <1>1, <1>4, <4>1, OwedDistinct DEF OkAt, WriterOk
      <4> QED
        BY <2>4, <3>3, <4>2 DEF Yields, QuietEvent
    <3> QED
      BY <2>4, <3>1, <3>2, <3>3
  <2>8. Approved(r)' = Approved(r) /\ Len(ran'[r]) < Spent(r) + c.next_step
    BY <1>1, <1>4 DEF OkAt, WriterOk, Approved
  <2> HIDE DEF c, e, rest, over
  <2> QED
    BY <1>1, <1>4, <2>2, <2>3, <2>5, <2>7, <2>8, ChatYields
<1> QED
  BY <1>3, <1>4

\* A handler that takes a step writes to a running run.
LEMMA AdvanceWrites ==
  ASSUME ChatInv, NEW r \in Runs, Streaming(r), chat[r].payloads = <<>>, ~chat[r].over
  PROVE  /\ Writes(r) /\ row[r].status = "running" /\ OkAt(r)
         /\ messages[r] = <<"user">> /\ SequenceFree(r, chat[r].sequence)
         /\ chat[r].checkpoint \in ExecutionCheckpoint
         /\ chat[r].checkpoint.approval_decision = "undecided"
         /\ Len(ran[r]) < Spent(r) + chat[r].checkpoint.next_step
<1>1. OkAt(r)
  BY DEF ChatInv
<1>2. Writes(r)
  BY <1>1 DEF OkAt, ChatOk
<1>3. SequenceFree(r, chat[r].sequence) /\ chat[r].checkpoint \in ExecutionCheckpoint
  BY <1>2 DEF Writes, SequenceFree, ChatInv, TypeOK, ChatHandler
<1> QED
  BY <1>1, <1>2, <1>3, OwedDistinct DEF OkAt, ChatOk, WriterOk

\* What recording the tool of a step does to the counts of tools.
LEMMA RecordToolCounts ==
  ASSUME TypeOK, NEW r \in Runs, NEW c \in ExecutionCheckpoint,
         NEW o \in Outcomes(c), RecordTool(r, o)
  PROVE  /\ \A q \in Runs \ {r} : ran'[q] = ran[q]
         /\ Len(ran'[r]) - Len(ran[r]) = o.checkpoint.next_step - c.next_step
         /\ Len(ran[r]) \in Nat /\ Len(ran'[r]) \in Nat
         /\ c.next_step \in Nat /\ o.checkpoint.next_step \in Nat
         /\ Approved(r) \in Nat
         /\ \/ Approved(r)' = Approved(r)
            \/ /\ Approved(r)' = Approved(r) + 1
               /\ c.approval_decision = "approved"
               /\ o.checkpoint.approval_decision = "undecided"
<1>1. ran[r] \in Seq(Tools) /\ ran \in [Runs -> Seq(Tools)]
  BY DEF TypeOK
<1>2. o.checkpoint \in ExecutionCheckpoint
  BY OutcomeType DEF StepOutcome
<1>3. c.next_step \in Nat /\ o.checkpoint.next_step \in Nat
  BY <1>2, ToolStepLimitPos DEF ExecutionCheckpoint
<1>4. CASE o.ran = NoTool
  <2>1. ran' = [ran EXCEPT ![r] = ran[r]]
    BY <1>4 DEF RecordTool
  <2>2. ran'[r] = ran[r] /\ \A q \in Runs \ {r} : ran'[q] = ran[q]
    BY <1>1, <2>1
  <2>3. o.checkpoint.next_step = c.next_step
    BY <1>4, OutcomeRan, ToolsAssumption
  <2>4. Approved(r)' = Approved(r) /\ Approved(r) \in Nat
    <3>1. IsFiniteSet({i \in DOMAIN ran[r] : ran[r][i] \in ApprovalTools})
      <4>1. IsFiniteSet(1..Len(ran[r])) /\ DOMAIN ran[r] = 1..Len(ran[r])
        BY <1>1, FS_Interval
      <4> QED
        BY <4>1, FS_Subset
    <3>2. Approved(r) \in Nat
      BY <3>1, FS_CardinalityType DEF Approved, CountIn
    <3>3. Approved(r)' = Approved(r)
      BY <2>2 DEF Approved
    <3> QED
      BY <3>2, <3>3
  <2>5. Len(ran[r]) \in Nat
    BY <1>1
  <2> QED
    BY <1>3, <2>2, <2>3, <2>4, <2>5
<1>5. CASE o.ran # NoTool
  <2>1. /\ o.ran \in Tools /\ o.checkpoint.next_step = c.next_step + 1
        /\ o.checkpoint.approval_decision = "undecided"
    BY <1>5, OutcomeRan
  <2>2. ran' = [ran EXCEPT ![r] = Append(ran[r], o.ran)]
    BY <1>5 DEF RecordTool
  <2>3. ran'[r] = Append(ran[r], o.ran) /\ \A q \in Runs \ {r} : ran'[q] = ran[q]
    BY <1>1, <2>2
  <2>4. Len(ran'[r]) = Len(ran[r]) + 1 /\ Len(ran[r]) \in Nat
    BY <1>1, <2>1, <2>3
  <2>5. /\ CountIn(ran[r], ApprovalTools) \in Nat
        /\ CountIn(ran'[r], ApprovalTools) = CountIn(ran[r], ApprovalTools)
             + (IF o.ran \in ApprovalTools THEN 1 ELSE 0)
    BY <1>1, <2>1, <2>3, CountAppend
  <2>6. o.ran \in ApprovalTools => c.approval_decision = "approved"
    BY RanWasApproved
  <2>7. /\ Approved(r) \in Nat
        /\ Approved(r)' = Approved(r) + (IF o.ran \in ApprovalTools THEN 1 ELSE 0)
    BY <2>5 DEF Approved
  <2>8. CASE o.ran \in ApprovalTools
    BY <1>3, <2>1, <2>3, <2>4, <2>6, <2>7, <2>8
  <2>9. CASE o.ran \notin ApprovalTools
    BY <1>3, <2>1, <2>3, <2>4, <2>7, <2>9
  <2> QED
    BY <2>8, <2>9
<1> QED
  BY <1>4, <1>5

LEMMA QuietParts ==
  ASSUME NEW evs \in QuietLogs, evs # <<>>
  PROVE  /\ Head(evs) \in QuietEvent
         /\ Tail(evs) \in {<<>>, <<"tool.completed">>, <<"tool.failed">>}
<1>1. CASE evs \in {<<"planner.completed">>, <<"tool.failed">>}
  <2>1. PICK e \in {"planner.completed", "tool.failed"} : evs = <<e>>
    BY <1>1
  <2>2. Head(<<e>>) = e /\ Tail(<<e>>) = <<>>
    OBVIOUS
  <2> QED
    BY <2>1, <2>2 DEF QuietEvent
<1>2. CASE evs \in {<<"tool.requested", "tool.completed">>,
                   <<"tool.requested", "tool.failed">>}
  <2>1. PICK e \in {"tool.completed", "tool.failed"} : evs = <<"tool.requested", e>>
    BY <1>2
  <2>2. evs \in Seq(QuietEvent) /\ Len(evs) = 2 /\ evs[1] = "tool.requested" /\ evs[2] = e
    BY <2>1 DEF QuietEvent
  <2>3. /\ Head(evs) = "tool.requested" /\ Tail(evs) \in Seq(QuietEvent)
        /\ Len(Tail(evs)) = 1 /\ Tail(evs)[1] = e
    <3>1. ASSUME NEW S, NEW q \in Seq(S), Len(q) = 2
          PROVE  Head(q) = q[1] /\ Tail(q) \in Seq(S) /\ Len(Tail(q)) = 1 /\ Tail(q)[1] = q[2]
      <4>1. Tail(q) \in Seq(S) /\ Head(q) = q[1]
        BY <3>1
      <4>2. Len(Tail(q)) = 1
        BY <3>1
      <4>3. Tail(q)[1] = q[2]
        BY <3>1
      <4> QED
        BY <4>1, <4>2, <4>3
    <3> QED
      BY <2>2, <3>1
  <2>4. <<e>> \in Seq(QuietEvent) /\ Len(<<e>>) = 1 /\ <<e>>[1] = e
    BY DEF QuietEvent
  <2>5. Tail(evs) = <<e>>
    <3>1. \A i \in 1..1 : i = 1
      OBVIOUS
    <3> QED
      BY <2>3, <2>4, <3>1, SeqEqual
  <2> QED
    BY <2>1, <2>3, <2>5 DEF QuietEvent
<1> QED
  BY <1>1, <1>2 DEF QuietLogs

LEMMA ChatAdvanceOk ==
  ASSUME ChatInv, TypeOK', NEW r \in Runs, ChatAdvance(r)
  PROVE  ChatInv'
<1> DEFINE c == chat[r].checkpoint
<1>1. /\ Streaming(r) /\ chat[r].payloads = <<>> /\ ~chat[r].over /\ loop = NoHandler
      /\ UNCHANGED <<decider, loop>>
  BY DEF ChatAdvance, Streaming
<1>2. /\ Writes(r) /\ row[r].status = "running" /\ OkAt(r)
      /\ messages[r] = <<"user">> /\ SequenceFree(r, chat[r].sequence)
      /\ c \in ExecutionCheckpoint /\ c.approval_decision = "undecided"
      /\ Len(ran[r]) < Spent(r) + c.next_step
  BY <1>1, AdvanceWrites
<1>3. PICK o \in Outcomes(c) :
        /\ IF o.events = <<>>
             THEN /\ chat' = [chat EXCEPT ![r].checkpoint = o.checkpoint]
                  /\ UNCHANGED <<row, events, messages>>
             ELSE Yield(r, o.checkpoint, o.events, o.waiting \/ o.completed)
        /\ RecordTool(r, o)
  BY DEF ChatAdvance
<1>4. /\ o.checkpoint \in ExecutionCheckpoint /\ o.events \in Seq(EventName)
      /\ o.checkpoint.approval_decision = "undecided"
      /\ (o.waiting \/ o.completed) \in BOOLEAN
  BY <1>2, OutcomeType, OutcomeFacts DEF StepOutcome
<1>5. /\ \A q \in Runs \ {r} : ran'[q] = ran[q]
      /\ Len(ran'[r]) - Len(ran[r]) = o.checkpoint.next_step - c.next_step
      /\ Len(ran[r]) \in Nat /\ Len(ran'[r]) \in Nat
      /\ c.next_step \in Nat /\ o.checkpoint.next_step \in Nat
      /\ Approved(r)' = Approved(r)
  <2>1. TypeOK
    BY DEF ChatInv
  <2>2. RecordTool(r, o)
    BY <1>3
  <2> QED
    BY <1>2, <2>1, <2>2, RecordToolCounts
<1>6. Spent(r) \in Nat
  <2>1. events[r] \in Seq(RunEvent)
    BY DEF ChatInv, TypeOK
  <2>2. CountIn(events[r], Decisions) \in Nat
    <3>1. "run.started" \in RunEvent
      BY DEF RunEvent
    <3> QED
      BY <2>1, <3>1, CountAppend
  <2> QED
    BY <2>2, SpentFacts DEF Spent, Count, CountIn
<1>7. Len(ran'[r]) < Spent(r) + o.checkpoint.next_step
  <2> DEFINE a == Len(ran[r])
             b == Len(ran'[r])
             m == c.next_step
             n == o.checkpoint.next_step
             s == Spent(r)
  <2>1. a \in Nat /\ b \in Nat /\ m \in Nat /\ n \in Nat /\ s \in Nat
        /\ b - a = n - m /\ a < s + m
    BY <1>2, <1>5, <1>6
  <2> HIDE DEF a, b, m, n, s
  <2>2. b < s + n
    BY <2>1
  <2> QED
    BY <2>2 DEF b, n, s
<1>8. CASE o.events = <<>>
  <2>1. chat' = [chat EXCEPT ![r].checkpoint = o.checkpoint] /\ UNCHANGED <<row, events, messages>>
    BY <1>3, <1>8
  <2>2. /\ chat'[r].phase = chat[r].phase /\ chat'[r].sequence = chat[r].sequence
        /\ chat'[r].payloads = <<>> /\ ~chat'[r].over
        /\ chat'[r].checkpoint = o.checkpoint
        /\ \A q \in Runs \ {r} : chat'[q] = chat[q]
    BY <1>1, <2>1 DEF ChatInv, TypeOK, ChatHandler
  <2>3. OnlyAt(r)
    BY <1>1, <1>5, <2>1, <2>2, HandlerAssumption DEF OnlyAt
  <2>4. /\ Spent(r)' = Spent(r) /\ \A names : Count(r, names)' = Count(r, names)
        /\ Resumers(r)' = Resumers(r) /\ Resumers(r) = {}
    BY <1>1, <1>2, <2>1, OneWriter DEF Spent, Count, Resumers, Resuming
  <2>5. Writes(r)' /\ Streaming(r)'
    BY <1>2, <2>1, <2>2 DEF Writes, Streaming
  <2>6. ChatOk(r)'
    BY <1>2, <1>4, <2>1, <2>2, <2>5, OwedDistinct DEF OkAt, ChatOk, Writes
  <2>7. WriterOk(r)'
    BY <1>2, <1>7, <2>1, <2>2, <2>4, OwedDistinct DEF WriterOk
  <2>8. RowOk(r)' /\ LogOk(r)'
    BY <1>2, <2>1, <2>2 DEF OkAt, RowOk, LogOk, NoEnd, Ends, Streaming, Writes
  <2>9. CountsOk(r)'
    <3>1. ~Entitled(r) /\ ~Entitled(r)'
      BY <2>4 DEF Entitled
    <3>2. o.checkpoint.next_step <= ToolStepLimit + 1
      BY <1>4, ToolStepLimitPos DEF ExecutionCheckpoint
    <3>3. Len(ran'[r]) <= Spent(r)' + ToolStepLimit
      BY <1>5, <1>6, <1>7, <2>4, <3>2, ToolStepLimitPos
    <3> QED
      BY <1>2, <1>5, <2>1, <2>4, <3>1, <3>3 DEF OkAt, CountsOk
  <2>10. \A d \in Deciders : decider'[d].run = r => DeciderOk(d)'
    BY <2>4 DEF DeciderOk, Resumers
  <2>11. OkAt(r)'
    BY <2>6, <2>7, <2>8, <2>9, <2>10 DEF OkAt
  <2> QED
    BY <1>1, <2>3, <2>11, HandlerAssumption, ByRun
<1>9. CASE o.events # <<>>
  <2> DEFINE e == Head(o.events)
             rest == Tail(o.events)
             over == o.waiting \/ o.completed
             d == o.checkpoint
  <2>1. /\ AppendEvent(r, e, d.pending_tool) /\ AddMessages(r, <<e>>)
        /\ chat' = [chat EXCEPT ![r].sequence = @ + 1, ![r].checkpoint = d,
                                ![r].payloads = rest, ![r].over = over]
    BY <1>2, <1>3, <1>9 DEF Yield
  <2>2. e \in EventName /\ rest \in Seq(EventName) /\ over \in BOOLEAN
    BY <1>4, <1>9
  <2>3. chat[r].payloads # <<"run.completed">>
    BY <1>1, OwedDistinct
  <2>4. Yields(r, d, e, rest, over)
    <3>1. CASE o = Answer(c)
      <4>1. e = "assistant.message" /\ rest = <<"run.completed">> /\ over
        BY <3>1 DEF Answer
      <4> QED
        BY <1>2, <2>3, <4>1 DEF Yields
    <3>2. CASE o = Pause(c) /\ c.pending_tool \in ApprovalTools
      <4>1. /\ e = "approval.required" /\ rest = <<"run.waiting_approval">> /\ over
            /\ d.pending_tool = c.pending_tool
        BY <3>2 DEF Pause
      <4>2. d.pending_tool # NoTool
        BY <3>2, <4>1, ToolsAssumption
      <4> QED
        BY <1>2, <2>3, <4>1, <4>2 DEF Yields
    <3>3. CASE o.events \in QuietLogs
      <4>1. e \in QuietEvent /\ rest \in {<<>>, <<"tool.completed">>, <<"tool.failed">>}
        BY <1>9, <3>3, QuietParts
      <4> QED
        BY <1>2, <2>3, <4>1 DEF Yields
    <3> QED
      BY <1>2, <3>1, <3>2, <3>3, OutcomeLog
  <2> HIDE DEF e, rest, over, d
  <2>5. d \in ExecutionCheckpoint /\ d.approval_decision = "undecided"
        /\ Len(ran'[r]) < Spent(r) + d.next_step
    BY <1>4, <1>7 DEF d
  <2> QED
    BY <1>1, <1>2, <1>5, <2>1, <2>2, <2>4, <2>5, ChatYields
<1> QED
  BY <1>8, <1>9

LEMMA ChatFailsOk ==
  ASSUME ChatInv, TypeOK', NEW r \in Runs, ChatFails(r)
  PROVE  ChatInv'
<1>1. /\ Streaming(r) /\ chat[r].payloads = <<>> /\ ~chat[r].over /\ loop = NoHandler
      /\ UNCHANGED <<ran, decider, loop>>
  BY DEF ChatFails, Streaming
<1>2. Writes(r) /\ row[r].status = "running" /\ OkAt(r) /\ SequenceFree(r, chat[r].sequence)
  BY <1>1, AdvanceWrites
<1>3. /\ AppendEvent(r, "run.failed", NoTool)
      /\ chat' = [chat EXCEPT ![r].phase = "returned"] /\ UNCHANGED messages
  BY <1>2 DEF ChatFails
<1>4. /\ chat'[r].phase = "returned" /\ \A q \in Runs \ {r} : chat'[q] = chat[q]
      /\ events'[r] = Append(events[r], "run.failed")
      /\ events[r] \in Seq(RunEvent) /\ "run.failed" \in RunEvent
      /\ row'[r] = ApplyRunUpdates(row[r], "run.failed", NoTool) /\ row[r] \in Row
      /\ \A q \in Runs \ {r} : row'[q] = row[q] /\ events'[q] = events[q]
  BY <1>3 DEF AppendEvent, ChatInv, TypeOK, ChatHandler, RunEvent
<1>5. row'[r] = [row[r] EXCEPT !.status = "failed", !.pending_tool_name = NoTool]
  BY <1>4 DEF ApplyRunUpdates
<1>6. row'[r].status = "failed"
  BY <1>4, <1>5 DEF Row
<1>7. OnlyAt(r)
  BY <1>1, <1>3, <1>4, HandlerAssumption DEF OnlyAt
<1>8. /\ Resumers(r) = {} /\ Resumers(r)' = {} /\ ~Streaming(r)' /\ ~Writes(r)'
      /\ ~Entitled(r) /\ ~Entitled(r)'
  <2>1. Resumers(r) = {} /\ Resumers(r)' = Resumers(r)
    BY <1>1, <1>2, OneWriter DEF Resumers, Resuming
  <2> QED
    BY <1>4, <2>1 DEF Streaming, Writes, Entitled
<1>9. \A names : "run.failed" \notin names => Count(r, names)' = Count(r, names)
  <2>1. \A names : /\ CountIn(events[r], names) \in Nat
                   /\ CountIn(events'[r], names)
                        = CountIn(events[r], names) + (IF "run.failed" \in names THEN 1 ELSE 0)
    BY <1>4, CountAppend
  <2>2. \A names : /\ Count(r, names) = CountIn(events[r], names)
                   /\ Count(r, names)' = CountIn(events'[r], names)
    BY DEF Count, CountIn
  <2> QED
    BY <2>1, <2>2
<1>10. /\ Count(r, Decisions)' = Count(r, Decisions)
       /\ Count(r, {"approval.required"})' = Count(r, {"approval.required"})
       /\ Count(r, {"approval.approved"})' = Count(r, {"approval.approved"})
  BY <1>9 DEF Decisions
<1>11. Spent(r)' = Spent(r) /\ Approved(r)' = Approved(r)
  BY <1>1, <1>10 DEF Spent, Approved
<1>12. CountsOk(r)'
  BY <1>1, <1>2, <1>6, <1>8, <1>10, <1>11 DEF OkAt, CountsOk
<1>13. LogOk(r)'
  <2>1. NoEnd(events[r])
    BY <1>2 DEF OkAt, LogOk
  <2> QED
    BY <1>4, <1>6, <2>1, EndAppend DEF LogOk, End
<1>14. ChatOk(r)' /\ WriterOk(r)' /\ RowOk(r)'
  BY <1>4, <1>6, <1>8 DEF ChatOk, WriterOk, RowOk
<1>15. \A d \in Deciders : decider'[d].run = r => DeciderOk(d)'
  BY <1>8 DEF DeciderOk, Resumers
<1>16. OkAt(r)'
  BY <1>12, <1>13, <1>14, <1>15 DEF OkAt
<1> QED
  BY <1>1, <1>7, <1>16, HandlerAssumption, ByRun

LEMMA ChatEndsOk ==
  ASSUME ChatInv, TypeOK', NEW r \in Runs, ChatReturns(r) \/ Disconnect(r)
  PROVE  ChatInv'
<1>1. PICK p \in {"returned", "raised", "gone"} : chat' = [chat EXCEPT ![r].phase = p]
  BY DEF ChatReturns, Disconnect
<1>2. /\ Streaming(r) /\ loop = NoHandler
      /\ UNCHANGED <<row, events, messages, ran, decider, loop>>
  BY DEF ChatReturns, Disconnect, Streaming
<1> QED
  BY <1>1, <1>2, ChatLeaves

LEMMA CountNat ==
  ASSUME TypeOK, NEW r \in Runs
  PROVE  /\ \A names : Count(r, names) \in Nat
         /\ Spent(r) \in Nat /\ Approved(r) \in Nat
<1>1. "run.started" \in RunEvent /\ events[r] \in Seq(RunEvent) /\ ran[r] \in Seq(Tools)
  BY DEF RunEvent, TypeOK
<1>2. \A names : Count(r, names) \in Nat
  <2>1. \A names : CountIn(events[r], names) \in Nat
    BY <1>1, CountAppend
  <2> QED
    BY <2>1 DEF Count, CountIn
<1>3. Approved(r) \in Nat
  <2>0. Len(ran[r]) \in Int /\ DOMAIN ran[r] = 1..Len(ran[r])
    BY <1>1
  <2>1. IsFiniteSet(1..Len(ran[r]))
    BY <2>0, FS_Interval
  <2>2. IsFiniteSet({i \in DOMAIN ran[r] : ran[r][i] \in ApprovalTools})
    BY <2>0, <2>1, FS_Subset
  <2> QED
    BY <2>2, FS_CardinalityType DEF Approved, CountIn
<1> QED
  BY <1>2, <1>3, SpentFacts DEF Spent

LEMMA ResumeRaisesOk ==
  ASSUME ChatInv, TypeOK', NEW d \in Deciders, ResumeRaises(d)
  PROVE  ChatInv'
<1>0. PICK r \in Runs : decider[d].run = r
  BY DEF ChatInv, TypeOK, DecisionHandler
<1>1. /\ OkAt(r) /\ DeciderOk(d) /\ Resuming(d) /\ loop = NoHandler
      /\ UNCHANGED <<row, events, messages, ran, chat, loop>>
  BY <1>0 DEF ChatInv, OkAt, ResumeRaises, Resuming
<1>2. /\ decider'[d].phase = "raised" /\ decider'[d].run = r
      /\ \A e \in Deciders \ {d} : decider'[e] = decider[e]
  BY <1>0 DEF ResumeRaises, ChatInv, TypeOK, DecisionHandler
<1>3. Resumers(r) = {d} /\ ~Writes(r)
  BY <1>0, <1>1 DEF DeciderOk
<1>4. OnlyAt(r)
  BY <1>0, <1>1, <1>2, HandlerAssumption DEF OnlyAt
<1>5. Resumers(r)' = {}
  <2>1. \A e \in Deciders \ {d} : ~(Resuming(e) /\ decider[e].run = r)
    BY <1>3 DEF Resumers
  <2> QED
    BY <1>2, <2>1 DEF Resumers, Resuming
<1>6. /\ Spent(r)' = Spent(r) /\ \A names : Count(r, names)' = Count(r, names)
      /\ Approved(r)' = Approved(r) /\ ~Entitled(r)' /\ ~Writes(r)'
  BY <1>1, <1>3, <1>5 DEF Spent, Count, Approved, Entitled, Writes, Streaming
<1>7. CountsOk(r)'
  <2>1. /\ \A names : Count(r, names) \in Nat
        /\ Approved(r) \in Nat
    BY <1>1, CountNat DEF ChatInv
  <2> QED
    BY <1>1, <1>6, <2>1 DEF OkAt, CountsOk
<1>8. ChatOk(r)' /\ WriterOk(r)' /\ RowOk(r)' /\ LogOk(r)'
  BY <1>1, <1>3, <1>6
  DEF OkAt, ChatOk, WriterOk, RowOk, LogOk, Claimable, NoEnd, Ends, Streaming
<1>9. \A e \in Deciders : decider'[e].run = r => DeciderOk(e)'
  BY <1>5 DEF DeciderOk, Resumers
<1>10. OkAt(r)'
  BY <1>7, <1>8, <1>9 DEF OkAt
<1> QED
  BY <1>1, <1>4, <1>10, HandlerAssumption, ByRun

LEMMA DecideOk ==
  ASSUME ChatInv, TypeOK', NEW d \in Deciders, NEW x \in {"approved", "rejected"},
         Decide(d, x)
  PROVE  ChatInv'
<1>0. PICK r \in Runs : decider[d].run = r
  BY DEF ChatInv, TypeOK, DecisionHandler
<1> DEFINE name == IF x = "approved" THEN "approval.approved" ELSE "approval.rejected"
           claimed == [row[r] EXCEPT !.approval_status = x, !.status = "running"]
<1>1. /\ OkAt(r) /\ loop = NoHandler /\ Claimable(r)
      /\ UNCHANGED <<messages, ran, chat, loop>>
  BY <1>0 DEF ChatInv, Decide
<1>2. /\ decider'[d].phase = "resuming" /\ decider'[d].run = r
      /\ decider'[d].sequence = Len(events[r]) + 2
      /\ decider'[d].checkpoint.next_step = 1
      /\ decider'[d].checkpoint.approval_decision = x
      /\ \A e \in Deciders \ {d} : decider'[e] = decider[e]
  BY <1>0 DEF Decide, ResumeCheckpoint, ChatInv, TypeOK, DecisionHandler
<1>3. /\ events'[r] = events[r] \o <<name, "run.resumed">>
      /\ events[r] \in Seq(RunEvent)
      /\ \A q \in Runs \ {r} : events'[q] = events[q] /\ row'[q] = row[q]
  BY <1>0 DEF Decide, ChatInv, TypeOK
<1>4. row'[r].status = "running"
  <2>1. row'[r] = ApplyRunUpdates(ApplyRunUpdates(claimed, name, NoTool),
                                  "run.resumed", NoTool)
    BY <1>0 DEF Decide, ChatInv, TypeOK
  <2>2. claimed \in Row
    <3>1. row[r] \in Row
      BY DEF ChatInv, TypeOK
    <3>2. [row[r] EXCEPT !.approval_status = x] \in Row
      BY <3>1 DEF Row
    <3>3. claimed = [[row[r] EXCEPT !.approval_status = x] EXCEPT !.status = "running"]
      OBVIOUS
    <3> HIDE DEF claimed
    <3> QED
      BY <3>2, <3>3 DEF Row
  <2>3. ApplyRunUpdates(claimed, name, NoTool) \in Row
    <3> HIDE DEF claimed, name
    <3> QED
      BY <2>2, RowType DEF ToolName
  <2>4. ASSUME NEW ro \in Row
        PROVE  ApplyRunUpdates(ro, "run.resumed", NoTool).status = "running"
    <3>1. ApplyRunUpdates(ro, "run.resumed", NoTool) = [ro EXCEPT !.status = "running"]
      BY DEF ApplyRunUpdates
    <3> QED
      BY <3>1 DEF Row
  <2> HIDE DEF claimed, name
  <2> QED
    BY <2>1, <2>3, <2>4
<1>5. name \in RunEvent /\ "run.resumed" \in RunEvent /\ name \notin End /\ name \in Decisions
      /\ "run.resumed" \notin End /\ "run.resumed" \notin Decisions
      /\ (name = "approval.approved" <=> x = "approved") /\ name # "approval.required"
  BY DEF RunEvent, End, Decisions
<1>6. row[r].status = "waiting_approval"
  BY <1>1 DEF Claimable
<1> HIDE DEF name, claimed
<1>7. Resumers(r) = {} /\ messages[r] = <<"user">>
  BY <1>1, <1>6, OneWriter DEF OkAt, RowOk
<1>8. OnlyAt(r)
  BY <1>0, <1>1, <1>2, <1>3, HandlerAssumption DEF OnlyAt
<1>9. Resumers(r)' = {d}
  <2>1. \A e \in Deciders : ~(Resuming(e) /\ decider[e].run = r)
    BY <1>7 DEF Resumers
  <2> QED
    BY <1>2, <2>1 DEF Resumers, Resuming
<1>10. Entitled(r)' <=> x = "approved"
  BY <1>2, <1>9 DEF Entitled
<1>11. ~Entitled(r)
  BY <1>7 DEF Entitled
<1>12. /\ events'[r] = Append(Append(events[r], name), "run.resumed")
       /\ Append(events[r], name) \in Seq(RunEvent)
       /\ Len(events'[r]) = Len(events[r]) + 2 /\ Len(events[r]) \in Nat
  <2>1. events'[r] = Append(Append(events[r], name), "run.resumed")
    BY <1>3, <1>5, AppendIsConcat
  <2>2. Append(events[r], name) \in Seq(RunEvent) /\ Len(events[r]) \in Nat
    BY <1>3, <1>5
  <2>3. Len(events'[r]) = Len(events[r]) + 2
    BY <1>3, <1>5, <2>1
  <2> QED
    BY <2>1, <2>2, <2>3
<1>13. \A names : /\ Count(r, names) \in Nat
                  /\ Count(r, names)' = Count(r, names)
                       + (IF name \in names THEN 1 ELSE 0)
                       + (IF "run.resumed" \in names THEN 1 ELSE 0)
  <2>1. \A names : /\ CountIn(events[r], names) \in Nat
                   /\ CountIn(Append(events[r], name), names)
                        = CountIn(events[r], names) + (IF name \in names THEN 1 ELSE 0)
    BY <1>3, <1>5, CountAppend
  <2>2. \A names : CountIn(events'[r], names)
                     = CountIn(Append(events[r], name), names)
                         + (IF "run.resumed" \in names THEN 1 ELSE 0)
    <3> DEFINE q == Append(events[r], name)
    <3>1. q \in Seq(RunEvent) /\ events'[r] = Append(q, "run.resumed")
      BY <1>12
    <3> HIDE DEF q
    <3>2. \A names : CountIn(Append(q, "run.resumed"), names)
                       = CountIn(q, names) + (IF "run.resumed" \in names THEN 1 ELSE 0)
      BY <1>5, <3>1, CountAppend
    <3> QED
      BY <3>1, <3>2 DEF q
  <2>3. \A names : /\ Count(r, names) = CountIn(events[r], names)
                   /\ Count(r, names)' = CountIn(events'[r], names)
    BY DEF Count, CountIn
  <2> QED
    BY <2>1, <2>2, <2>3
<1>14. /\ Count(r, Decisions)' = Count(r, Decisions) + 1
       /\ Count(r, {"approval.required"})' = Count(r, {"approval.required"})
       /\ Count(r, {"approval.approved"})'
            = Count(r, {"approval.approved"}) + (IF x = "approved" THEN 1 ELSE 0)
  <2>1. Count(r, Decisions)' = Count(r, Decisions) + 1
    BY <1>5, <1>13
  <2>2. Count(r, {"approval.required"})' = Count(r, {"approval.required"})
    BY <1>5, <1>13
  <2>3. Count(r, {"approval.approved"})'
            = Count(r, {"approval.approved"}) + (IF x = "approved" THEN 1 ELSE 0)
    BY <1>5, <1>13
  <2> QED
    BY <2>1, <2>2, <2>3
<1>15. Spent(r)' = Spent(r) + ToolStepLimit /\ Spent(r) \in Nat
  BY <1>13, <1>14, SpentFacts DEF Spent
<1>16. Len(ran'[r]) <= Spent(r) + ToolStepLimit /\ Len(ran'[r]) \in Nat
  BY <1>1 DEF OkAt, CountsOk, TypeOK
<1>17. CountsOk(r)'
  <2>1. Approved(r)' = Approved(r) /\ Approved(r) \in Nat
    BY <1>1, CountNat DEF Approved, ChatInv
  <2>2. Count(r, Decisions)' + 0 <= Count(r, {"approval.required"})'
    BY <1>1, <1>6, <1>13, <1>14 DEF OkAt, CountsOk
  <2>3. Approved(r)' + (IF Entitled(r)' THEN 1 ELSE 0) <= Count(r, {"approval.approved"})'
    BY <1>1, <1>10, <1>11, <1>13, <1>14, <2>1 DEF OkAt, CountsOk
  <2>4. Len(ran'[r]) <= Spent(r)' + ToolStepLimit
    BY <1>15, <1>16, ToolStepLimitPos
  <2> QED
    BY <1>4, <2>2, <2>3, <2>4 DEF CountsOk
<1>18. Streaming(r) => /\ chat[r].over /\ chat[r].sequence \in 1..Len(events[r])
                       /\ chat'[r].sequence # Len(events'[r])
  <2>1. Streaming(r) /\ Writes(r) => chat[r].over
    BY <1>1, <1>6, OwedDistinct DEF OkAt, ChatOk, WriterOk
  <2>2. Streaming(r) => chat[r].over /\ chat[r].sequence \in 1..Len(events[r])
    BY <1>1, <2>1 DEF OkAt, ChatOk
  <2> QED
    BY <1>1, <1>12, <2>2
<1>19. ~Writes(r)'
  BY <1>1, <1>18 DEF Writes, Streaming
<1>20. ChatOk(r)'
  BY <1>1, <1>12, <1>18 DEF OkAt, ChatOk, Streaming
<1>21. WriterOk(r)'
  BY <1>19 DEF WriterOk
<1>22. RowOk(r)'
  BY <1>1, <1>4, <1>6 DEF OkAt, RowOk
<1>23. LogOk(r)'
  <2>1. NoEnd(events[r])
    BY <1>1, <1>6 DEF OkAt, LogOk
  <2>2. NoEnd(Append(events[r], name))
    BY <1>3, <1>5, <2>1, EndAppend
  <2>3. NoEnd(events'[r])
    BY <1>5, <1>12, <2>2, EndAppend
  <2> QED
    BY <1>4, <2>3 DEF LogOk
<1>24. ASSUME NEW e \in Deciders, decider'[e].run = r
       PROVE  DeciderOk(e)'
  <2>1. CASE e # d
    BY <1>9, <1>24, <2>1 DEF DeciderOk, Resumers
  <2>2. CASE e = d
    <3>1. Len(ran'[r]) < Spent(r)' + decider'[d].checkpoint.next_step
      BY <1>2, <1>15, <1>16, ToolStepLimitPos
    <3>2. decider'[d].sequence = Len(events'[r])
      BY <1>2, <1>12
    <3>3. loop' # d /\ messages'[r] = <<"user">>
      BY <1>1, <1>7, HandlerAssumption
    <3> QED
      BY <1>4, <1>9, <1>19, <1>24, <2>2, <3>1, <3>2, <3>3 DEF DeciderOk
  <2> QED
    BY <2>1, <2>2
<1>25. OkAt(r)'
  BY <1>17, <1>20, <1>21, <1>22, <1>23, <1>24 DEF OkAt
<1> QED
  BY <1>1, <1>8, <1>25, HandlerAssumption, ByRun

LEMMA ResumeAdvanceOk ==
  ASSUME ChatInv, TypeOK', NEW d \in Deciders, ResumeAdvance(d)
  PROVE  ChatInv'
<1>0. PICK r \in Runs : decider[d].run = r
  BY DEF ChatInv, TypeOK, DecisionHandler
<1>1. /\ OkAt(r) /\ DeciderOk(d) /\ Resuming(d) /\ loop \in {NoHandler, d} /\ chat' = chat
      /\ TypeOK /\ decider[d] \in DecisionHandler
  BY <1>0 DEF ChatInv, OkAt, TypeOK, ResumeAdvance, Resuming
<1>2. PICK c \in ExecutionCheckpoint : decider[d].checkpoint = c
  BY <1>1 DEF DecisionHandler
<1>3. /\ decider[d].sequence = Len(events[r]) /\ ~Writes(r) /\ messages[r] = <<"user">>
      /\ row[r].status = IF loop = d THEN "waiting_approval" ELSE "running"
      /\ loop = d => Pausing(c)
      /\ Len(ran[r]) < Spent(r) + c.next_step /\ Resumers(r) = {d}
  BY <1>0, <1>1, <1>2 DEF DeciderOk
<1>4. PICK o \in Outcomes(c) :
        /\ IF o.events = <<>> \/ SequenceFree(r, decider[d].sequence)
             THEN /\ AppendAll(r, o.events, o.checkpoint.pending_tool)
                  /\ decider' = [decider EXCEPT
                       ![d].phase = IF ResumeReturns(o) THEN "returned" ELSE @,
                       ![d].sequence = @ + Len(o.events),
                       ![d].checkpoint = o.checkpoint]
                  /\ loop' = IF o.waiting /\ ~ResumeReturns(o)
                               THEN d ELSE NoHandler
             ELSE /\ decider' = [decider EXCEPT ![d].phase = "raised"]
                  /\ loop' = NoHandler
                  /\ UNCHANGED <<row, events, messages>>
        /\ RecordTool(r, o)
  BY <1>0, <1>2 DEF ResumeAdvance
<1>5. /\ o.checkpoint \in ExecutionCheckpoint /\ o.events \in Seq(EventName)
      /\ events[r] \in Seq(RunEvent) /\ row[r] \in Row
      /\ o.checkpoint.approval_decision \in {c.approval_decision, "undecided"}
      /\ o.completed => ~o.waiting
      /\ o.waiting <=> Pausing(c)
  BY <1>1, <1>4, OutcomeType, OutcomeFacts DEF StepOutcome, TypeOK
<1>6. SequenceFree(r, decider[d].sequence)
  BY <1>3, <1>5 DEF SequenceFree
<1>7. /\ AppendAll(r, o.events, o.checkpoint.pending_tool)
      /\ loop' = IF o.waiting THEN d ELSE NoHandler
      /\ decider'[d].run = r
      /\ decider'[d].phase = IF o.completed THEN "returned" ELSE "resuming"
      /\ decider'[d].sequence = decider[d].sequence + Len(o.events)
      /\ decider'[d].checkpoint = o.checkpoint
      /\ \A e \in Deciders \ {d} : decider'[e] = decider[e]
  <2> DEFINE phase == IF o.completed THEN "returned" ELSE decider[d].phase
             sequence == decider[d].sequence + Len(o.events)
  <2>1. /\ AppendAll(r, o.events, o.checkpoint.pending_tool)
        /\ decider' = [decider EXCEPT ![d].phase = phase, ![d].sequence = sequence,
                                      ![d].checkpoint = o.checkpoint]
        /\ loop' = IF o.waiting /\ ~o.completed THEN d ELSE NoHandler
    BY <1>4, <1>6 DEF ResumeReturns
  <2>2. decider[d].phase = "resuming"
    BY <1>1 DEF Resuming
  <2> HIDE DEF phase, sequence
  <2>3. /\ decider'[d].run = r /\ decider'[d].phase = phase
        /\ decider'[d].sequence = sequence /\ decider'[d].checkpoint = o.checkpoint
        /\ \A e \in Deciders \ {d} : decider'[e] = decider[e]
    BY <1>0, <1>1, <2>1 DEF TypeOK, DecisionHandler
  <2> QED
    BY <1>5, <2>1, <2>2, <2>3 DEF phase, sequence
<1>8. /\ \A q \in Runs \ {r} : ran'[q] = ran[q]
      /\ Len(ran'[r]) - Len(ran[r]) = o.checkpoint.next_step - c.next_step
      /\ Len(ran[r]) \in Nat /\ Len(ran'[r]) \in Nat
      /\ c.next_step \in Nat /\ o.checkpoint.next_step \in Nat
      /\ Approved(r) \in Nat
      /\ \/ Approved(r)' = Approved(r)
         \/ /\ Approved(r)' = Approved(r) + 1
            /\ c.approval_decision = "approved"
            /\ o.checkpoint.approval_decision = "undecided"
  <2>1. RecordTool(r, o)
    BY <1>4
  <2> QED
    BY <1>1, <2>1, RecordToolCounts
<1>9. /\ events'[r] = events[r] \o o.events
      /\ \A q \in Runs \ {r} : /\ events'[q] = events[q] /\ row'[q] = row[q]
                               /\ messages'[q] = messages[q]
      /\ messages'[r] = IF \E i \in DOMAIN o.events : o.events[i] = "assistant.message"
                          THEN Append(messages[r], "assistant") ELSE messages[r]
  BY <1>1, <1>7 DEF AppendAll, AddMessages, TypeOK
<1>10. OnlyAt(r)
  BY <1>0, <1>1, <1>7, <1>8, <1>9, HandlerAssumption DEF OnlyAt
<1>11. /\ Spent(r) \in Nat /\ \A names : Count(r, names) \in Nat
  BY <1>1, CountNat
<1>12. Len(ran'[r]) < Spent(r) + o.checkpoint.next_step
  <2> DEFINE a == Len(ran[r])
             b == Len(ran'[r])
             m == c.next_step
             n == o.checkpoint.next_step
             s == Spent(r)
  <2>1. a \in Nat /\ b \in Nat /\ m \in Nat /\ n \in Nat /\ s \in Nat
        /\ b - a = n - m /\ a < s + m
    BY <1>3, <1>8, <1>11
  <2> HIDE DEF a, b, m, n, s
  <2>2. b < s + n
    BY <2>1
  <2> QED
    BY <2>2 DEF b, n, s
<1>13. Len(ran'[r]) <= Spent(r) + ToolStepLimit
  <2>1. o.checkpoint.next_step <= ToolStepLimit + 1
    BY <1>5, ToolStepLimitPos DEF ExecutionCheckpoint
  <2> QED
    BY <1>8, <1>11, <1>12, <2>1, ToolStepLimitPos
<1>14. \A e \in Deciders \ {d} : ~(Resuming(e)' /\ decider'[e].run = r)
  <2>1. \A e \in Deciders \ {d} : ~(Resuming(e) /\ decider[e].run = r)
    BY <1>3 DEF Resumers
  <2> QED
    BY <1>7, <2>1 DEF Resuming
<1>15. Resumers(r)' = IF o.completed THEN {} ELSE {d}
  BY <1>7, <1>14 DEF Resumers, Resuming
<1>16. Approved(r)' + (IF Entitled(r)' THEN 1 ELSE 0) <= Count(r, {"approval.approved"})
  <2>1. Entitled(r) <=> c.approval_decision = "approved"
    BY <1>2, <1>3 DEF Entitled
  <2>2. Entitled(r)' => o.checkpoint.approval_decision = "approved"
    BY <1>7, <1>15 DEF Entitled
  <2>3. Approved(r) + (IF Entitled(r) THEN 1 ELSE 0) <= Count(r, {"approval.approved"})
    BY <1>1 DEF OkAt, CountsOk
  <2>4. CASE Approved(r)' = Approved(r)
    <3>1. Entitled(r)' => Entitled(r)
      BY <1>5, <2>1, <2>2
    <3> QED
      BY <1>8, <1>11, <2>3, <2>4, <3>1
  <2>5. CASE Approved(r)' = Approved(r) + 1 /\ c.approval_decision = "approved"
             /\ o.checkpoint.approval_decision = "undecided"
    <3>1. Entitled(r) /\ ~Entitled(r)'
      BY <2>1, <2>2, <2>5
    <3> QED
      BY <1>8, <1>11, <2>3, <2>5, <3>1
  <2> QED
    BY <1>8, <2>4, <2>5
<1>17. ASSUME NEW names, names \in {Decisions, {"approval.approved"}}
       PROVE  \A e \in EventName : e \notin names
  BY <1>17 DEF Decisions, EventName
<1>18. ASSUME Len(events'[r]) = Len(events[r]) + Len(o.events),
              Count(r, Decisions)' = Count(r, Decisions),
              Count(r, {"approval.approved"})' = Count(r, {"approval.approved"}),
              Count(r, Decisions) + (IF row'[r].status = "waiting_approval" THEN 1 ELSE 0)
                <= Count(r, {"approval.required"})',
              IF o.completed THEN row'[r].status = "completed" /\ Ends(events'[r])
                                  /\ messages'[r] = <<"user", "assistant">>
              ELSE /\ NoEnd(events'[r]) /\ messages'[r] = <<"user">>
                   /\ row'[r].status = IF o.waiting THEN "waiting_approval" ELSE "running"
                   /\ o.waiting => Claimable(r)' /\ o.checkpoint = c
       PROVE  OkAt(r)'
  <2>1. Spent(r)' = Spent(r)
    BY <1>18 DEF Spent
  <2>2. CountsOk(r)'
    <3>1. Approved(r)' + (IF Entitled(r)' THEN 1 ELSE 0) <= Count(r, {"approval.approved"})'
      BY <1>16, <1>18
    <3>2. Len(ran'[r]) <= Spent(r)' + ToolStepLimit
      BY <1>13, <2>1
    <3>3. Count(r, Decisions)' + (IF row'[r].status = "waiting_approval" THEN 1 ELSE 0)
                <= Count(r, {"approval.required"})'
      BY <1>18
    <3> QED
      BY <3>1, <3>2, <3>3 DEF CountsOk
  <2>3. Len(events[r]) \in Nat /\ Len(o.events) \in Nat
    BY <1>5
  <2>0. Len(events'[r]) \in Nat /\ Len(events[r]) <= Len(events'[r])
    <3> DEFINE m == Len(events[r])
               k == Len(o.events)
               n == Len(events'[r])
    <3>1. n = m + k /\ m \in Nat /\ k \in Nat
      BY <1>18, <2>3
    <3> HIDE DEF m, k, n
    <3>2. n \in Nat /\ m <= n
      BY <3>1
    <3> QED
      BY <3>2 DEF m, n
  <2>4. Streaming(r) => /\ chat[r].over /\ chat[r].sequence \in 1..Len(events[r])
                        /\ chat[r].sequence # Len(events'[r])
    <3>1. Streaming(r) => chat[r].over /\ chat[r].sequence \in 1..Len(events[r])
                          /\ chat[r].sequence # Len(events[r])
      BY <1>1, <1>3 DEF OkAt, ChatOk, Writes
    <3>2. Len(events'[r]) \in Nat /\ Len(events[r]) <= Len(events'[r])
      BY <2>0
    <3> QED
      BY <2>3, <3>1, <3>2
  <2>5. ~Writes(r)'
    BY <1>1, <2>4 DEF Writes, Streaming
  <2>6. ChatOk(r)'
    <3>1. Len(events'[r]) \in Nat /\ Len(events[r]) <= Len(events'[r])
      BY <2>0
    <3>2. \A n \in 1..Len(events[r]) : n \in 1..Len(events'[r])
      BY <2>3, <3>1
    <3> QED
      BY <1>1, <2>4, <3>2 DEF OkAt, ChatOk, Streaming
  <2>7. WriterOk(r)'
    BY <2>5 DEF WriterOk
  <2>8. RowOk(r)'
    <3>1. row[r].status # "absent" /\ chat[r].phase # "idle"
      BY <1>1, <1>3 DEF OkAt, RowOk
    <3>2. row'[r].status \in {"running", "waiting_approval", "completed"}
      BY <1>18
    <3>3. row'[r].status = "waiting_approval" => Claimable(r)' /\ messages'[r] = <<"user">>
      BY <1>18
    <3>4. row'[r].status = "completed" => messages'[r] = <<"user", "assistant">>
      BY <1>18
    <3> QED
      BY <1>1, <3>1, <3>2, <3>3, <3>4 DEF RowOk
  <2>9. LogOk(r)'
    BY <1>18 DEF LogOk
  <2>10. ASSUME NEW e \in Deciders, decider'[e].run = r
         PROVE  DeciderOk(e)'
    <3>1. CASE e # d \/ o.completed
      BY <1>15, <2>10, <3>1 DEF DeciderOk, Resumers
    <3>2. CASE e = d /\ ~o.completed
      <4>1. decider'[d].sequence = Len(events'[r])
        BY <1>3, <1>7, <1>18
      <4>2. Len(ran'[r]) < Spent(r)' + decider'[d].checkpoint.next_step
        BY <1>7, <1>12, <2>1
      <4>3. /\ row'[r].status = IF loop' = d THEN "waiting_approval" ELSE "running"
            /\ loop' = d => Pausing(decider'[d].checkpoint)
        BY <1>5, <1>7, <1>18, <3>2, HandlerAssumption
      <4>4. Resumers(r)' = {d} /\ messages'[r] = <<"user">>
        BY <1>15, <1>18, <3>2
      <4>5. Pausing(decider[d].checkpoint)' <=> Pausing(decider'[d].checkpoint)
        BY DEF Pausing
      <4> QED
        BY <1>7, <2>5, <2>10, <3>2, <4>1, <4>2, <4>3, <4>4, <4>5 DEF DeciderOk
    <3> QED
      BY <3>1, <3>2
  <2> QED
    BY <2>2, <2>6, <2>7, <2>8, <2>9, <2>10 DEF OkAt
<1>19. Count(r, Decisions) + (IF row[r].status = "waiting_approval" THEN 1 ELSE 0)
         <= Count(r, {"approval.required"})
  BY <1>1 DEF OkAt, CountsOk
<1>20. NoEnd(events[r])
  BY <1>1, <1>3 DEF OkAt, LogOk
<1>21. ASSUME NEW a \in EventName, NEW b \in EventName, o.events = <<a, b>>
       PROVE  /\ events'[r] = Append(Append(events[r], a), b)
              /\ Append(events[r], a) \in Seq(RunEvent) /\ a \in RunEvent /\ b \in RunEvent
              /\ Len(events'[r]) = Len(events[r]) + Len(o.events)
              /\ \A names : Count(r, names)' = Count(r, names)
                     + (IF a \in names THEN 1 ELSE 0) + (IF b \in names THEN 1 ELSE 0)
              /\ row'[r] = ApplyRunUpdates(
                   ApplyRunUpdates(row[r], a, o.checkpoint.pending_tool), b,
                   o.checkpoint.pending_tool)
  <2>1. a \in RunEvent /\ b \in RunEvent
    BY DEF RunEvent
  <2>0. Append(events[r], a) \in Seq(RunEvent)
    BY <1>5, <2>1
  <2>2. PICK q \in Seq(RunEvent) : q = Append(events[r], a)
    BY <2>0
  <2>3. events'[r] = Append(q, b)
    <3>1. events[r] \o <<a, b>> = Append(Append(events[r], a), b)
      BY <1>5, <2>1, AppendIsConcat
    <3> QED
      BY <1>9, <1>21, <2>2, <3>1
  <2>4. Len(events'[r]) = Len(events[r]) + Len(o.events)
    BY <1>5, <1>9
  <2>5. \A names : /\ CountIn(events[r], names) \in Nat
                   /\ CountIn(q, names)
                        = CountIn(events[r], names) + (IF a \in names THEN 1 ELSE 0)
    BY <1>5, <2>1, <2>2, CountAppend
  <2>6. \A names : CountIn(events'[r], names)
                     = CountIn(q, names) + (IF b \in names THEN 1 ELSE 0)
    BY <2>1, <2>3, CountAppend
  <2>7. \A names : /\ Count(r, names) = CountIn(events[r], names)
                   /\ Count(r, names)' = CountIn(events'[r], names)
    BY DEF Count, CountIn
  <2>8. \A names : Count(r, names)' = Count(r, names)
                     + (IF a \in names THEN 1 ELSE 0) + (IF b \in names THEN 1 ELSE 0)
    BY <2>5, <2>6, <2>7
  <2>9. row'[r] = ApplyRunUpdates(
                    ApplyRunUpdates(row[r], a, o.checkpoint.pending_tool), b,
                    o.checkpoint.pending_tool)
    <3>1. Len(o.events) = 2 /\ o.events[1] = a /\ o.events[2] = b
      BY <1>21
    <3> QED
      BY <1>1, <1>7, <3>1 DEF AppendAll, TypeOK
  <2> QED
    BY <2>0, <2>1, <2>2, <2>3, <2>4, <2>8, <2>9
<1>22. ASSUME o = Answer(c) PROVE OkAt(r)'
  <2>1. /\ o.events = <<"assistant.message", "run.completed">> /\ o.completed /\ ~o.waiting
        /\ "assistant.message" \in EventName /\ "run.completed" \in EventName
    BY <1>22 DEF Answer, EventName
  <2>2. /\ events'[r] = Append(Append(events[r], "assistant.message"), "run.completed")
        /\ Append(events[r], "assistant.message") \in Seq(RunEvent)
        /\ "assistant.message" \in RunEvent /\ "run.completed" \in RunEvent
        /\ Len(events'[r]) = Len(events[r]) + Len(o.events)
        /\ \A names : Count(r, names)' = Count(r, names)
               + (IF "assistant.message" \in names THEN 1 ELSE 0)
               + (IF "run.completed" \in names THEN 1 ELSE 0)
        /\ row'[r] = ApplyRunUpdates(
             ApplyRunUpdates(row[r], "assistant.message", o.checkpoint.pending_tool),
             "run.completed", o.checkpoint.pending_tool)
    BY <1>21, <2>1
  <2>3. row'[r].status = "completed"
    <3>1. ApplyRunUpdates(row[r], "assistant.message", o.checkpoint.pending_tool) = row[r]
      BY DEF ApplyRunUpdates
    <3>2. row'[r] = [row[r] EXCEPT !.status = "completed", !.pending_tool_name = NoTool]
      BY <2>2, <3>1 DEF ApplyRunUpdates
    <3> QED
      BY <1>5, <3>2 DEF Row
  <2>4. Ends(events'[r])
    <3>1. PICK q \in Seq(RunEvent) : q = Append(events[r], "assistant.message")
      BY <2>2
    <3>2. "assistant.message" \notin End /\ "run.completed" \in End
      BY DEF End
    <3>3. NoEnd(q)
      BY <1>5, <1>20, <2>2, <3>1, <3>2, EndAppend
    <3>4. Ends(Append(q, "run.completed"))
      BY <2>2, <3>2, <3>3, EndAppend
    <3> QED
      BY <2>2, <3>1, <3>4
  <2>5. messages'[r] = <<"user", "assistant">>
    <3>1. 1 \in DOMAIN o.events /\ o.events[1] = "assistant.message"
      BY <2>1
    <3> QED
      BY <1>3, <1>9, <3>1, OwedDistinct
  <2>6. /\ Count(r, Decisions)' = Count(r, Decisions)
        /\ Count(r, {"approval.approved"})' = Count(r, {"approval.approved"})
        /\ Count(r, {"approval.required"})' = Count(r, {"approval.required"})
    BY <1>11, <2>2 DEF Decisions
  <2>7. Count(r, Decisions) + (IF row'[r].status = "waiting_approval" THEN 1 ELSE 0)
          <= Count(r, {"approval.required"})'
    <3>1. Count(r, Decisions) + 0 <= Count(r, {"approval.required"})
      BY <1>3, <1>11, <1>19
    <3> QED
      BY <2>3, <2>6, <3>1
  <2> QED
    BY <1>18, <2>1, <2>2, <2>3, <2>4, <2>5, <2>6, <2>7
<1>23. ASSUME o = Pause(c), c.pending_tool \in ApprovalTools PROVE OkAt(r)'
  <2>1. /\ o.events = <<"approval.required", "run.waiting_approval">> /\ ~o.completed /\ o.waiting
        /\ "approval.required" \in EventName /\ "run.waiting_approval" \in EventName
        /\ o.checkpoint = c
    BY <1>23 DEF Pause, EventName
  <2>2. /\ events'[r] = Append(Append(events[r], "approval.required"), "run.waiting_approval")
        /\ Append(events[r], "approval.required") \in Seq(RunEvent)
        /\ "approval.required" \in RunEvent /\ "run.waiting_approval" \in RunEvent
        /\ Len(events'[r]) = Len(events[r]) + Len(o.events)
        /\ \A names : Count(r, names)' = Count(r, names)
               + (IF "approval.required" \in names THEN 1 ELSE 0)
               + (IF "run.waiting_approval" \in names THEN 1 ELSE 0)
        /\ row'[r] = ApplyRunUpdates(
             ApplyRunUpdates(row[r], "approval.required", o.checkpoint.pending_tool),
             "run.waiting_approval", o.checkpoint.pending_tool)
    BY <1>21, <2>1
  <2>3. /\ row'[r].status = "waiting_approval" /\ row'[r].approval_status = "pending"
        /\ row'[r].pending_tool_name # NoTool
    <3> DEFINE asked == [status |-> "waiting_approval", approval_status |-> "pending",
                         pending_tool_name |-> c.pending_tool]
    <3>1. ApplyRunUpdates(row[r], "approval.required", o.checkpoint.pending_tool) = asked
      BY <2>1 DEF ApplyRunUpdates
    <3>2. row'[r] = [asked EXCEPT !.status = "waiting_approval"]
      BY <2>2, <3>1 DEF ApplyRunUpdates
    <3>3. c.pending_tool # NoTool
      BY <1>23, ToolsAssumption
    <3> QED
      BY <3>2, <3>3
  <2>4. Claimable(r)'
    BY <2>3 DEF Claimable
  <2>5. NoEnd(events'[r])
    <3>1. PICK q \in Seq(RunEvent) : q = Append(events[r], "approval.required")
      BY <2>2
    <3>2. "approval.required" \notin End /\ "run.waiting_approval" \notin End
      BY DEF End
    <3>3. NoEnd(q)
      BY <1>5, <1>20, <2>2, <3>1, <3>2, EndAppend
    <3>4. NoEnd(Append(q, "run.waiting_approval"))
      BY <2>2, <3>2, <3>3, EndAppend
    <3> QED
      BY <2>2, <3>1, <3>4
  <2>6. messages'[r] = <<"user">>
    <3>1. \A i \in DOMAIN o.events : o.events[i] # "assistant.message"
      BY <2>1
    <3> QED
      BY <1>3, <1>9, <3>1
  <2>7. /\ Count(r, Decisions)' = Count(r, Decisions)
        /\ Count(r, {"approval.approved"})' = Count(r, {"approval.approved"})
        /\ Count(r, {"approval.required"})' >= Count(r, {"approval.required"})
    <3>1. Count(r, Decisions)' = Count(r, Decisions)
      <4>1. "approval.required" \notin Decisions /\ "run.waiting_approval" \notin Decisions
        BY DEF Decisions
      <4>2. Count(r, Decisions)' = Count(r, Decisions) + 0 + 0
        BY <2>2, <4>1
      <4> QED
        BY <1>11, <4>2
    <3>2. Count(r, {"approval.approved"})' = Count(r, {"approval.approved"})
      BY <1>11, <2>2
    <3>3. Count(r, {"approval.required"})' >= Count(r, {"approval.required"})
      BY <1>11, <2>2
    <3> QED
      BY <3>1, <3>2, <3>3
  <2>8. Count(r, Decisions) + 1 <= Count(r, {"approval.required"})'
    <3>1. Count(r, Decisions) \in Nat /\ Count(r, {"approval.required"}) \in Nat
      BY <1>11
    <3>2. Count(r, {"approval.required"})' = Count(r, {"approval.required"}) + 1
      BY <2>2, <3>1
    <3>3. Count(r, Decisions) <= Count(r, {"approval.required"})
      BY <1>19, <3>1
    <3> QED
      BY <3>1, <3>2, <3>3
  <2>9. Count(r, Decisions) + (IF row'[r].status = "waiting_approval" THEN 1 ELSE 0)
          <= Count(r, {"approval.required"})'
    BY <2>3, <2>8
  <2> QED
    BY <1>18, <2>1, <2>2, <2>3, <2>4, <2>5, <2>6, <2>7, <2>9
<1>24. ASSUME o.events \in QuietLogs, ~o.waiting, ~o.completed PROVE OkAt(r)'
  <2>1. loop # d /\ row[r].status = "running"
    BY <1>3, <1>5, <1>24
  <2>2. /\ Len(events'[r]) = Len(events[r]) + Len(o.events)
        /\ \A names \in Counted : CountIn(events'[r], names) = CountIn(events[r], names)
        /\ NoEnd(events'[r])
    BY <1>5, <1>9, <1>20, <1>24, QuietConcat
  <2>3. /\ Count(r, Decisions)' = Count(r, Decisions)
        /\ Count(r, {"approval.approved"})' = Count(r, {"approval.approved"})
        /\ Count(r, {"approval.required"})' = Count(r, {"approval.required"})
    <3>1. \A names : /\ Count(r, names) = CountIn(events[r], names)
                     /\ Count(r, names)' = CountIn(events'[r], names)
      BY DEF Count, CountIn
    <3>2. /\ Decisions \in Counted /\ {"approval.approved"} \in Counted
          /\ {"approval.required"} \in Counted
      BY DEF Counted
    <3> QED
      BY <2>2, <3>1, <3>2
  <2>4. \A i \in DOMAIN o.events : o.events[i] \in QuietEvent
    BY <1>24 DEF QuietLogs, QuietEvent
  <2>5. messages'[r] = <<"user">>
    <3>1. \A i \in DOMAIN o.events : o.events[i] # "assistant.message"
      BY <2>4, QuietEventFacts
    <3> QED
      BY <1>3, <1>9, <3>1
  <2>6. row'[r] = row[r]
    <3> DEFINE tool == o.checkpoint.pending_tool
    <3>1. \A e \in QuietEvent : ApplyRunUpdates(row[r], e, tool) = row[r]
      BY QuietEventFacts
    <3>2. row'[r] = CASE Len(o.events) = 1 -> ApplyRunUpdates(row[r], o.events[1], tool)
                      [] Len(o.events) = 2 ->
                           ApplyRunUpdates(ApplyRunUpdates(row[r], o.events[1], tool),
                                           o.events[2], tool)
                      [] OTHER -> row[r]
      BY <1>1, <1>7 DEF AppendAll, TypeOK
    <3>3. \/ Len(o.events) = 0
          \/ Len(o.events) = 1 /\ o.events[1] \in QuietEvent
          \/ Len(o.events) = 2 /\ o.events[1] \in QuietEvent /\ o.events[2] \in QuietEvent
      BY <1>24 DEF QuietLogs, QuietEvent
    <3> HIDE DEF tool
    <3>4. CASE Len(o.events) = 0
      BY <3>2, <3>4
    <3>5. CASE Len(o.events) = 1 /\ o.events[1] \in QuietEvent
      BY <3>1, <3>2, <3>5
    <3>6. CASE Len(o.events) = 2 /\ o.events[1] \in QuietEvent /\ o.events[2] \in QuietEvent
      BY <3>1, <3>2, <3>6
    <3> QED
      BY <3>3, <3>4, <3>5, <3>6
  <2>7. Count(r, Decisions) + (IF row'[r].status = "waiting_approval" THEN 1 ELSE 0)
          <= Count(r, {"approval.required"})'
    BY <1>19, <2>3, <2>6
  <2> QED
    BY <1>18, <1>24, <2>1, <2>2, <2>3, <2>5, <2>6, <2>7
<1>25. OkAt(r)'
  BY <1>2, <1>4, <1>22, <1>23, <1>24, OutcomeLog
<1>26. loop' \in Deciders => Resuming(loop)'
  <2>1. CASE o.waiting
    <3>1. loop' = d /\ decider'[d].phase = "resuming"
      BY <1>5, <1>7, <2>1
    <3> QED
      BY <3>1 DEF Resuming
  <2>2. CASE ~o.waiting
    BY <1>7, <2>2, HandlerAssumption
  <2> QED
    BY <2>1, <2>2
<1> QED
  BY <1>10, <1>25, <1>26, ByRun

\* A restart ends the handlers and leaves the database.
LEMMA RestartOk ==
  ASSUME ChatInv, TypeOK', Restart
  PROVE  ChatInv'
<1>1. /\ UNCHANGED <<row, events, messages, ran>> /\ loop' = NoHandler
      /\ \A r \in Runs : chat'[r] =
           IF chat[r].phase = "streaming" THEN [chat[r] EXCEPT !.phase = "gone"] ELSE chat[r]
      /\ \A d \in Deciders : decider'[d] =
           IF decider[d].phase = "resuming"
             THEN [decider[d] EXCEPT !.phase = "gone"] ELSE decider[d]
  BY DEF Restart
<1>2. ASSUME NEW r \in Runs
      PROVE  OkAt(r)'
  <2>1. OkAt(r) /\ chat[r] \in ChatHandler
    BY DEF ChatInv, TypeOK
  <2>2. /\ chat'[r].phase # "streaming" /\ (chat'[r].phase = "idle" <=> chat[r].phase = "idle")
        /\ chat'[r].payloads = chat[r].payloads /\ chat'[r].over = chat[r].over
        /\ chat'[r].checkpoint = chat[r].checkpoint
    BY <1>1, <2>1 DEF ChatHandler
  <2>3. \A d \in Deciders : decider'[d].phase # "resuming"
    <3>1. \A d \in Deciders : decider[d] \in DecisionHandler
      BY DEF ChatInv, TypeOK
    <3> QED
      BY <1>1, <3>1 DEF DecisionHandler
  <2>4. ~Streaming(r)' /\ ~Writes(r)' /\ Resumers(r)' = {} /\ ~Entitled(r)'
    BY <2>2, <2>3 DEF Streaming, Writes, Resumers, Resuming, Entitled
  <2>5. ChatOk(r)' /\ WriterOk(r)'
    BY <2>4 DEF ChatOk, WriterOk
  <2>6. RowOk(r)' /\ LogOk(r)'
    BY <1>1, <2>1, <2>2 DEF OkAt, RowOk, LogOk, Claimable, NoEnd, Ends
  <2>7. CountsOk(r)'
    <3>1. /\ Spent(r)' = Spent(r) /\ Approved(r)' = Approved(r)
          /\ \A names : Count(r, names)' = Count(r, names)
      BY <1>1 DEF Spent, Count, Approved
    <3>2. Approved(r) \in Nat /\ \A names : Count(r, names) \in Nat
      BY CountNat DEF ChatInv
    <3> QED
      BY <1>1, <2>1, <2>4, <3>1, <3>2 DEF OkAt, CountsOk
  <2>8. \A d \in Deciders : DeciderOk(d)'
    BY <2>3 DEF DeciderOk, Resuming
  <2> QED
    BY <2>5, <2>6, <2>7, <2>8 DEF OkAt
<1>3. loop' \notin Deciders
  BY <1>1, HandlerAssumption
<1> QED
  BY <1>2, <1>3 DEF ChatInv

LEMMA ChatInvStep == ChatInv /\ [Next]_vars => ChatInv'
<1> SUFFICES ASSUME ChatInv, [Next]_vars
             PROVE  ChatInv'
  OBVIOUS
<1>1. TypeOK'
  BY TypeStep DEF ChatInv
<1>2. ASSUME NEW r \in Runs, StartChat(r)
      PROVE  ChatInv'
  BY <1>1, <1>2, StartChatOk
<1>3. ASSUME NEW r \in Runs, ChatStep(r)
      PROVE  ChatInv'
  BY <1>1, <1>3, ChatPayloadOk, ChatAdvanceOk, ChatFailsOk, ChatEndsOk DEF ChatStep
<1>4. ASSUME NEW r \in Runs, Disconnect(r)
      PROVE  ChatInv'
  BY <1>1, <1>4, ChatEndsOk
<1>5. ASSUME NEW d \in Deciders, DeciderStep(d)
      PROVE  ChatInv'
  BY <1>1, <1>5, ResumeAdvanceOk, ResumeRaisesOk DEF DeciderStep
<1>6. ASSUME NEW d \in Deciders, NEW x \in {"approved", "rejected"}, Decide(d, x)
      PROVE  ChatInv'
  BY <1>1, <1>6, DecideOk
<1>7. CASE Restart
  BY <1>1, <1>7, RestartOk
<1>8. CASE UNCHANGED vars
  <2>1. UNCHANGED <<row, events, messages, ran, chat, decider, loop>>
    BY <1>8 DEF vars
  <2>2. \A r \in Runs : /\ Streaming(r)' <=> Streaming(r)
                        /\ Writes(r)' <=> Writes(r)
                        /\ Resumers(r)' = Resumers(r)
                        /\ Entitled(r)' <=> Entitled(r)
                        /\ Spent(r)' = Spent(r) /\ Approved(r)' = Approved(r)
                        /\ \A names : Count(r, names)' = Count(r, names)
    BY <2>1 DEF Streaming, Writes, Resumers, Resuming, Entitled, Spent, Approved, Count
  <2>3. ASSUME NEW r \in Runs
        PROVE  OkAt(r)'
    <3>1. OkAt(r)
      BY DEF ChatInv
    <3>2. ChatOk(r)' /\ WriterOk(r)'
      BY <2>1, <2>2, <3>1 DEF OkAt, ChatOk, WriterOk
    <3>3. RowOk(r)' /\ LogOk(r)' /\ CountsOk(r)'
      BY <2>1, <2>2, <3>1 DEF OkAt, RowOk, LogOk, CountsOk, Claimable, NoEnd, Ends
    <3>4. ASSUME NEW d \in Deciders, decider'[d].run = r
          PROVE  DeciderOk(d)'
      <4>1. DeciderOk(d) /\ decider[d].run = r
        BY <2>1, <3>1, <3>4 DEF OkAt
      <4> QED
        BY <2>1, <2>2, <4>1 DEF DeciderOk, Resuming
    <3> QED
      BY <3>2, <3>3, <3>4 DEF OkAt
  <2>4. loop' \in Deciders => Resuming(loop)'
    BY <2>1 DEF ChatInv, Resuming
  <2> QED
    BY <1>1, <2>3, <2>4 DEF ChatInv
<1> QED
  BY <1>2, <1>3, <1>4, <1>5, <1>6, <1>7, <1>8 DEF Next

\* Who writes to a run, and what its row, its log, its messages and its tools
\* say of each other (app/services/chat_service.py, approval_service.py).
THEOREM ChatInvariant == Spec => []ChatInv
  BY ChatInvInit, ChatInvStep, PTL DEF Spec

-----------------------------------------------------------------------------
(* What follows *)

\* A run that waits for a decision can be given one, also while its chat
\* handler still owes the event run.waiting_approval.
THEOREM WaitingIsDecidable == Spec => []WaitingCanBeDecided
<1>1. ChatInv => WaitingCanBeDecided
  BY DEF ChatInv, OkAt, RowOk, WaitingCanBeDecided
<1> QED
  BY <1>1, ChatInvariant, PTL

\* run.completed and run.failed come last in the log, whichever handlers
\* write, and the row agrees with the log.
THEOREM EndStaysLast == Spec => []EndIsLast
<1>1. ASSUME ChatInv, NEW r \in Runs
      PROVE  /\ \A i \in DOMAIN events[r] :
                  events[r][i] \in {"run.completed", "run.failed"} => i = Len(events[r])
             /\ row[r].status \in {"completed", "failed"} =>
                  Last(events[r]) \in {"run.completed", "run.failed"}
  <2>1. LogOk(r)
    BY <1>1 DEF ChatInv, OkAt
  <2> QED
    BY <2>1 DEF LogOk, NoEnd, Ends, End, Last
<1>2. ChatInv => EndIsLast
  BY <1>1 DEF EndIsLast
<1> QED
  BY <1>2, ChatInvariant, PTL

\* However many requests reach the approval endpoint, one of them decides.
THEOREM DecidedOncePerRequest == Spec => []OneDecisionPerRequest
<1>1. ASSUME ChatInv, NEW r \in Runs
      PROVE  Count(r, Decisions) <= Count(r, {"approval.required"})
  <2>1. CountsOk(r) /\ TypeOK
    BY <1>1 DEF ChatInv, OkAt
  <2>2. Count(r, Decisions) \in Nat /\ Count(r, {"approval.required"}) \in Nat
    BY <2>1, CountNat
  <2> QED
    BY <2>1, <2>2 DEF CountsOk
<1>2. ChatInv => OneDecisionPerRequest
  BY <1>1 DEF OneDecisionPerRequest
<1> QED
  BY <1>2, ChatInvariant, PTL

\* A tool that requires approval runs at most once per approval given.
THEOREM ApprovedToolsOnly == Spec => []ApprovedBeforeRun
<1>1. ASSUME ChatInv, NEW r \in Runs
      PROVE  Cardinality({i \in DOMAIN ran[r] : ran[r][i] \in ApprovalTools})
               <= Count(r, {"approval.approved"})
  <2>1. CountsOk(r) /\ TypeOK
    BY <1>1 DEF ChatInv, OkAt
  <2>2. Approved(r) \in Nat /\ Count(r, {"approval.approved"}) \in Nat
    BY <2>1, CountNat
  <2>3. Approved(r) <= Count(r, {"approval.approved"})
    BY <2>1, <2>2 DEF CountsOk
  <2> QED
    BY <2>3 DEF Approved, CountIn
<1>2. ChatInv => ApprovedBeforeRun
  BY <1>1 DEF ApprovedBeforeRun
<1> QED
  BY <1>2, ChatInvariant, PTL

\* The step limit holds for the first plan and again after every decision.
THEOREM BudgetHolds == Spec => []BudgetPerDecision
<1>1. ASSUME ChatInv, NEW r \in Runs
      PROVE  Len(ran[r]) <= ToolStepLimit * (1 + Count(r, Decisions))
  <2>1. CountsOk(r) /\ TypeOK
    BY <1>1 DEF ChatInv, OkAt
  <2> DEFINE n == Count(r, Decisions)
  <2>2. n \in Nat /\ Len(ran[r]) <= ToolStepLimit * n + ToolStepLimit
    BY <2>1, CountNat DEF CountsOk, Spent
  <2> HIDE DEF n
  <2>3. 1 + n = n + 1 /\ ToolStepLimit * (n + 1) = ToolStepLimit * n + ToolStepLimit
    BY <2>2, SpentFacts
  <2>4. Len(ran[r]) <= ToolStepLimit * (1 + n)
    BY <2>2, <2>3
  <2> QED
    BY <2>4 DEF n
<1>2. ChatInv => BudgetPerDecision
  BY <1>1 DEF BudgetPerDecision
<1> QED
  BY <1>2, ChatInvariant, PTL

\* A completed run has one question and one answer in its session, also when
\* the chat handler and the approval handler both wrote to it.
THEOREM AnsweredOnce == Spec => []CompletedIsAnswered
<1>1. ChatInv => CompletedIsAnswered
  BY DEF ChatInv, OkAt, RowOk, CompletedIsAnswered
<1> QED
  BY <1>1, ChatInvariant, PTL
=============================================================================
