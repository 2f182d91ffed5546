------------------------------- MODULE ChatRun -------------------------------
(***************************************************************************)
(* The in-process path: POST /chat/stream and POST /approvals/{run_id}     *)
(* (app/services/chat_service.py, approval_service.py) over the SQLite     *)
(* repositories of runs and messages.                                      *)
(*                                                                         *)
(* One server process runs all request handlers on one event loop.  A      *)
(* handler gives the loop up only where it awaits something that is not    *)
(* ready: the language model, a tool, or the client it streams to.  One    *)
(* action is what a handler does from one such point to the next; the      *)
(* repository calls in between are synchronous.                            *)
(***************************************************************************)
EXTENDS AgentRuntime, SequencesExt

CONSTANTS
  Runs,         \* run ids
  Deciders,     \* requests to the approval endpoint, one decision each
  NoHandler,    \* nobody holds the event loop
  MaxEvents,    \* bound: a handler that never stops asking stops here
  MaxRestarts   \* bound: restarts of the server process

ASSUME HandlerAssumption == NoHandler \notin Deciders
ASSUME ChatBoundsAssumption == MaxEvents \in Nat /\ MaxRestarts \in Nat

VARIABLES
  row,      \* table runs: status, approval_status, pending_tool_name
  events,   \* table run_events: the event types in order of sequence
  messages, \* table messages: the roles of the messages of a run
  ran,      \* external effect: the tools the run executed
  chat,     \* the handler that streams the run to the client
  decider,  \* the handlers of the approval endpoint
  loop,     \* the decider that keeps the event loop to itself
  restarts  \* restarts so far

vars == <<row, events, messages, ran, chat, decider, loop, restarts>>

RunEvent == EventName \cup
  {"run.started", "run.resumed", "run.failed",
   "approval.approved", "approval.rejected"}

Row ==
  [status : {"absent", "running", "waiting_approval", "completed", "failed"},
   approval_status : {"none", "pending", "approved", "rejected"},
   pending_tool_name : ToolName]

NoRow == [status |-> "absent", approval_status |-> "none",
          pending_tool_name |-> NoTool]

ChatHandler ==
  [phase : {"idle", "streaming", "returned", "raised", "gone"},
   sequence : Nat, checkpoint : ExecutionCheckpoint,
   payloads : Seq(EventName), over : BOOLEAN]

DecisionHandler ==
  [phase : {"idle", "resuming", "returned", "raised", "gone"},
   run : Runs, sequence : Nat, checkpoint : ExecutionCheckpoint]

TypeOK ==
  /\ row \in [Runs -> Row]
  /\ events \in [Runs -> Seq(RunEvent)]
  /\ messages \in [Runs -> Seq({"user", "assistant"})]
  /\ ran \in [Runs -> Seq(Tools)]
  /\ chat \in [Runs -> ChatHandler]
  /\ decider \in [Deciders -> DecisionHandler]
  /\ loop \in Deciders \cup {NoHandler}
  /\ restarts \in Nat

Init ==
  /\ row = [r \in Runs |-> NoRow]
  /\ events = [r \in Runs |-> <<>>]
  /\ messages = [r \in Runs |-> <<>>]
  /\ ran = [r \in Runs |-> <<>>]
  /\ chat = [r \in Runs |-> [phase |-> "idle", sequence |-> 0,
                              checkpoint |-> FreshCheckpoint,
                              payloads |-> <<>>, over |-> FALSE]]
  /\ decider \in [Deciders -> [phase : {"idle"}, run : Runs, sequence : {0},
                               checkpoint : {FreshCheckpoint}]]
  /\ loop = NoHandler
  /\ restarts = 0

-----------------------------------------------------------------------------
(* The repository of runs *)

\* _apply_run_updates: what one event does to the row of its run.
ApplyRunUpdates(ro, e, tool) ==
  CASE e = "approval.required" ->
         [status |-> "waiting_approval", approval_status |-> "pending",
          pending_tool_name |-> tool]
    [] e = "run.waiting_approval" -> [ro EXCEPT !.status = "waiting_approval"]
    [] e = "approval.approved" ->
         [ro EXCEPT !.status = "running", !.approval_status = "approved"]
    [] e = "approval.rejected" -> [ro EXCEPT !.approval_status = "rejected"]
    [] e = "run.resumed" -> [ro EXCEPT !.status = "running"]
    [] e = "run.completed" ->
         [ro EXCEPT !.status = "completed", !.pending_tool_name = NoTool]
    [] e = "run.failed" ->
         [ro EXCEPT !.status = "failed", !.pending_tool_name = NoTool]
    [] OTHER -> ro

\* Mutant of SequenceFree: run_events without its unique index.
SequenceFree_NoIndex(r, sequence) == TRUE

\* idx_run_events_run_sequence: an INSERT at a used sequence number raises
\* IntegrityError and its transaction changes nothing.
SequenceFree(r, sequence) == sequence >= Len(events[r])

\* append_event
AppendEvent(r, e, tool) ==
  /\ events' = [events EXCEPT ![r] = Append(@, e)]
  /\ row' = [row EXCEPT ![r] = ApplyRunUpdates(@, e, tool)]

\* Mutant of AddMessages: the answer is streamed and never stored.
AddMessages_Dropped(r, evs) == UNCHANGED messages

\* Both services store the assistant's message after its event.
AddMessages(r, evs) ==
  messages' = [messages EXCEPT ![r] =
                 IF \E i \in DOMAIN evs : evs[i] = "assistant.message"
                   THEN Append(@, "assistant") ELSE @]

\* Mutant of Claimable: only the stored tool call is looked at.
Claimable_PendingToolOnly(r) == row[r].pending_tool_name # NoTool

\* The early returns of handle_decision and the WHERE of
\* claim_pending_approval.
Claimable(r) ==
  /\ row[r].status = "waiting_approval"
  /\ row[r].pending_tool_name # NoTool
  /\ row[r].approval_status = "pending"

RecordTool(r, o) ==
  ran' = [ran EXCEPT ![r] = IF o.ran = NoTool THEN @ ELSE Append(@, o.ran)]

-----------------------------------------------------------------------------
(* ChatService.stream_chat *)

\* The first event: the run and the user's message are stored.
StartChat(r) ==
  /\ loop = NoHandler
  /\ chat[r].phase = "idle"
  /\ chat' = [chat EXCEPT ![r].phase = "streaming", ![r].sequence = 1]
  /\ row' = [row EXCEPT ![r].status = "running"]
  /\ events' = [events EXCEPT ![r] = <<"run.started">>]
  /\ messages' = [messages EXCEPT ![r] = <<"user">>]
  /\ UNCHANGED <<ran, decider, loop, restarts>>

\* append_event raised: the handler answers with run.failed at the same
\* sequence number, which raises again, and the stream breaks.
ChatRaises(r) ==
  /\ chat' = [chat EXCEPT ![r].phase = "raised"]
  /\ UNCHANGED <<row, events, messages>>

\* Appends the first of the payloads ps and yields it to the client.
Yield(r, c, ps, over) ==
  IF SequenceFree(r, chat[r].sequence)
    THEN /\ AppendEvent(r, Head(ps), c.pending_tool)
         /\ AddMessages(r, <<Head(ps)>>)
         /\ chat' = [chat EXCEPT ![r].sequence = @ + 1,
                                 ![r].checkpoint = c,
                                 ![r].payloads = Tail(ps),
                                 ![r].over = over]
    ELSE ChatRaises(r)

\* The client took the last event; the next payload of the same outcome.
ChatPayload(r) ==
  /\ loop = NoHandler
  /\ chat[r].phase = "streaming" /\ chat[r].payloads # <<>>
  /\ Yield(r, chat[r].checkpoint, chat[r].payloads, chat[r].over)
  /\ UNCHANGED <<ran, decider, loop, restarts>>

\* AgentRuntime.stream takes another step.
ChatAdvance(r) ==
  /\ loop = NoHandler
  /\ chat[r].phase = "streaming" /\ chat[r].payloads = <<>> /\ ~chat[r].over
  /\ \E o \in Outcomes(chat[r].checkpoint) :
       /\ IF o.events = <<>>
            THEN /\ chat' = [chat EXCEPT ![r].checkpoint = o.checkpoint]
                 /\ UNCHANGED <<row, events, messages>>
            ELSE Yield(r, o.checkpoint, o.events, o.waiting \/ o.completed)
       /\ RecordTool(r, o)
  /\ UNCHANGED <<decider, loop, restarts>>

\* The language model raised: the run is recorded as failed.  Tools do not
\* raise, ToolExecutor turns their errors into tool.failed.
ChatFails(r) ==
  /\ loop = NoHandler
  /\ chat[r].phase = "streaming" /\ chat[r].payloads = <<>> /\ ~chat[r].over
  /\ chat[r].checkpoint.pending_action # "tool"
  /\ IF SequenceFree(r, chat[r].sequence)
       THEN /\ AppendEvent(r, "run.failed", NoTool)
            /\ chat' = [chat EXCEPT ![r].phase = "returned"]
            /\ UNCHANGED messages
       ELSE ChatRaises(r)
  /\ UNCHANGED <<ran, decider, loop, restarts>>

ChatReturns(r) ==
  /\ loop = NoHandler
  /\ chat[r].phase = "streaming" /\ chat[r].payloads = <<>> /\ chat[r].over
  /\ chat' = [chat EXCEPT ![r].phase = "returned"]
  /\ UNCHANGED <<row, events, messages, ran, decider, loop, restarts>>

\* The client goes away: the generator is closed, and no exception that
\* "except Exception" catches reaches it.
Disconnect(r) ==
  /\ loop = NoHandler
  /\ chat[r].phase = "streaming"
  /\ chat' = [chat EXCEPT ![r].phase = "gone"]
  /\ UNCHANGED <<row, events, messages, ran, decider, loop, restarts>>

-----------------------------------------------------------------------------
(* ApprovalService.handle_decision *)

ResumeCheckpoint(tool, decision) ==
  [next_step |-> 1, pending_action |-> "tool",
   pending_tool |-> tool, approval_decision |-> decision]

\* Checks and claims the approval, takes the next sequence number, appends
\* the decision and run.resumed, and starts on the stored tool call.
Decide(d, decision) ==
  LET r == decider[d].run
      name == IF decision = "approved" THEN "approval.approved"
                                       ELSE "approval.rejected"
      claimed == [row[r] EXCEPT !.approval_status = decision,
                                !.status = "running"]
  IN /\ loop = NoHandler
     /\ decider[d].phase = "idle"
     /\ Claimable(r)
     /\ events' = [events EXCEPT ![r] = @ \o <<name, "run.resumed">>]
     /\ row' = [row EXCEPT ![r] =
                  ApplyRunUpdates(ApplyRunUpdates(claimed, name, NoTool),
                                  "run.resumed", NoTool)]
     /\ decider' = [decider EXCEPT
          ![d].phase = "resuming",
          ![d].sequence = Len(events[r]) + 2,
          ![d].checkpoint =
             ResumeCheckpoint(row[r].pending_tool_name, decision)]
     /\ UNCHANGED <<messages, ran, chat, loop, restarts>>

\* Appends the events of one outcome; none of them is awaited.
AppendAll(r, evs, tool) ==
  /\ events' = [events EXCEPT ![r] = @ \o evs]
  /\ row' = [row EXCEPT ![r] =
       CASE Len(evs) = 1 -> ApplyRunUpdates(@, evs[1], tool)
         [] Len(evs) = 2 ->
              ApplyRunUpdates(ApplyRunUpdates(@, evs[1], tool), evs[2], tool)
         [] OTHER -> @]
  /\ AddMessages(r, evs)

\* AgentRuntime.resume leaves its loop only when the run completed.
ResumeReturns(o) == o.completed

\* One round of the loop of AgentRuntime.resume.  A round that asks for the
\* approval of another tool awaits nothing and leaves the checkpoint as it
\* is: the handler keeps the event loop and asks again.
ResumeAdvance(d) ==
  LET r == decider[d].run IN
  /\ loop \in {NoHandler, d}
  /\ decider[d].phase = "resuming"
  /\ \E o \in Outcomes(decider[d].checkpoint) :
       /\ loop = d => Len(events[r]) + 2 <= MaxEvents
       /\ IF o.events = <<>> \/ SequenceFree(r, decider[d].sequence)
            THEN /\ AppendAll(r, o.events, o.checkpoint.pending_tool)
                 /\ decider' = [decider EXCEPT
                      ![d].phase = IF ResumeReturns(o) THEN "returned" ELSE @,
                      ![d].sequence = @ + Len(o.events),
                      ![d].checkpoint = o.checkpoint]
                 /\ loop' = IF o.waiting /\ ~ResumeReturns(o)
                              THEN d ELSE NoHandler
            ELSE /\ decider' = [decider EXCEPT ![d].phase = "raised"]
                 /\ loop' = NoHandler
                 /\ UNCHANGED <<row, events, messages>>
       /\ RecordTool(r, o)
  /\ UNCHANGED <<chat, restarts>>

\* The language model raised: handle_decision has no handler for it.
ResumeRaises(d) ==
  /\ loop = NoHandler
  /\ decider[d].phase = "resuming"
  /\ decider[d].checkpoint.pending_action # "tool"
  /\ decider' = [decider EXCEPT ![d].phase = "raised"]
  /\ UNCHANGED <<row, events, messages, ran, chat, loop, restarts>>

\* The server process ends and starts again: handlers are gone, the
\* database is not.
Restart ==
  /\ restarts < MaxRestarts
  /\ restarts' = restarts + 1
  /\ chat' = [r \in Runs |->
       IF chat[r].phase = "streaming" THEN [chat[r] EXCEPT !.phase = "gone"]
                                      ELSE chat[r]]
  /\ decider' = [d \in Deciders |->
       IF decider[d].phase = "resuming"
         THEN [decider[d] EXCEPT !.phase = "gone"] ELSE decider[d]]
  /\ loop' = NoHandler
  /\ UNCHANGED <<row, events, messages, ran>>

-----------------------------------------------------------------------------
ChatStep(r) == ChatPayload(r) \/ ChatAdvance(r) \/ ChatFails(r) \/ ChatReturns(r)

DeciderStep(d) == ResumeAdvance(d) \/ ResumeRaises(d)

Next ==
  \/ \E r \in Runs : StartChat(r) \/ ChatStep(r) \/ Disconnect(r)
  \/ \E d \in Deciders :
       DeciderStep(d) \/ \E x \in {"approved", "rejected"} : Decide(d, x)
  \/ Restart

Spec == Init /\ [][Next]_vars

\* The event loop runs every task that is ready, and the language model and
\* the tools answer or raise (both have timeouts).
FairSpec ==
  /\ Spec
  /\ \A r \in Runs : WF_vars(ChatStep(r))
  /\ \A d \in Deciders : WF_vars(DeciderStep(d))

-----------------------------------------------------------------------------
Count(r, names) == Cardinality({i \in DOMAIN events[r] : events[r][i] \in names})

Decisions == {"approval.approved", "approval.rejected"}

\* A run that waits for a decision can be given one.  The chat handler may
\* still owe the event run.waiting_approval when the decision is taken; it
\* must not put a decided run back into waiting.
WaitingCanBeDecided ==
  \A r \in Runs : row[r].status = "waiting_approval" => Claimable(r)

\* Whatever handlers write to a run, run.completed and run.failed come last,
\* and the row says the same as the log.
EndIsLast ==
  \A r \in Runs :
    /\ \A i \in DOMAIN events[r] :
         events[r][i] \in {"run.completed", "run.failed"} => i = Len(events[r])
    /\ row[r].status \in {"completed", "failed"} =>
         Last(events[r]) \in {"run.completed", "run.failed"}

\* A request for approval is decided at most once, whoever decides.
OneDecisionPerRequest ==
  \A r \in Runs : Count(r, Decisions) <= Count(r, {"approval.required"})

\* A tool that requires approval runs at most once per approval given.
ApprovedBeforeRun ==
  \A r \in Runs :
    Cardinality({i \in DOMAIN ran[r] : ran[r][i] \in ApprovalTools})
      <= Count(r, {"approval.approved"})

\* The step budget starts again with every decision, and holds in between.
BudgetPerDecision ==
  \A r \in Runs :
    Len(ran[r]) <= ToolStepLimit * (1 + Count(r, Decisions))

\* A completed run has its question and exactly one answer in the session,
\* also when two handlers wrote to it.
CompletedIsAnswered ==
  \A r \in Runs :
    row[r].status = "completed" => messages[r] = <<"user", "assistant">>

\* A handler comes to an end unless a decision handler took the event loop
\* for itself.
HandlersEnd ==
  /\ \A r \in Runs :
       chat[r].phase = "streaming" ~> (chat[r].phase # "streaming" \/ loop # NoHandler)
  /\ \A d \in Deciders :
       decider[d].phase = "resuming" ~> (decider[d].phase # "resuming" \/ loop # NoHandler)

\* "high-risk tools still pause for approval before execution": a run asks
\* once and then waits for the decision.
PausesForApproval ==
  \A r \in Runs : Count(r, {"approval.required"}) <= Count(r, Decisions) + 1
=============================================================================
