---------------------------- MODULE AgentRuntime ----------------------------
(***************************************************************************)
(* The plan / tool / answer engine (app/agent/runtime.py).                 *)
(*                                                                         *)
(* AgentRuntime keeps no state of its own: advance() maps a checkpoint to  *)
(* the outcome of exactly one step.  What the language model and the tools *)
(* return is unknown, so a checkpoint has a SET of outcomes.  Both users   *)
(* of the engine, the durable platform (DurableRuns) and the in-process    *)
(* chat path, take their steps from Outcomes.                              *)
(*                                                                         *)
(* Abstracted: message texts, tool arguments and results.  What is kept of *)
(* a checkpoint is what its control flow reads.                            *)
(***************************************************************************)
EXTENDS Integers, Sequences

CONSTANTS
  Tools,          \* names in the tool registry
  ApprovalTools,  \* the registered tools with approval_required set
  UnknownTool,    \* a name the planner may invent; the registry lacks it
  NoTool,         \* "no tool name": None, or the empty string
  MaxToolSteps    \* settings.max_tool_steps

ASSUME ToolsAssumption ==
  /\ ApprovalTools \subseteq Tools
  /\ UnknownTool \notin Tools
  /\ NoTool \notin Tools \cup {UnknownTool}

ASSUME MaxToolStepsAssumption == MaxToolSteps \in Int

ToolStepLimit == IF MaxToolSteps > 1 THEN MaxToolSteps ELSE 1

ToolName == Tools \cup {UnknownTool, NoTool}

CheckpointAction == {"plan", "tool", "answer"}

ApprovalDecision == {"undecided", "approved", "rejected"}

StepType == {"plan", "tool_call", "approval", "answer"}

\* The control fields of ExecutionCheckpoint.  next_step exceeds the limit
\* only once the engine has given up planning.
ExecutionCheckpoint ==
  {c \in [next_step : 1..(ToolStepLimit + 1),
          pending_action : CheckpointAction,
          pending_tool : ToolName,
          approval_decision : ApprovalDecision] :
     c.pending_action # "answer" => c.next_step <= ToolStepLimit}

FreshCheckpoint ==
  [next_step |-> 1, pending_action |-> "plan",
   pending_tool |-> NoTool, approval_decision |-> "undecided"]

\* EventName: what a step appends to the event log of its run.
EventName ==
  {"planner.completed", "tool.requested", "tool.completed", "tool.failed",
   "approval.required", "run.waiting_approval",
   "assistant.message", "run.completed"}

\* "ran" records the external effect of the step: the tool it executed.
StepOutcome ==
  [step_type : StepType, checkpoint : ExecutionCheckpoint,
   events : Seq(EventName), waiting : BOOLEAN, completed : BOOLEAN,
   ran : Tools \cup {NoTool}]

\* An outcome that leaves the run RUNNING.
Progress(type, c, evs, tool) ==
  [step_type |-> type, checkpoint |-> c, events |-> evs,
   waiting |-> FALSE, completed |-> FALSE, ran |-> tool]

-----------------------------------------------------------------------------
\* The planner answers, asks for a tool by some name, or asks for a tool
\* without naming an invocation (an error the answer step reports).
PlanOutcomes(c) ==
  {Progress("plan", [c EXCEPT !.pending_action = "answer"],
            <<"planner.completed">>, NoTool)}
  \cup
  {Progress("plan",
            [c EXCEPT !.pending_action = "tool", !.pending_tool = t],
            <<"planner.completed">>, NoTool) : t \in ToolName}

ClearPendingTool(c) ==
  [c EXCEPT !.pending_tool = NoTool, !.approval_decision = "undecided"]

\* Mutant of ExecuteTool: the step number is not advanced.
ExecuteTool_SameStep(c) ==
  {Progress("tool_call", [ClearPendingTool(c) EXCEPT !.pending_action = "plan"],
            <<"tool.requested", "tool.completed">>, c.pending_tool)}

\* The tool ran.  A direct answer or an error ends planning, and so does an
\* ordinary result once the step budget is used up.
ExecuteTool(c) ==
  LET done(act) == [ClearPendingTool(c) EXCEPT !.next_step = c.next_step + 1,
                                               !.pending_action = act]
      ordinary == IF c.next_step + 1 > ToolStepLimit THEN "answer" ELSE "plan"
  IN {Progress("tool_call", done("answer"), <<"tool.requested", e>>,
               c.pending_tool) : e \in {"tool.completed", "tool.failed"}}
     \cup {Progress("tool_call", done(ordinary),
                    <<"tool.requested", "tool.completed">>, c.pending_tool)}

\* Mutant of RequiresApproval: the tool's flag is not read.
RequiresApproval_Never(t) == FALSE

RequiresApproval(t) == t \in ApprovalTools

\* Mutant of ToolOutcomes: a call without a name stays the pending action.
ToolOutcomes_Stays(c) ==
  IF c.pending_tool = NoTool
    THEN {Progress("tool_call", c, <<>>, NoTool)}
    ELSE ExecuteTool(c)

\* The early returns of _advance_tool, in their order.
ToolOutcomes(c) ==
  IF c.pending_tool = NoTool
    THEN {Progress("tool_call", [c EXCEPT !.pending_action = "answer"],
                   <<>>, NoTool)}
  ELSE IF c.pending_tool = UnknownTool
    THEN {Progress("tool_call", [c EXCEPT !.pending_action = "answer"],
                   <<"tool.failed">>, NoTool)}
  ELSE IF RequiresApproval(c.pending_tool) /\ c.approval_decision = "undecided"
    THEN {[step_type |-> "approval", checkpoint |-> c,
           events |-> <<"approval.required", "run.waiting_approval">>,
           waiting |-> TRUE, completed |-> FALSE, ran |-> NoTool]}
  ELSE IF c.approval_decision = "rejected"
    THEN {Progress("approval",
                   [ClearPendingTool(c) EXCEPT !.pending_action = "answer"],
                   <<>>, NoTool)}
  ELSE ExecuteTool(c)

AnswerOutcomes(c) ==
  {[step_type |-> "answer", checkpoint |-> c,
    events |-> <<"assistant.message", "run.completed">>,
    waiting |-> FALSE, completed |-> TRUE, ran |-> NoTool]}

\* AgentRuntime.advance
Outcomes(c) ==
  CASE c.pending_action = "plan"   -> PlanOutcomes(c)
    [] c.pending_action = "tool"   -> ToolOutcomes(c)
    [] c.pending_action = "answer" -> AnswerOutcomes(c)

-----------------------------------------------------------------------------
\* Mutant of TargetStatus: waiting for approval is overlooked.
TargetStatus_NoWait(o) == IF o.completed THEN "completed" ELSE "running"

\* The status a saved outcome gives its run (RunOrchestrator).
TargetStatus(o) ==
  IF o.waiting THEN "waiting_approval"
  ELSE IF o.completed THEN "completed" ELSE "running"

\* Mutant of StepTypeFor: two cases are swapped.
StepTypeFor_Swapped(action) ==
  CASE action = "plan" -> "plan"
    [] action = "tool" -> "answer"
    [] OTHER -> "tool_call"

\* The step type the orchestrator expects of a checkpoint, and the
\* idempotency key it derives before it runs the step.
StepTypeFor(action) ==
  CASE action = "plan" -> "plan"
    [] action = "tool" -> "tool_call"
    [] OTHER -> "answer"

StepKeyType == [sequence : 1..(ToolStepLimit + 1), step_type : StepType]

StepKey(c) == [sequence |-> c.next_step,
               step_type |-> StepTypeFor(c.pending_action)]

\* Keys are ordered by step number and, within a step, plan < tool < answer.
KindRank(type) == CASE type = "plan" -> 0 [] type = "tool_call" -> 1 [] OTHER -> 2

KeyRank(k) == 3 * k.sequence + KindRank(k.step_type)
=============================================================================
