------------------------- MODULE AgentRuntimeProofs -------------------------
(***************************************************************************)
(* Facts about the engine: outcomes are well typed, and what each one does *)
(* to the checkpoint.  They hold for every set of tools and every limit.   *)
(***************************************************************************)
EXTENDS AgentRuntime, TLAPS

\* settings.max_tool_steps may be anything; the engine plans at least once.
LEMMA ToolStepLimitPos == ToolStepLimit \in Nat /\ ToolStepLimit >= 1
  BY MaxToolStepsAssumption DEF ToolStepLimit

\* The checkpoint a run starts from is well formed.
LEMMA FreshCheckpointType == FreshCheckpoint \in ExecutionCheckpoint
  BY ToolStepLimitPos DEF FreshCheckpoint, ExecutionCheckpoint, CheckpointAction,
     ToolName, ApprovalDecision

\* The idempotency key of a checkpoint is well formed.
LEMMA StepKeyIsKey ==
  ASSUME NEW c \in ExecutionCheckpoint
  PROVE  StepKey(c) \in StepKeyType
  BY ToolStepLimitPos DEF StepKey, StepKeyType, StepTypeFor, StepType, ExecutionCheckpoint,
     CheckpointAction

\* Ranks are numbers.
LEMMA RankType ==
  ASSUME NEW k \in StepKeyType
  PROVE  KeyRank(k) \in Int
  BY ToolStepLimitPos DEF KeyRank, KindRank, StepKeyType

\* Sequences of one and two event names are logs.
LEMMA ShortLogs ==
  ASSUME NEW S
  PROVE  /\ << >> \in Seq(S)
         /\ \A a \in S : <<a>> \in Seq(S)
         /\ \A a, b \in S : <<a, b>> \in Seq(S)
  OBVIOUS

\* A step that leaves its run RUNNING is an outcome if its parts are typed.
LEMMA ProgressType ==
  ASSUME NEW type \in StepType, NEW c \in ExecutionCheckpoint,
         NEW evs \in Seq(EventName), NEW tool \in Tools \cup {NoTool}
  PROVE  Progress(type, c, evs, tool) \in StepOutcome
  BY DEF Progress, StepOutcome

\* The tools of a checkpoint are the registered ones, the unknown and none.
LEMMA OutcomeType ==
  ASSUME NEW c \in ExecutionCheckpoint, NEW o \in Outcomes(c)
  PROVE  o \in StepOutcome
<1> USE ToolStepLimitPos
<1>1. CASE c.pending_action = "plan"
  <2>1. o \in PlanOutcomes(c)
    BY <1>1 DEF Outcomes
  <2>2. <<"planner.completed">> \in Seq(EventName)
    BY ShortLogs DEF EventName
  <2>3. [c EXCEPT !.pending_action = "answer"] \in ExecutionCheckpoint
    BY <1>1 DEF ExecutionCheckpoint, CheckpointAction
  <2>4. \A t \in ToolName :
          [c EXCEPT !.pending_action = "tool", !.pending_tool = t]
             \in ExecutionCheckpoint
    BY <1>1 DEF ExecutionCheckpoint, CheckpointAction
  <2> QED
    BY <2>1, <2>2, <2>3, <2>4, ProgressType DEF PlanOutcomes, StepType
<1>2. CASE c.pending_action = "tool"
  <2>1. o \in ToolOutcomes(c)
    BY <1>2 DEF Outcomes
  <2>2. /\ <<>> \in Seq(EventName)
        /\ <<"tool.failed">> \in Seq(EventName)
        /\ <<"approval.required", "run.waiting_approval">> \in Seq(EventName)
        /\ \A e \in {"tool.completed", "tool.failed"} :
              <<"tool.requested", e>> \in Seq(EventName)
    BY ShortLogs DEF EventName
  <2>3. [c EXCEPT !.pending_action = "answer"] \in ExecutionCheckpoint
    BY <1>2 DEF ExecutionCheckpoint, CheckpointAction
  <2>4. [ClearPendingTool(c) EXCEPT !.pending_action = "answer"]
           \in ExecutionCheckpoint
    BY DEF ExecutionCheckpoint, CheckpointAction, ClearPendingTool, ToolName,
       ApprovalDecision
  <2>5. CASE /\ c.pending_tool \in Tools
             /\ o \in ExecuteTool(c)
    <3> DEFINE done(act) ==
          [ClearPendingTool(c) EXCEPT !.next_step = c.next_step + 1,
                                      !.pending_action = act]
        ordinary == IF c.next_step + 1 > ToolStepLimit THEN "answer" ELSE "plan"
    <3>1. c.next_step \in 1..ToolStepLimit
      BY <1>2 DEF ExecutionCheckpoint
    <3>2. ASSUME NEW act \in CheckpointAction,
                 act # "answer" => c.next_step + 1 <= ToolStepLimit
          PROVE  done(act) \in ExecutionCheckpoint
      <4> DEFINE Fields == [next_step : 1..(ToolStepLimit + 1),
                            pending_action : CheckpointAction,
                            pending_tool : ToolName,
                            approval_decision : ApprovalDecision]
      <4>1. ClearPendingTool(c) \in Fields
        BY DEF ExecutionCheckpoint, ClearPendingTool, ToolName, ApprovalDecision
      <4>2. c.next_step + 1 \in 1..(ToolStepLimit + 1)
        BY <3>1
      <4>3. /\ done(act) \in Fields
            /\ done(act).next_step = c.next_step + 1
            /\ done(act).pending_action = act
        BY <4>1, <4>2
      <4> QED
        BY <3>2, <4>3 DEF ExecutionCheckpoint
    <3>3. done("answer") \in ExecutionCheckpoint
      BY <3>2 DEF CheckpointAction
    <3>4. done(ordinary) \in ExecutionCheckpoint
      <4>1. ordinary \in CheckpointAction
        BY DEF CheckpointAction
      <4>2. ordinary # "answer" => c.next_step + 1 <= ToolStepLimit
        BY <3>1
      <4> HIDE DEF done, ordinary
      <4> QED
        BY <3>2, <4>1, <4>2
    <3>5. \/ \E e \in {"tool.completed", "tool.failed"} :
                o = Progress("tool_call", done("answer"),
                             <<"tool.requested", e>>, c.pending_tool)
          \/ o = Progress("tool_call", done(ordinary),
                          <<"tool.requested", "tool.completed">>, c.pending_tool)
      BY <2>5 DEF ExecuteTool
    <3> HIDE DEF done, ordinary
    <3> QED
      BY <2>5, <3>3, <3>4, <3>5, <2>2, ProgressType DEF StepType
  <2>6. c.pending_tool \in ToolName
    BY DEF ExecutionCheckpoint
  <2>7. [step_type |-> "approval", checkpoint |-> c,
         events |-> <<"approval.required", "run.waiting_approval">>,
         waiting |-> TRUE, completed |-> FALSE, ran |-> NoTool] \in StepOutcome
    BY <2>2 DEF StepOutcome, StepType
  <2>8. CASE c.pending_tool \in {NoTool, UnknownTool}
    BY <2>1, <2>2, <2>3, <2>8, ProgressType DEF ToolOutcomes, StepType
  <2>9. CASE c.pending_tool \in Tools /\ o \notin ExecuteTool(c)
    <3>1. \/ o = [step_type |-> "approval", checkpoint |-> c,
                  events |-> <<"approval.required", "run.waiting_approval">>,
                  waiting |-> TRUE, completed |-> FALSE, ran |-> NoTool]
          \/ o = Progress("approval",
                   [ClearPendingTool(c) EXCEPT !.pending_action = "answer"],
                   <<>>, NoTool)
      BY <2>1, <2>9, ToolsAssumption DEF ToolOutcomes
    <3> QED
      BY <3>1, <2>2, <2>4, <2>7, ProgressType DEF StepType
  <2> QED
    BY <2>5, <2>6, <2>8, <2>9 DEF ToolName
<1>3. CASE c.pending_action = "answer"
  <2>1. o \in AnswerOutcomes(c)
    BY <1>3 DEF Outcomes
  <2>2. <<"assistant.message", "run.completed">> \in Seq(EventName)
    BY ShortLogs DEF EventName
  <2>3. o = [step_type |-> "answer", checkpoint |-> c,
             events |-> <<"assistant.message", "run.completed">>,
             waiting |-> FALSE, completed |-> TRUE, ran |-> NoTool]
    BY <2>1 DEF AnswerOutcomes
  <2>4. "answer" \in StepType
    BY DEF StepType
  <2> QED
    BY <2>2, <2>3, <2>4 DEF StepOutcome
<1> QED
  BY <1>1, <1>2, <1>3 DEF ExecutionCheckpoint, CheckpointAction

\* A tool that needs approval runs only in a step whose checkpoint carries
\* the decision "approved".
LEMMA RanWasApproved ==
  ASSUME NEW c \in ExecutionCheckpoint, NEW o \in Outcomes(c),
         o.ran \in ApprovalTools
  PROVE  c.approval_decision = "approved"
<1> USE ToolsAssumption
<1>a. c.pending_action # "plan"
  <2>1. ASSUME NEW p \in PlanOutcomes(c)
        PROVE  p.ran = NoTool
    <3>1. PICK d : p = Progress("plan", d, <<"planner.completed">>, NoTool)
      BY DEF PlanOutcomes
    <3>2. Progress("plan", d, <<"planner.completed">>, NoTool).ran = NoTool
      BY DEF Progress
    <3> QED
      BY <3>1, <3>2
  <2> QED
    BY <2>1 DEF Outcomes
<1>b. c.pending_action # "answer"
  <2>1. \A p \in AnswerOutcomes(c) : p.ran = NoTool
    BY DEF AnswerOutcomes
  <2> QED
    BY <2>1 DEF Outcomes
<1>1. c.pending_action = "tool"
  BY <1>a, <1>b DEF ExecutionCheckpoint, CheckpointAction
<1>2. o \in ToolOutcomes(c)
  BY <1>1 DEF Outcomes
<1>3. o.ran # NoTool
  OBVIOUS
<1>4. o \in ExecuteTool(c) /\ c.approval_decision # "rejected"
       /\ ~(RequiresApproval(c.pending_tool) /\ c.approval_decision = "undecided")
  BY <1>2, <1>3 DEF ToolOutcomes, Progress
<1>5. o.ran = c.pending_tool
  BY <1>4 DEF ExecuteTool, Progress
<1> QED
  BY <1>4, <1>5 DEF RequiresApproval, ExecutionCheckpoint, ApprovalDecision

\* What a step that leaves its run RUNNING does to the checkpoint: either the
\* step number stays and the action moves on, or the tool ran.
LEMMA OutcomeShape ==
  ASSUME NEW c \in ExecutionCheckpoint, NEW o \in Outcomes(c)
  PROVE  \/ o.checkpoint = c /\ (o.waiting \/ o.completed)
         \/ /\ ~o.waiting /\ ~o.completed
            /\ o.checkpoint.next_step = c.next_step
            /\ \/ /\ c.pending_action = "plan"
                  /\ o.checkpoint.pending_action \in {"tool", "answer"}
               \/ /\ c.pending_action = "tool"
                  /\ o.checkpoint.pending_action = "answer"
         \/ /\ ~o.waiting /\ ~o.completed
            /\ o.checkpoint.next_step = c.next_step + 1
            /\ o.checkpoint.pending_action \in {"plan", "answer"}
<1> DEFINE Fields == [next_step : 1..(ToolStepLimit + 1),
                      pending_action : CheckpointAction,
                      pending_tool : ToolName,
                      approval_decision : ApprovalDecision]
<1>0. c \in Fields
  BY DEF ExecutionCheckpoint
<1>1. CASE c.pending_action = "plan"
  <2>1. o \in PlanOutcomes(c)
    BY <1>1 DEF Outcomes
  <2>2. PICK d \in {[c EXCEPT !.pending_action = "answer"]} \cup
                   {[c EXCEPT !.pending_action = "tool", !.pending_tool = t]
                      : t \in ToolName} :
          o = Progress("plan", d, <<"planner.completed">>, NoTool)
    BY <2>1 DEF PlanOutcomes
  <2>3. d.next_step = c.next_step /\ d.pending_action \in {"tool", "answer"}
    BY <1>0, <2>2
  <2>4. o.checkpoint = d /\ ~o.waiting /\ ~o.completed
    BY <2>2 DEF Progress
  <2> QED
    BY <1>1, <2>3, <2>4
<1>2. CASE c.pending_action = "tool"
  <2>1. o \in ToolOutcomes(c)
    BY <1>2 DEF Outcomes
  <2>2. CASE o \in ExecuteTool(c)
    <3>1. PICK act \in {"answer", IF c.next_step + 1 > ToolStepLimit
                                    THEN "answer" ELSE "plan"},
               evs \in {<<"tool.requested", "tool.completed">>,
                        <<"tool.requested", "tool.failed">>} :
            o = Progress("tool_call",
                         [ClearPendingTool(c) EXCEPT
                            !.next_step = c.next_step + 1,
                            !.pending_action = act],
                         evs, c.pending_tool)
      BY <2>2 DEF ExecuteTool
    <3>2. ClearPendingTool(c) \in Fields
      BY <1>0 DEF ClearPendingTool, ToolName, ApprovalDecision
    <3>3. /\ [ClearPendingTool(c) EXCEPT !.next_step = c.next_step + 1,
                                        !.pending_action = act].next_step
               = c.next_step + 1
          /\ [ClearPendingTool(c) EXCEPT !.next_step = c.next_step + 1,
                                        !.pending_action = act].pending_action
               = act
      BY <3>2
    <3>4. /\ o.checkpoint = [ClearPendingTool(c) EXCEPT
                               !.next_step = c.next_step + 1,
                               !.pending_action = act]
          /\ ~o.waiting /\ ~o.completed
      BY <3>1 DEF Progress
    <3> QED
      BY <3>1, <3>3, <3>4
  <2>3. CASE o \notin ExecuteTool(c)
    <3>1. \/ o = [step_type |-> "approval", checkpoint |-> c,
                  events |-> <<"approval.required", "run.waiting_approval">>,
                  waiting |-> TRUE, completed |-> FALSE, ran |-> NoTool]
          \/ \E type, evs : \E d \in {c, ClearPendingTool(c)} :
               o = Progress(type, [d EXCEPT !.pending_action = "answer"], evs,
                            NoTool)
      BY <2>1, <2>3 DEF ToolOutcomes
    <3>2. CASE o = [step_type |-> "approval", checkpoint |-> c,
                  events |-> <<"approval.required", "run.waiting_approval">>,
                  waiting |-> TRUE, completed |-> FALSE, ran |-> NoTool]
      BY <3>2
    <3>3. ASSUME NEW type, NEW evs, NEW d \in {c, ClearPendingTool(c)},
                 o = Progress(type, [d EXCEPT !.pending_action = "answer"], evs,
                              NoTool)
          PROVE  /\ ~o.waiting /\ ~o.completed
                 /\ o.checkpoint.next_step = c.next_step
                 /\ o.checkpoint.pending_action = "answer"
      <4>1. d \in Fields /\ d.next_step = c.next_step
        BY <1>0 DEF ClearPendingTool, ToolName, ApprovalDecision
      <4>2. /\ o.checkpoint = [d EXCEPT !.pending_action = "answer"]
            /\ ~o.waiting /\ ~o.completed
        BY <3>3 DEF Progress
      <4> QED
        BY <4>1, <4>2
    <3> QED
      BY <1>2, <3>1, <3>2, <3>3
  <2> QED
    BY <2>2, <2>3
<1>3. CASE c.pending_action = "answer"
  <2>1. o \in AnswerOutcomes(c)
    BY <1>3 DEF Outcomes
  <2> QED
    BY <2>1 DEF AnswerOutcomes
<1> QED
  BY <1>1, <1>2, <1>3 DEF ExecutionCheckpoint, CheckpointAction

\* So a step either closes the log of its run or moves its key up.
LEMMA OutcomeAdvances ==
  ASSUME NEW c \in ExecutionCheckpoint, NEW o \in Outcomes(c)
  PROVE  \/ o.checkpoint = c /\ (o.waiting \/ o.completed)
         \/ /\ ~o.waiting /\ ~o.completed
            /\ KeyRank(StepKey(o.checkpoint)) > KeyRank(StepKey(c))
<1>1. c.next_step \in Nat
  BY ToolStepLimitPos DEF ExecutionCheckpoint
<1>2. c.pending_action \in CheckpointAction
  BY DEF ExecutionCheckpoint
<1> QED
  BY <1>1, <1>2, OutcomeShape
  DEF KeyRank, KindRank, StepKey, StepTypeFor, CheckpointAction

-----------------------------------------------------------------------------
\* The checkpoints the engine pauses at.
Pausing(c) ==
  /\ c.pending_action = "tool"
  /\ c.pending_tool \in ApprovalTools
  /\ c.approval_decision = "undecided"

Pause(c) ==
  [step_type |-> "approval", checkpoint |-> c,
   events |-> <<"approval.required", "run.waiting_approval">>,
   waiting |-> TRUE, completed |-> FALSE, ran |-> NoTool]

Answer(c) ==
  [step_type |-> "answer", checkpoint |-> c,
   events |-> <<"assistant.message", "run.completed">>,
   waiting |-> FALSE, completed |-> TRUE, ran |-> NoTool]

QuietLogs ==
  {<<>>, <<"planner.completed">>, <<"tool.failed">>,
   <<"tool.requested", "tool.completed">>, <<"tool.requested", "tool.failed">>}

\* The engine answers, pauses, or makes progress without announcing anything;
\* which of the three it does is decided by the checkpoint alone.
LEMMA OutcomeCases ==
  ASSUME NEW c \in ExecutionCheckpoint, NEW o \in Outcomes(c)
  PROVE  \/ c.pending_action = "answer" /\ o = Answer(c)
         \/ Pausing(c) /\ o = Pause(c)
         \/ /\ ~Pausing(c) /\ c.pending_action # "answer"
            /\ \E type, d, tool : \E evs \in QuietLogs :
                 /\ o = Progress(type, d, evs, tool)
                 /\ d.approval_decision \in {c.approval_decision, "undecided"}
<1> DEFINE Fields == [next_step : 1..(ToolStepLimit + 1),
                      pending_action : CheckpointAction,
                      pending_tool : ToolName,
                      approval_decision : ApprovalDecision]
           Kept(d) == d.approval_decision \in {c.approval_decision, "undecided"}
           Quietly == \E type, d, tool : \E evs \in QuietLogs :
                        o = Progress(type, d, evs, tool) /\ Kept(d)
<1>0. c \in Fields
  BY DEF ExecutionCheckpoint
<1>1. CASE c.pending_action = "plan"
  <2>1. o \in PlanOutcomes(c)
    BY <1>1 DEF Outcomes
  <2>2. PICK d \in {[c EXCEPT !.pending_action = "answer"]} \cup
                   {[c EXCEPT !.pending_action = "tool", !.pending_tool = t]
                      : t \in ToolName} :
          o = Progress("plan", d, <<"planner.completed">>, NoTool)
    BY <2>1 DEF PlanOutcomes
  <2>3. Kept(d)
    BY <1>0, <2>2
  <2> QED
    BY <1>1, <2>2, <2>3 DEF QuietLogs, Pausing
<1>2. CASE c.pending_action = "answer"
  <2>1. o \in AnswerOutcomes(c)
    BY <1>2 DEF Outcomes
  <2> QED
    BY <1>2, <2>1 DEF AnswerOutcomes, Answer
<1>3. CASE c.pending_action = "tool" /\ Pausing(c)
  <2>1. o \in ToolOutcomes(c)
    BY <1>3 DEF Outcomes
  <2>2. c.pending_tool # NoTool /\ c.pending_tool # UnknownTool
    BY <1>3, ToolsAssumption DEF Pausing
  <2> QED
    BY <1>3, <2>1, <2>2 DEF ToolOutcomes, RequiresApproval, Pausing, Pause
<1>4. CASE c.pending_action = "tool" /\ ~Pausing(c)
  <2>1. o \in ToolOutcomes(c)
    BY <1>4 DEF Outcomes
  <2>2. CASE o \in ExecuteTool(c)
    <3>1. PICK act \in {"answer", IF c.next_step + 1 > ToolStepLimit
                                    THEN "answer" ELSE "plan"},
               evs \in {<<"tool.requested", "tool.completed">>,
                        <<"tool.requested", "tool.failed">>} :
            o = Progress("tool_call",
                         [ClearPendingTool(c) EXCEPT
                            !.next_step = c.next_step + 1,
                            !.pending_action = act],
                         evs, c.pending_tool)
      BY <2>2 DEF ExecuteTool
    <3>2. /\ ClearPendingTool(c) \in Fields
          /\ ClearPendingTool(c).approval_decision = "undecided"
      BY <1>0 DEF ClearPendingTool, ToolName, ApprovalDecision
    <3>3. Kept([ClearPendingTool(c) EXCEPT !.next_step = c.next_step + 1,
                                           !.pending_action = act])
      BY <3>2
    <3>4. evs \in QuietLogs
      BY DEF QuietLogs
    <3> QED
      BY <1>4, <3>1, <3>3, <3>4
  <2>3. CASE o \notin ExecuteTool(c)
    <3>1. \E type \in StepType, evs \in {<<>>, <<"tool.failed">>} :
            \E d \in {c, ClearPendingTool(c)} :
               o = Progress(type, [d EXCEPT !.pending_action = "answer"], evs,
                            NoTool)
      <4>1. ~(RequiresApproval(c.pending_tool) /\ c.approval_decision = "undecided")
        BY <1>4 DEF RequiresApproval, Pausing
      <4> QED
        BY <2>1, <2>3, <4>1 DEF ToolOutcomes, StepType
    <3>2. PICK type \in StepType, evs \in {<<>>, <<"tool.failed">>},
               d \in {c, ClearPendingTool(c)} :
            o = Progress(type, [d EXCEPT !.pending_action = "answer"], evs, NoTool)
      BY <3>1
    <3>3. d \in Fields /\ d.approval_decision \in {c.approval_decision, "undecided"}
      BY <1>0 DEF ClearPendingTool, ToolName, ApprovalDecision
    <3>4. Kept([d EXCEPT !.pending_action = "answer"])
      BY <3>3
    <3>5. evs \in QuietLogs
      BY DEF QuietLogs
    <3> QED
      BY <1>4, <3>2, <3>4, <3>5
  <2> QED
    BY <2>2, <2>3
<1> QED
  BY <1>1, <1>2, <1>3, <1>4 DEF ExecutionCheckpoint, CheckpointAction

\* The facts of it that are used.
LEMMA OutcomeFacts ==
  ASSUME NEW c \in ExecutionCheckpoint, NEW o \in Outcomes(c)
  PROVE  /\ o.completed <=> c.pending_action = "answer"
         /\ o.waiting <=> Pausing(c)
         /\ o.waiting \/ o.completed => o.checkpoint = c
         /\ o.completed => ~o.waiting
         /\ o.checkpoint.approval_decision \in {c.approval_decision, "undecided"}
         /\ \A i \in 1..Len(o.events) :
              /\ o.events[i] = "run.completed" => o.completed
              /\ o.events[i] = "run.waiting_approval" => o.waiting
<1>1. CASE c.pending_action = "answer" /\ o = Answer(c)
  <2>1. \A i \in 1..Len(o.events) : o.events[i] # "run.waiting_approval"
    BY <1>1 DEF Answer
  <2> QED
    BY <1>1, <2>1 DEF Answer, Pausing
<1>2. CASE Pausing(c) /\ o = Pause(c)
  <2>1. \A i \in 1..Len(o.events) : o.events[i] # "run.completed"
    BY <1>2 DEF Pause
  <2> QED
    BY <1>2, <2>1 DEF Pause, Pausing
<1>3. ASSUME ~Pausing(c), c.pending_action # "answer",
             NEW type, NEW d, NEW tool, NEW evs \in QuietLogs,
             o = Progress(type, d, evs, tool),
             d.approval_decision \in {c.approval_decision, "undecided"}
      PROVE  /\ ~o.completed /\ ~o.waiting
             /\ o.checkpoint.approval_decision
                  \in {c.approval_decision, "undecided"}
             /\ \A i \in 1..Len(o.events) :
                  o.events[i] \notin {"run.completed", "run.waiting_approval"}
  <2>1. o.events = evs /\ o.checkpoint = d /\ ~o.completed /\ ~o.waiting
    BY <1>3 DEF Progress
  <2>2. \A i \in 1..Len(evs) :
          evs[i] \notin {"run.completed", "run.waiting_approval"}
    BY DEF QuietLogs
  <2> QED
    BY <1>3, <2>1, <2>2
<1> QED
  BY <1>1, <1>2, <1>3, OutcomeCases
=============================================================================
