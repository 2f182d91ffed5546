------------------------------- MODULE StepLog -------------------------------
(***************************************************************************)
(* What the durable platform promises of a run, without workers, leases,   *)
(* queues or crashes: the run is a sequential log of steps.  Each step     *)
(* starts from the checkpoint the previous one left, is entered once under *)
(* its idempotency key, and the log is closed by the step that completes   *)
(* the run or pauses it for approval, because that step leaves the         *)
(* checkpoint, and with it the key, as it was.                             *)
(***************************************************************************)
EXTENDS AgentRuntime

CONSTANT Runs

VARIABLES current, \* the checkpoint the next step of each run starts from
          done     \* the idempotency keys entered for each run

vars == <<current, done>>

TypeOK == /\ current \in [Runs -> ExecutionCheckpoint]
          /\ done \in [Runs -> SUBSET StepKeyType]

Init == /\ current = [r \in Runs |-> FreshCheckpoint]
        /\ done = [r \in Runs |-> {}]

Enter(r) ==
  /\ StepKey(current[r]) \notin done[r]
  /\ done' = [done EXCEPT ![r] = @ \cup {StepKey(current[r])}]
  /\ \E o \in Outcomes(current[r]) :
        current' = [current EXCEPT ![r] = o.checkpoint]

Next == \E r \in Runs : Enter(r)

Spec == Init /\ [][Next]_vars

-----------------------------------------------------------------------------
\* No step is entered out of order: the keys of a run never overtake its
\* checkpoint (AgentRuntime.advance only moves forward: next_step grows
\* whenever a tool step returns to planning).
LogInOrder ==
  \A r \in Runs : \A k \in done[r] : KeyRank(k) <= KeyRank(StepKey(current[r]))

\* A step that is entered comes after every step entered before it.
EntersInOrder ==
  [][\A r \in Runs : \A k \in done'[r] \ done[r], j \in done[r] :
        KeyRank(j) < KeyRank(k)]_vars

\* At most ToolStepLimit plans are entered for a run: their keys are numbered
\* from one, and a key is entered once.
PlanBudget ==
  \A r \in Runs :
    \A k \in done[r] : k.step_type = "plan" => k.sequence <= ToolStepLimit
=============================================================================
