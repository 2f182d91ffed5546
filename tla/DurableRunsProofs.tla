-------------------------- MODULE DurableRunsProofs --------------------------
(***************************************************************************)
(* What holds of the durable platform for every number of runs, workers    *)
(* and dispatch jobs, every step limit, and every number and order of      *)
(* crashes, exceptions and lost queues.                                    *)
(*                                                                         *)
(* The argument has four parts.                                            *)
(*   1. The tables: each step is a store operation or leaves them alone,   *)
(*      so StoreInv (RunStoreProofs) carries over.                         *)
(*   2. The log: as far as checkpoints and step keys go, each step is      *)
(*      quiet or enters one step of the engine on top of the checkpoint it *)
(*      replaces (StoreEffect).  That a late save is quiet rests on        *)
(*      BaseCurrentOrSaved and on the idempotency key.                     *)
(*   3. The workers: what each of them knows stays true (BaseInv).         *)
(*   4. The step log itself: what StepLog allows stays in order, and so    *)
(*      what the platform does.                                            *)
(* The last part adds what holds of a run until a lease of it runs out     *)
(* under a job that executes it (LeaseInv), and counts the plans.          *)
(***************************************************************************)
EXTENDS DurableRuns, RunStoreProofs

RunKey(r) == StepKey(Current(r))

-----------------------------------------------------------------------------
(* The inductive invariant. *)

PlatformTypeOK ==
  /\ pc \in [Workers -> Stage]
  /\ job \in [Workers -> Job \cup {NoJob}]
  /\ base \in [Workers -> ExecutionCheckpoint]
  /\ outcome \in [Workers -> StepOutcome \cup {NoOutcome}]
  /\ unsent \in [Workers -> Seq(EventName)]
  /\ queue \subseteq Job
  /\ results \subseteq Job
  /\ batch \in [Dispatchers -> SUBSET Job]
  /\ sending \in [Dispatchers -> Job \cup {NoJob}]
  /\ faults \in Nat

\* A busy slot has a job, and a finished step is an outcome of its base.
JobInv ==
  \A w \in Workers :
    /\ pc[w] # "idle" => job[w] \in Job
    /\ pc[w] \in {"save", "emit"} => outcome[w] \in Outcomes(base[w])

HistoryTypeOK == outlived \subseteq Runs /\ planned \in [Runs -> Nat]

TypeInv == StoreInv /\ PlatformTypeOK /\ JobInv /\ HistoryTypeOK

\* A step key that is entered is never ahead of its run; the key of the
\* current checkpoint is entered only when the run has been closed.
LogInv(r) ==
  /\ \A k \in steps[r] : KeyRank(k) <= KeyRank(RunKey(r))
  /\ RunKey(r) \in steps[r] => status[r] \in {"completed", "waiting_approval",
                                              "canceled"}
  /\ status[r] \in {"completed", "waiting_approval"} => RunKey(r) \in steps[r]
  /\ status[r] = "completed" => Current(r).pending_action = "answer"
  /\ \A k \in steps[r] : k.step_type = "answer" => status[r] = "completed"
  /\ status[r] = "absent" => steps[r] = {} /\ checkpoint[r] = NoCheckpoint
  /\ Current(r).approval_decision = "undecided"

\* The events of a run are announced after the run got there, for good.
EventInv(r) ==
  /\ Logged(r, "run.completed") => status[r] = "completed"
  /\ Logged(r, "run.waiting_approval") =>
       /\ status[r] \in {"waiting_approval", "canceled"}
       /\ RunKey(r) \in steps[r]

\* What a worker has read stays current until a step of that key is entered;
\* the events it has still to send are announcements of its outcome.
BaseInv(w) ==
  /\ pc[w] \in {"check", "advance", "save"} =>
       base[w] = Current(RunOf(w)) \/ StepKey(base[w]) \in steps[RunOf(w)]
  /\ pc[w] = "emit" => StepKey(base[w]) \in steps[RunOf(w)]
  /\ pc[w] \in {"check", "advance", "save", "emit"} /\ Pausing(base[w])
        /\ StepKey(base[w]) \in steps[RunOf(w)] =>
       /\ base[w] = Current(RunOf(w))
       /\ status[RunOf(w)] \in {"waiting_approval", "canceled"}
  /\ pc[w] \in {"check", "advance", "save"} =>
       base[w].approval_decision = "undecided"

UnsentInv(w) ==
  pc[w] = "emit" =>
    \A i \in 1..Len(unsent[w]) :
      /\ unsent[w][i] = "run.completed" => outcome[w].completed
      /\ unsent[w][i] = "run.waiting_approval" => outcome[w].waiting

PlatformInv ==
  /\ TypeInv
  /\ \A r \in Runs : LogInv(r) /\ EventInv(r)
  /\ \A w \in Workers : BaseInv(w) /\ UnsentInv(w)

-----------------------------------------------------------------------------
(* Part 1: the tables. *)

\* Each step of the platform is an operation of the store or none.
LEMMA NextIsStoreOp == TypeInv /\ Next => StoreOp \/ UNCHANGED storeVars
<1> SUFFICES ASSUME TypeInv, Next PROVE StoreOp \/ UNCHANGED storeVars
  OBVIOUS
<1>0. ASSUME NEW w \in Workers, pc[w] # "idle" PROVE RunOf(w) \in Runs
  BY <1>0 DEF TypeInv, JobInv, RunOf, Job
<1>1. ASSUME NEW r \in Runs, Create(r) \/ Cancel(r) \/ LeaseLapses(r)
      PROVE  StoreOp
  BY <1>1 DEF Create, Cancel, LeaseLapses, StoreOp, RunOp
<1>2. ASSUME NEW p \in Dispatchers, Dispatch(p) \/ DispatchStops(p)
      PROVE  StoreOp \/ UNCHANGED storeVars
  <2>1. CASE ListOutbox(p) \/ DispatchStops(p) \/ \E d \in batch[p] : Enqueue(p, d)
    BY <2>1 DEF ListOutbox, DispatchStops, Enqueue
  <2>2. CASE MarkPublished(p)
    <3>1. sending[p] \in Runs \X Nat
      BY <2>2 DEF MarkPublished, TypeInv, PlatformTypeOK, Job
    <3>2. sending[p][1] \in Runs /\ sending[p][2] \in Nat
      BY <3>1
    <3> QED
      BY <2>2, <3>2 DEF MarkPublished, StoreOp, RunOp
  <2> QED
    BY <1>2, <2>1, <2>2 DEF Dispatch
<1>3. ASSUME NEW w \in Workers, JobStep(w) PROVE StoreOp \/ UNCHANGED storeVars
  <2>1. CASE Claim(w)
    BY <2>1, <1>0, WorkerNameAssumption DEF Claim, StoreOp, RunOp
  <2>2. CASE ClaimRefused(w) \/ Load(w) \/ CheckStep(w) \/ Advance(w) \/ NextStep(w)
             \/ Boundary(w)
    BY <2>2 DEF ClaimRefused, Load, CheckStep, Advance, NextStep, Boundary
  <2>3. CASE Save(w)
    <3>1. /\ base[w] \in ExecutionCheckpoint
          /\ outcome[w] \in Outcomes(base[w])
      BY <2>3 DEF Save, TypeInv, PlatformTypeOK, JobInv
    <3>2. outcome[w] \in StepOutcome
      BY <3>1, OutcomeType
    <3>3. /\ StepKey(base[w]) \in StepKeyType
          /\ outcome[w].checkpoint \in ExecutionCheckpoint
          /\ TargetStatus(outcome[w]) \in SaveTarget
      BY <3>1, <3>2, StepKeyIsKey DEF StepOutcome, TargetStatus, SaveTarget
    <3> QED
      BY <2>3, <1>0, <3>3 DEF Save, StoreOp, RunOp
  <2>4. CASE Emit(w)
    <3>1. Head(unsent[w]) \in EventName
      BY <2>4 DEF Emit, TypeInv, PlatformTypeOK
    <3> QED
      BY <2>4, <1>0, <3>1 DEF Emit, StoreOp, RunOp
  <2> QED
    BY <1>3, <2>1, <2>2, <2>3, <2>4 DEF JobStep
<1>4. ASSUME NEW w \in Workers, NEW d \in queue, StartJob(w, d)
      PROVE  UNCHANGED storeVars
  BY <1>4 DEF StartJob
<1>5. CASE Recover
  BY <1>5 DEF Recover, StoreOp, Expired
<1>6. ASSUME NEW w \in Workers, WorkerCrash(w) \/ JobRaises(w)
      PROVE  UNCHANGED storeVars
  BY <1>6 DEF WorkerCrash, JobRaises
<1>7. CASE QueueLoss
  BY <1>7 DEF QueueLoss
<1> QED
  BY <1>1, <1>2, <1>3, <1>4, <1>5, <1>6, <1>7 DEF Next

\* The tables start and stay consistent.
LEMMA StoreInvNext == TypeInv /\ [Next]_vars => StoreInv'
  BY NextIsStoreOp, StoreOpInv, StoreStutterInv DEF vars, TypeInv

\* Types of the platform's own variables, action by action.
LEMMA PlatformTypeNext == TypeInv /\ [Next]_vars => PlatformTypeOK'
<1> SUFFICES ASSUME TypeInv, [Next]_vars PROVE PlatformTypeOK'
  OBVIOUS
<1> USE DEF PlatformTypeOK, Stage, GoTo
<1>0. PlatformTypeOK
  BY DEF TypeInv
<1>a. FreshCheckpoint \in ExecutionCheckpoint /\ <<>> \in Seq(EventName)
  BY FreshCheckpointType
<1>b. ASSUME NEW w \in Workers, Leave(w)
      PROVE  /\ pc' \in [Workers -> Stage]
             /\ job' \in [Workers -> Job \cup {NoJob}]
             /\ base' \in [Workers -> ExecutionCheckpoint]
             /\ outcome' \in [Workers -> StepOutcome \cup {NoOutcome}]
             /\ unsent' \in [Workers -> Seq(EventName)]
  BY <1>0, <1>a, <1>b DEF Leave
<1>c. ASSUME NEW w \in Workers, pc[w] # "idle" PROVE job[w] \in Job
  BY <1>c DEF TypeInv, JobInv
<1>1. CASE UNCHANGED vars
  BY <1>0, <1>1 DEF vars, platformVars, workerVars, queueVars, dispatcherVars
<1>2. ASSUME NEW r \in Runs, Create(r) \/ Cancel(r) \/ LeaseLapses(r)
      PROVE  PlatformTypeOK'
  BY <1>0, <1>2 DEF Create, Cancel, LeaseLapses, platformVars, workerVars,
     queueVars, dispatcherVars
<1>3. CASE Recover
  BY <1>0, <1>3 DEF Recover, platformVars, workerVars, queueVars, dispatcherVars
<1>4. ASSUME NEW p \in Dispatchers, ListOutbox(p) PROVE PlatformTypeOK'
  <2>1. Unpublished \subseteq Job
    BY DEF Unpublished, Job, TypeInv, StoreInv, StoreTypeOK
  <2> QED
    BY <1>0, <1>4, <2>1 DEF ListOutbox, workerVars, queueVars
<1>5. ASSUME NEW p \in Dispatchers, NEW d \in batch[p], Enqueue(p, d)
      PROVE  PlatformTypeOK'
  <2>1. d \in Job
    BY <1>0
  <2>2. queue' \subseteq Job
    BY <1>0, <1>5, <2>1 DEF Enqueue
  <2> QED
    BY <1>0, <1>5, <2>1, <2>2 DEF Enqueue, workerVars
<1>6. ASSUME NEW p \in Dispatchers, MarkPublished(p) PROVE PlatformTypeOK'
  BY <1>0, <1>6 DEF MarkPublished, workerVars, queueVars
<1>7. ASSUME NEW p \in Dispatchers, DispatchStops(p) PROVE PlatformTypeOK'
  BY <1>0, <1>7 DEF DispatchStops, Fault, workerVars, queueVars
<1>8. ASSUME NEW w \in Workers, NEW d \in queue, StartJob(w, d)
      PROVE  PlatformTypeOK'
  BY <1>0, <1>8 DEF StartJob, queueVars, dispatcherVars
<1>9. ASSUME NEW w \in Workers, ClaimRefused(w) \/ Boundary(w) \/ JobRaises(w)
      PROVE  PlatformTypeOK'
  <2>1. EndJob(w) /\ UNCHANGED dispatcherVars /\ pc[w] # "idle"
    BY <1>9 DEF ClaimRefused, Boundary, JobRaises, Executing
  <2>2. faults' \in Nat
    BY <1>0, <1>9 DEF ClaimRefused, Boundary, JobRaises, Fault
  <2>3. queue' \subseteq Job /\ results' \subseteq Job
    BY <1>0, <1>c, <2>1 DEF EndJob
  <2> QED
    BY <1>0, <1>b, <2>1, <2>2, <2>3 DEF EndJob, dispatcherVars
<1>10. ASSUME NEW w \in Workers, WorkerCrash(w) PROVE PlatformTypeOK'
  BY <1>0, <1>b, <1>10 DEF WorkerCrash, Fault, queueVars, dispatcherVars
<1>11. ASSUME NEW w \in Workers, Claim(w) \/ NextStep(w)
      PROVE  PlatformTypeOK'
  BY <1>0, <1>11 DEF Claim, NextStep, queueVars, dispatcherVars
<1>12. ASSUME NEW w \in Workers, Load(w) PROVE PlatformTypeOK'
  <2>1. RunOf(w) \in Runs
    BY <1>c, <1>12 DEF Load, RunOf, Job
  <2>2. Current(RunOf(w)) \in ExecutionCheckpoint
    BY <1>a, <2>1 DEF Current, TypeInv, StoreInv, StoreTypeOK
  <2> QED
    BY <1>0, <1>12, <2>2 DEF Load, queueVars, dispatcherVars
<1>13. ASSUME NEW w \in Workers, CheckStep(w) PROVE PlatformTypeOK'
  BY <1>0, <1>13 DEF CheckStep, queueVars, dispatcherVars
<1>14. ASSUME NEW w \in Workers, Advance(w) PROVE PlatformTypeOK'
  BY <1>0, <1>14, OutcomeType DEF Advance, queueVars, dispatcherVars
<1>15. ASSUME NEW w \in Workers, Save(w) PROVE PlatformTypeOK'
  <2>1. outcome[w] \in StepOutcome
    BY <1>0, <1>15, OutcomeType DEF Save, TypeInv, JobInv
  <2>2. outcome[w].events \in Seq(EventName)
    BY <2>1 DEF StepOutcome
  <2> QED
    BY <1>0, <1>15, <2>2 DEF Save, queueVars, dispatcherVars
<1>16. ASSUME NEW w \in Workers, Emit(w) PROVE PlatformTypeOK'
  <2>1. Tail(unsent[w]) \in Seq(EventName)
    BY <1>0, <1>16 DEF Emit
  <2> QED
    BY <1>0, <1>16, <2>1 DEF Emit, queueVars, dispatcherVars
<1>17. CASE QueueLoss
  BY <1>0, <1>17 DEF QueueLoss, Fault, workerVars, dispatcherVars
<1> QED
  BY <1>1, <1>2, <1>3, <1>4, <1>5, <1>6, <1>7, <1>8, <1>9, <1>10, <1>11, <1>12,
     <1>13, <1>14, <1>15, <1>16, <1>17 DEF Next, Dispatch, JobStep

\* What is recorded of the past: only a lease that lapses and a step of the
\* engine write to it, and a run stays outlived.
LEMMA HistoryEffect ==
  ASSUME TypeInv, [Next]_vars
  PROVE  \/ UNCHANGED historyVars
         \/ \E w \in Workers : Advance(w)
         \/ /\ \E r \in Runs : LeaseLapses(r)
            /\ outlived \subseteq outlived' /\ planned' = planned
<1>1. CASE UNCHANGED vars
  BY <1>1 DEF vars, platformVars
<1>2. ASSUME NEW r \in Runs, Create(r) \/ Cancel(r) PROVE UNCHANGED historyVars
  BY <1>2 DEF Create, Cancel, platformVars
<1>3. ASSUME NEW r \in Runs, LeaseLapses(r)
      PROVE  outlived \subseteq outlived' /\ planned' = planned
  BY <1>3 DEF LeaseLapses
<1>4. ASSUME NEW p \in Dispatchers, Dispatch(p) \/ DispatchStops(p)
      PROVE  UNCHANGED historyVars
  BY <1>4 DEF Dispatch, ListOutbox, Enqueue, MarkPublished, DispatchStops
<1>5. ASSUME NEW w \in Workers, JobStep(w), ~Advance(w)
      PROVE  UNCHANGED historyVars
  BY <1>5 DEF JobStep, Claim, ClaimRefused, Load, CheckStep, Save, Emit, NextStep,
     Boundary
<1>6. ASSUME NEW w \in Workers,
             WorkerCrash(w) \/ JobRaises(w) \/ \E d \in queue : StartJob(w, d)
      PROVE  UNCHANGED historyVars
  BY <1>6 DEF WorkerCrash, JobRaises, StartJob
<1>7. Recover \/ QueueLoss => UNCHANGED historyVars
  BY DEF Recover, QueueLoss, platformVars
<1> QED
  BY <1>1, <1>2, <1>3, <1>4, <1>5, <1>6, <1>7 DEF Next

LEMMA HistoryTypeNext == TypeInv /\ [Next]_vars => HistoryTypeOK'
<1> SUFFICES ASSUME TypeInv, [Next]_vars PROVE HistoryTypeOK'
  OBVIOUS
<1>0. HistoryTypeOK
  BY DEF TypeInv
<1>1. CASE UNCHANGED historyVars
  BY <1>0, <1>1 DEF HistoryTypeOK, historyVars
<1>2. ASSUME NEW w \in Workers, Advance(w) PROVE HistoryTypeOK'
  <2>1. RunOf(w) \in Runs
    BY <1>2 DEF Advance, TypeInv, JobInv, RunOf, Job
  <2>2. planned' \in [Runs -> Nat]
    BY <1>0, <1>2, <2>1 DEF Advance, HistoryTypeOK
  <2> QED
    BY <1>0, <1>2, <2>2 DEF Advance, HistoryTypeOK
<1>3. ASSUME NEW r \in Runs, LeaseLapses(r) PROVE HistoryTypeOK'
  BY <1>0, <1>3 DEF LeaseLapses, HistoryTypeOK
<1> QED
  BY <1>1, <1>2, <1>3, HistoryEffect

\* A run that is not outlived after a step was not before.
LEMMA OutlivedStays ==
  ASSUME TypeInv, [Next]_vars
  PROVE  outlived \subseteq outlived'
<1>1. ASSUME NEW w \in Workers, Advance(w) PROVE outlived' = outlived
  BY <1>1 DEF Advance
<1> QED
  BY <1>1, HistoryEffect DEF historyVars

-----------------------------------------------------------------------------
(* What a step may be to one worker. *)

\* It does not concern the worker's slot.
Same(w) ==
  /\ pc'[w] = pc[w] /\ job'[w] = job[w] /\ base'[w] = base[w]
  /\ outcome'[w] = outcome[w] /\ unsent'[w] = unsent[w]

\* It leaves the slot where nothing is known of the run.
Unaware(w) ==
  /\ pc'[w] \in {"idle", "claim", "load"}
  /\ pc'[w] = "load" => pc[w] \in {"claim", "emit"}

\* Every step is one of these to every worker.
LEMMA WorkerCases ==
  ASSUME TypeInv, [Next]_vars, NEW w \in Workers
  PROVE  \/ Same(w)
         \/ Unaware(w) /\ (pc'[w] # "idle" => job'[w] \in Job)
         \/ Load(w) \/ CheckStep(w) \/ Advance(w) \/ Save(w) \/ Emit(w)
<1> USE DEF Same, Unaware, GoTo
<1>0. PlatformTypeOK
  BY DEF TypeInv
<1>a. ASSUME NEW v \in Workers, pc[v] # "idle" PROVE job[v] \in Job
  BY <1>a DEF TypeInv, JobInv
<1>1. CASE UNCHANGED workerVars
  BY <1>1 DEF workerVars
<1>2. ASSUME NEW v \in Workers, v # w, JobStep(v) \/ WorkerCrash(v) \/ JobRaises(v)
      PROVE  Same(w)
  BY <1>0, <1>2 DEF PlatformTypeOK, JobStep, Claim, ClaimRefused, Load, CheckStep,
     Advance, Save, Emit, NextStep, Boundary, EndJob, Leave, WorkerCrash, JobRaises
<1>3. ASSUME NEW v \in Workers, NEW d \in queue, StartJob(v, d)
      PROVE  Same(w) \/ (Unaware(w) /\ job'[w] \in Job)
  <2>1. CASE v # w
    <3>1. /\ pc' = [pc EXCEPT ![v] = "claim"]
          /\ job' = [job EXCEPT ![v] = d]
          /\ UNCHANGED <<base, outcome, unsent>>
      BY <1>3 DEF StartJob
    <3>2. pc'[w] = pc[w] /\ job'[w] = job[w]
      BY <1>0, <2>1, <3>1 DEF PlatformTypeOK
    <3> QED
      BY <3>1, <3>2
  <2>2. CASE v = w
    <3>1. pc'[w] = "claim" /\ job'[w] = d
      BY <1>0, <1>3, <2>2 DEF PlatformTypeOK, StartJob
    <3> QED
      BY <1>0, <3>1 DEF PlatformTypeOK
  <2> QED
    BY <2>1, <2>2
<1>4. ASSUME ClaimRefused(w) \/ Boundary(w) \/ WorkerCrash(w) \/ JobRaises(w)
      PROVE  pc'[w] = "idle"
  BY <1>0, <1>4 DEF PlatformTypeOK, ClaimRefused, Boundary, EndJob, Leave,
     WorkerCrash, JobRaises
<1>5. ASSUME Claim(w) \/ NextStep(w)
      PROVE  /\ pc'[w] = "load" /\ job'[w] \in Job
             /\ pc[w] \in {"claim", "emit"}
  BY <1>0, <1>5, <1>a DEF PlatformTypeOK, Claim, NextStep
<1>6. CASE UNCHANGED vars
  BY <1>1, <1>6 DEF vars, platformVars
<1>7. CASE Next
  <2>1. ASSUME NEW r \in Runs, Create(r) \/ Cancel(r) \/ LeaseLapses(r)
        PROVE  UNCHANGED workerVars
    BY <2>1 DEF Create, Cancel, LeaseLapses, platformVars
  <2>2. ASSUME NEW p \in Dispatchers, Dispatch(p) \/ DispatchStops(p)
        PROVE  UNCHANGED workerVars
    BY <2>2 DEF Dispatch, ListOutbox, Enqueue, MarkPublished, DispatchStops
  <2>3. Recover \/ QueueLoss => UNCHANGED workerVars
    BY DEF Recover, QueueLoss, platformVars
  <2>4. CASE \E v \in Workers : JobStep(v) \/ WorkerCrash(v) \/ JobRaises(v)
    <3>1. PICK v \in Workers : JobStep(v) \/ WorkerCrash(v) \/ JobRaises(v)
      BY <2>4
    <3> QED
      BY <3>1, <1>2, <1>4, <1>5 DEF JobStep
  <2>5. CASE \E v \in Workers : \E d \in queue : StartJob(v, d)
    BY <2>5, <1>3
  <2> QED
    BY <1>1, <1>7, <2>1, <2>2, <2>3, <2>4, <2>5 DEF Next
<1> QED
  BY <1>6, <1>7

\* Busy slots have jobs; finished steps are outcomes of their bases.
LEMMA JobInvNext == TypeInv /\ [Next]_vars => JobInv'
<1> SUFFICES ASSUME TypeInv, [Next]_vars, NEW w \in Workers
             PROVE  /\ pc'[w] # "idle" => job'[w] \in Job
                    /\ pc'[w] \in {"save", "emit"} =>
                         outcome'[w] \in Outcomes(base'[w])
  BY DEF JobInv
<1>0. PlatformTypeOK /\ JobInv
  BY DEF TypeInv
<1>1. CASE Same(w)
  BY <1>0, <1>1 DEF Same, JobInv
<1>2. CASE Unaware(w) /\ (pc'[w] # "idle" => job'[w] \in Job)
  BY <1>2 DEF Unaware
<1>3. CASE Load(w) \/ CheckStep(w)
  BY <1>0, <1>3 DEF PlatformTypeOK, JobInv, Load, CheckStep, GoTo
<1>4. CASE Advance(w)
  BY <1>0, <1>4 DEF PlatformTypeOK, JobInv, Advance, GoTo
<1>5. CASE Save(w) \/ Emit(w)
  BY <1>0, <1>5 DEF PlatformTypeOK, JobInv, Save, Emit, GoTo
<1> QED
  BY <1>1, <1>2, <1>3, <1>4, <1>5, WorkerCases

LEMMA TypeInvInit == Init => TypeInv
  BY StoreInitInv, FreshCheckpointType
  DEF Init, TypeInv, PlatformTypeOK, JobInv, HistoryTypeOK, Stage

LEMMA TypeInvNext == TypeInv /\ [Next]_vars => TypeInv'
  BY StoreInvNext, PlatformTypeNext, JobInvNext, HistoryTypeNext DEF TypeInv

-----------------------------------------------------------------------------
(* Part 2: the log. *)

\* No step is entered; the status moves on its own.
QuietStatus(r) ==
  \/ status'[r] = status[r]
  \/ status[r] = "absent" /\ status'[r] = "queued"
  \/ status[r] \in {"queued", "retry_scheduled"} /\ status'[r] = "running"
  \/ status[r] = "running" /\ status'[r] = "queued"
  \/ /\ status[r] \notin Terminal \cup {"absent", "running"}
     /\ status'[r] = "canceled"

Quiet == UNCHANGED <<checkpoint, steps>> /\ \A r \in Runs : QuietStatus(r)

\* One step of the engine is entered on top of the checkpoint it started from.
EnterStep(r, o) ==
  /\ RunKey(r) \notin steps[r]
  /\ o \in Outcomes(Current(r))
  /\ Exists(r)
  /\ steps' = [steps EXCEPT ![r] = @ \cup {RunKey(r)}]
  /\ checkpoint' = [checkpoint EXCEPT ![r] = o.checkpoint]
  /\ status' = [status EXCEPT ![r] = TargetStatus(o)]
  /\ UNCHANGED events

\* An entering save has the current checkpoint as its base.
EnteringSave(w) ==
  /\ Save(w)
  /\ RunOf(w) \in Runs
  /\ base[w] = Current(RunOf(w))
  /\ EnterStep(RunOf(w), outcome[w])

\* A save that does not enter a step changes no table.
LEMMA SaveEffect ==
  ASSUME TypeInv, NEW w \in Workers, BaseInv(w), Save(w)
  PROVE  UNCHANGED storeVars \/ EnteringSave(w)
<1>1. RunOf(w) \in Runs /\ outcome[w] \in Outcomes(base[w])
  BY DEF TypeInv, JobInv, Save, RunOf, Job
<1>2. CASE StepKey(base[w]) \in steps[RunOf(w)]
  BY <1>2 DEF Save, SaveStep
<1>3. CASE StepKey(base[w]) \notin steps[RunOf(w)]
  <2>1. base[w] = Current(RunOf(w))
    BY <1>3 DEF BaseInv, Save
  <2>2. /\ Exists(RunOf(w))
        /\ InsertStep(RunOf(w), StepKey(base[w]), outcome[w].checkpoint,
                      TargetStatus(outcome[w]))
    BY <1>3 DEF Save, SaveStep
  <2> QED
    BY <1>1, <1>3, <2>1, <2>2 DEF EnteringSave, EnterStep, InsertStep, RunKey
<1> QED
  BY <1>2, <1>3

\* The steps of the platform, as the logs see them.
LEMMA StoreEffect ==
  ASSUME TypeInv, \A w \in Workers : BaseInv(w), [Next]_vars
  PROVE  Quiet \/ \E w \in Workers : EnteringSave(w)
<1>0. StoreTypeOK
  BY DEF TypeInv, StoreInv
<1>a. UNCHANGED <<status, checkpoint, steps>> => Quiet
  BY DEF Quiet, QuietStatus
<1>b. UNCHANGED storeVars => Quiet
  BY <1>a DEF storeVars, runVars
<1>c. ASSUME NEW w \in Workers, pc[w] # "idle" PROVE RunOf(w) \in Runs
  BY <1>c DEF TypeInv, JobInv, RunOf, Job
<1>1. ASSUME NEW r \in Runs, Create(r) PROVE Quiet
  BY <1>0, <1>1 DEF Create, CreateRun, Exists, Quiet, QuietStatus, StoreTypeOK
<1>2. ASSUME NEW r \in Runs, Cancel(r) PROVE Quiet
  <2>1. UNCHANGED <<checkpoint, steps>> /\ status[r] \notin Terminal \cup {"absent"}
    BY <1>2 DEF Cancel, RequestCancel, Exists
  <2>2. CASE status[r] = "running"
    BY <1>a, <1>2, <2>1, <2>2 DEF Cancel, RequestCancel
  <2>3. CASE status[r] # "running"
    <3>1. status' = [status EXCEPT ![r] = "canceled"]
      BY <1>2, <2>3 DEF Cancel, RequestCancel
    <3> QED
      BY <1>0, <2>1, <2>3, <3>1 DEF Quiet, QuietStatus, StoreTypeOK
  <2> QED
    BY <2>2, <2>3
<1>3. ASSUME NEW r \in Runs, LeaseLapses(r) PROVE Quiet
  BY <1>a, <1>3 DEF LeaseLapses, LeaseExpires
<1>4. CASE Recover
  BY <1>0, <1>4 DEF Recover, RequeueExpiredLeases, Requeue, Expired, Quiet,
     QuietStatus, StoreTypeOK
<1>5. ASSUME NEW p \in Dispatchers, Dispatch(p) \/ DispatchStops(p)
      PROVE  Quiet
  BY <1>a, <1>b, <1>5 DEF Dispatch, ListOutbox, Enqueue, MarkPublished,
     MarkOutboxPublished, DispatchStops, runVars
<1>6. ASSUME NEW w \in Workers, Claim(w) PROVE Quiet
  BY <1>0, <1>6, <1>c DEF Claim, ClaimRun, Claimable, Quiet, QuietStatus, StoreTypeOK
<1>7. ASSUME NEW w \in Workers, Emit(w) PROVE Quiet
  BY <1>a, <1>7 DEF Emit, AppendEvent, runVars
<1>8. ASSUME NEW w \in Workers, Save(w)
      PROVE  Quiet \/ EnteringSave(w)
  BY <1>b, <1>8, SaveEffect
<1>9. ASSUME NEW w \in Workers,
             \/ ClaimRefused(w) \/ Load(w) \/ CheckStep(w) \/ Advance(w)
             \/ NextStep(w) \/ Boundary(w) \/ WorkerCrash(w) \/ JobRaises(w)
      PROVE  Quiet
  BY <1>b, <1>9 DEF ClaimRefused, Load, CheckStep, Advance, NextStep, Boundary,
     WorkerCrash, JobRaises
<1>10. ASSUME NEW w \in Workers, NEW d \in queue, StartJob(w, d) PROVE Quiet
  BY <1>b, <1>10 DEF StartJob
<1>11. CASE QueueLoss
  BY <1>b, <1>11 DEF QueueLoss
<1>12. CASE UNCHANGED vars
  BY <1>b, <1>12 DEF vars
<1> QED
  BY <1>1, <1>2, <1>3, <1>4, <1>5, <1>6, <1>7, <1>8, <1>9, <1>10, <1>11, <1>12
  DEF Next, JobStep

\* A quiet step leaves every checkpoint and key where it was.
LEMMA QuietKeepsCurrent ==
  ASSUME Quiet, NEW r \in Runs
  PROVE  /\ Current(r)' = Current(r)
         /\ RunKey(r)' = RunKey(r)
         /\ steps'[r] = steps[r]
         /\ QuietStatus(r)
  BY DEF Quiet, Current, RunKey

\* Where a run stands after a step was entered.
LEMMA EnterMovesRun ==
  ASSUME TypeInv, NEW q \in Runs, NEW o, EnterStep(q, o)
  PROVE  /\ Current(q) \in ExecutionCheckpoint
         /\ o \in StepOutcome
         /\ Current(q)' = o.checkpoint
         /\ RunKey(q)' = StepKey(o.checkpoint)
         /\ steps'[q] = steps[q] \cup {RunKey(q)}
         /\ status'[q] = TargetStatus(o)
         /\ \A r \in Runs : r # q =>
              /\ Current(r)' = Current(r) /\ RunKey(r)' = RunKey(r)
              /\ steps'[r] = steps[r] /\ status'[r] = status[r]
              /\ checkpoint'[r] = checkpoint[r]
<1>0. StoreTypeOK
  BY DEF TypeInv, StoreInv
<1>1. Current(q) \in ExecutionCheckpoint
  BY <1>0, FreshCheckpointType DEF Current, StoreTypeOK
<1>2. o \in StepOutcome
  BY <1>1, OutcomeType DEF EnterStep
<1>3. o.checkpoint # NoCheckpoint
  BY <1>2, NoCheckpointAssumption DEF StepOutcome
<1>4. checkpoint'[q] = o.checkpoint
  BY <1>0 DEF StoreTypeOK, EnterStep
<1>5. Current(q)' = o.checkpoint /\ RunKey(q)' = StepKey(o.checkpoint)
  BY <1>3, <1>4 DEF Current, RunKey
<1>6. steps'[q] = steps[q] \cup {RunKey(q)} /\ status'[q] = TargetStatus(o)
  BY <1>0 DEF StoreTypeOK, EnterStep
<1>7. ASSUME NEW r \in Runs, r # q
      PROVE  /\ steps'[r] = steps[r] /\ status'[r] = status[r]
             /\ checkpoint'[r] = checkpoint[r]
  BY <1>0, <1>7 DEF StoreTypeOK, EnterStep
<1>8. ASSUME NEW r \in Runs, r # q
      PROVE  Current(r)' = Current(r) /\ RunKey(r)' = RunKey(r)
  BY <1>7, <1>8 DEF Current, RunKey
<1> QED
  BY <1>1, <1>2, <1>5, <1>6, <1>7, <1>8

\* A run that is closed stays closed until a step is entered.
LEMMA LogInvQuiet ==
  ASSUME Quiet, NEW r \in Runs, LogInv(r)
  PROVE  LogInv(r)'
<1>1. /\ Current(r)' = Current(r) /\ RunKey(r)' = RunKey(r)
      /\ steps'[r] = steps[r] /\ checkpoint'[r] = checkpoint[r]
      /\ QuietStatus(r)
  BY QuietKeepsCurrent DEF Quiet
<1>2. /\ status'[r] = "absent" => status[r] = "absent"
      /\ status'[r] = "completed" <=> status[r] = "completed"
      /\ status'[r] = "waiting_approval" => status[r] = "waiting_approval"
      /\ status[r] \in {"waiting_approval", "canceled"} =>
           status'[r] \in {"waiting_approval", "canceled"}
  BY <1>1 DEF QuietStatus, Terminal
<1> QED
  BY <1>1, <1>2 DEF LogInv

\* An entered step is the last of the log; it closes the run or moves it on.
LEMMA LogInvEnter ==
  ASSUME TypeInv, NEW q \in Runs, NEW o, EnterStep(q, o),
         \A r \in Runs : LogInv(r), NEW r \in Runs
  PROVE  LogInv(r)'
<1>0. /\ Current(q) \in ExecutionCheckpoint /\ o \in StepOutcome
      /\ Current(q)' = o.checkpoint /\ RunKey(q)' = StepKey(o.checkpoint)
      /\ steps'[q] = steps[q] \cup {RunKey(q)}
      /\ status'[q] = TargetStatus(o)
  BY EnterMovesRun
<1>1. CASE r # q
  <2>1. /\ Current(r)' = Current(r) /\ RunKey(r)' = RunKey(r)
        /\ steps'[r] = steps[r] /\ status'[r] = status[r]
        /\ checkpoint'[r] = checkpoint[r]
    BY <1>1, EnterMovesRun
  <2> QED
    BY <2>1 DEF LogInv
<1>2. CASE r = q
  <2>1. o \in Outcomes(Current(q)) /\ RunKey(q) \notin steps[q] /\ Exists(q)
    BY DEF EnterStep
  <2>2. LogInv(q)
    OBVIOUS
  <2>3. /\ o.completed <=> Current(q).pending_action = "answer"
        /\ o.waiting \/ o.completed => o.checkpoint = Current(q)
        /\ o.completed => ~o.waiting
        /\ o.checkpoint.approval_decision = "undecided"
    BY <1>0, <2>1, <2>2, OutcomeFacts DEF LogInv
  <2>4. /\ RunKey(q) \in StepKeyType /\ RunKey(q)' \in StepKeyType
        /\ \A k \in steps[q] : k \in StepKeyType
    BY <1>0, StepKeyIsKey
    DEF StepOutcome, RunKey, TypeInv, StoreInv, StoreTypeOK
  <2>5. /\ KeyRank(RunKey(q)) \in Int /\ KeyRank(RunKey(q)') \in Int
        /\ \A k \in steps[q] : KeyRank(k) \in Int
    BY <2>4, RankType
  <2>6. \/ RunKey(q)' = RunKey(q) /\ (o.waiting \/ o.completed)
        \/ /\ ~o.waiting /\ ~o.completed
           /\ KeyRank(RunKey(q)') > KeyRank(RunKey(q))
    BY <1>0, <2>1, OutcomeAdvances DEF RunKey
  <2>7. \A k \in steps[q] : KeyRank(k) <= KeyRank(RunKey(q))
    BY <2>2 DEF LogInv
  <2>8. \A k \in steps'[q] : KeyRank(k) <= KeyRank(RunKey(q)')
    BY <1>0, <2>5, <2>6, <2>7
  <2>9. RunKey(q)' \in steps'[q] <=> (o.waiting \/ o.completed)
    BY <1>0, <2>5, <2>6, <2>7
  <2>10. /\ o.waiting => status'[q] = "waiting_approval"
         /\ o.completed => status'[q] = "completed"
         /\ ~o.waiting /\ ~o.completed => status'[q] = "running"
    BY <1>0, <2>3 DEF TargetStatus
  <2>11. \A k \in steps'[q] : k.step_type = "answer" => status'[q] = "completed"
    <3>1. status[q] # "completed"
      BY <2>1, <2>2 DEF LogInv
    <3>2. \A k \in steps[q] : k.step_type # "answer"
      BY <2>2, <3>1 DEF LogInv
    <3>3. Current(q).pending_action \in CheckpointAction
      BY <1>0 DEF ExecutionCheckpoint
    <3>4. RunKey(q).step_type = "answer" => o.completed
      BY <2>3, <3>3 DEF RunKey, StepKey, StepTypeFor, CheckpointAction
    <3> QED
      BY <1>0, <2>10, <3>2, <3>4
  <2>12. /\ RunKey(q)' \in steps'[q] =>
              status'[q] \in {"completed", "waiting_approval", "canceled"}
         /\ status'[q] \in {"completed", "waiting_approval"} =>
              RunKey(q)' \in steps'[q]
    BY <2>9, <2>10
  <2>13. /\ status'[q] = "completed" => (Current(q)').pending_action = "answer"
         /\ status'[q] # "absent"
         /\ (Current(q)').approval_decision = "undecided"
    BY <1>0, <2>3, <2>10
  <2> QED
    BY <1>2, <2>8, <2>11, <2>12, <2>13 DEF LogInv
<1> QED
  BY <1>1, <1>2

LEMMA LogInvNext ==
  ASSUME TypeInv, \A r \in Runs : LogInv(r), \A w \in Workers : BaseInv(w),
         [Next]_vars, NEW r \in Runs
  PROVE  LogInv(r)'
  BY StoreEffect, LogInvQuiet, LogInvEnter DEF EnteringSave

-----------------------------------------------------------------------------
(* Part 3: what the workers know. *)

\* A step entered on the checkpoint a worker has read is the worker's own.
LEMMA BaseInvKept ==
  ASSUME PlatformInv, [Next]_vars, NEW w \in Workers, Same(w)
  PROVE  BaseInv(w)'
<1>0. TypeInv /\ BaseInv(w)
  BY DEF PlatformInv
<1>1. pc'[w] = pc[w] /\ base'[w] = base[w] /\ RunOf(w)' = RunOf(w)
  BY DEF Same, RunOf
<1>2. CASE pc[w] = "idle"
  BY <1>1, <1>2 DEF BaseInv
<1>3. CASE pc[w] # "idle" /\ Quiet
  <2>1. PICK r \in Runs : RunOf(w) = r
    BY <1>0, <1>3 DEF TypeInv, JobInv, RunOf, Job
  <2>2. /\ Current(r)' = Current(r) /\ steps'[r] = steps[r]
        /\ status[r] \in {"waiting_approval", "canceled"} =>
             status'[r] \in {"waiting_approval", "canceled"}
    BY <1>3, <2>1, QuietKeepsCurrent DEF QuietStatus, Terminal
  <2>3. /\ status'[RunOf(w)'] = status'[r] /\ steps'[RunOf(w)'] = steps[r]
        /\ Current(RunOf(w))' = Current(r)
    BY <1>1, <2>1, <2>2 DEF Current
  <2> QED
    BY <1>0, <1>1, <2>1, <2>2, <2>3 DEF BaseInv
<1>4. CASE pc[w] # "idle" /\ \E v \in Workers : EnteringSave(v)
  <2>1. PICK r \in Runs : RunOf(w) = r
    BY <1>0, <1>4 DEF TypeInv, JobInv, RunOf, Job
  <2>2. PICK v \in Workers : EnteringSave(v)
    BY <1>4
  <2>3. PICK q \in Runs, o \in {outcome[x] : x \in Workers} :
          q = RunOf(v) /\ o = outcome[v] /\ EnterStep(q, o)
    BY <2>2 DEF EnteringSave
  <2>4. Current(RunOf(w))' = Current(r)'
    BY <1>1, <2>1 DEF Current
  <2>5. CASE r # q
    <3>1. /\ Current(r)' = Current(r) /\ steps'[r] = steps[r]
          /\ status'[r] = status[r]
      BY <1>0, <2>1, <2>3, <2>5, EnterMovesRun
    <3> QED
      BY <1>0, <1>1, <2>1, <2>4, <3>1 DEF BaseInv
  <2>6. CASE r = q
    <3>1. /\ Current(r) \in ExecutionCheckpoint /\ Current(r)' = o.checkpoint
          /\ steps'[r] = steps[r] \cup {RunKey(r)}
          /\ status'[r] = TargetStatus(o)
      BY <1>0, <2>3, <2>6, EnterMovesRun
    <3>2. RunKey(r) \notin steps[r] /\ o \in Outcomes(Current(r))
      BY <2>3, <2>6 DEF EnterStep
    <3>3. pc[w] \in {"check", "advance", "save", "emit"} =>
            StepKey(base[w]) \in steps'[r]
      BY <1>0, <2>1, <3>1 DEF BaseInv, RunKey
    <3>4. ASSUME pc[w] \in {"check", "advance", "save", "emit"}, Pausing(base[w])
          PROVE  /\ base[w] = Current(r)'
                 /\ status'[r] = "waiting_approval"
      <4>1. StepKey(base[w]) \notin steps[r]
        BY <1>0, <2>1, <3>2, <3>4 DEF BaseInv, RunKey
      <4>2. base[w] = Current(r)
        BY <1>0, <2>1, <3>4, <4>1 DEF BaseInv
      <4>3. o.waiting /\ o.checkpoint = Current(r)
        BY <3>1, <3>2, <3>4, <4>2, OutcomeFacts
      <4> QED
        BY <3>1, <4>2, <4>3 DEF TargetStatus
    <3> QED
      BY <1>0, <1>1, <2>1, <2>4, <3>3, <3>4 DEF BaseInv
  <2> QED
    BY <2>5, <2>6
<1> QED
  BY <1>2, <1>3, <1>4, StoreEffect DEF PlatformInv

\* The worker's own steps.
LEMMA BaseInvLoad ==
  ASSUME PlatformInv, NEW w \in Workers, Load(w)
  PROVE  BaseInv(w)'
<1> DEFINE r == RunOf(w)
<1>1. r \in Runs /\ PlatformTypeOK
  BY DEF PlatformInv, TypeInv, JobInv, Load, RunOf, Job
<1>2. pc'[w] = "check" /\ base'[w] = Current(r)
  BY <1>1 DEF PlatformTypeOK, Load, GoTo
<1>3. /\ RunOf(w)' = r /\ status' = status /\ steps' = steps
      /\ Current(r)' = Current(r)
  BY DEF Load, RunOf, storeVars, runVars, Current
<1>4. LogInv(r)
  BY <1>1 DEF PlatformInv
<1>5. Pausing(Current(r)) /\ RunKey(r) \in steps[r] =>
        status[r] \in {"waiting_approval", "canceled"}
  BY <1>4 DEF LogInv, Pausing
<1>6. Current(RunOf(w))' = Current(r)
  BY <1>3 DEF Current
<1> QED
  BY <1>2, <1>3, <1>4, <1>5, <1>6 DEF BaseInv, LogInv, RunKey

LEMMA BaseInvStep ==
  ASSUME PlatformInv, NEW w \in Workers, CheckStep(w) \/ Advance(w) \/ Emit(w)
  PROVE  BaseInv(w)'
<1>1. BaseInv(w) /\ PlatformTypeOK
  BY DEF PlatformInv, TypeInv
<1>2. /\ base' = base /\ RunOf(w)' = RunOf(w)
      /\ status' = status /\ steps' = steps /\ checkpoint' = checkpoint
  BY DEF CheckStep, Advance, Emit, AppendEvent, RunOf, storeVars, runVars
<1>3. Current(RunOf(w))' = Current(RunOf(w))
  BY <1>2 DEF Current
<1>4. \/ pc[w] = "check" /\ pc'[w] \in {"load", "advance"}
      \/ pc[w] = "advance" /\ pc'[w] = "save"
      \/ pc[w] = "emit" /\ pc'[w] = "emit"
  BY <1>1 DEF PlatformTypeOK, CheckStep, Advance, Emit, GoTo
<1> QED
  BY <1>1, <1>2, <1>3, <1>4 DEF BaseInv

LEMMA BaseInvSave ==
  ASSUME PlatformInv, NEW w \in Workers, Save(w)
  PROVE  BaseInv(w)'
<1>1. BaseInv(w) /\ TypeInv /\ PlatformTypeOK /\ StoreTypeOK
  BY DEF PlatformInv, TypeInv, StoreInv
<1>2. pc[w] = "save" /\ pc'[w] = "emit" /\ base' = base /\ RunOf(w)' = RunOf(w)
  BY <1>1 DEF PlatformTypeOK, Save, GoTo, RunOf
<1>3. PICK r \in Runs : RunOf(w) = r
  BY <1>1, <1>2 DEF TypeInv, JobInv, RunOf, Job
<1>4. Current(RunOf(w))' = Current(r)'
  BY <1>2, <1>3 DEF Current
<1>5. CASE UNCHANGED storeVars
  <2>1. StepKey(base[w]) \in steps[r]
    <3>1. steps' = steps
      BY <1>5 DEF storeVars
    <3>2. \/ StepKey(base[w]) \in steps[r]
          \/ steps' = [steps EXCEPT ![r] = @ \cup {StepKey(base[w])}]
      BY <1>3 DEF Save, SaveStep, InsertStep
    <3> QED
      BY <1>1, <1>3, <3>1, <3>2 DEF StoreTypeOK
  <2>2. status' = status /\ steps' = steps /\ Current(r)' = Current(r)
    BY <1>5 DEF storeVars, runVars, Current
  <2> QED
    BY <1>1, <1>2, <1>3, <1>4, <2>1, <2>2 DEF BaseInv
<1>6. CASE EnteringSave(w)
  <2>1. base[w] = Current(r) /\ EnterStep(r, outcome[w])
    BY <1>3, <1>6 DEF EnteringSave
  <2>2. /\ Current(r) \in ExecutionCheckpoint
        /\ Current(r)' = outcome[w].checkpoint
        /\ steps'[r] = steps[r] \cup {RunKey(r)}
        /\ status'[r] = TargetStatus(outcome[w])
    BY <1>1, <1>3, <2>1, EnterMovesRun
  <2>3. Pausing(base[w]) =>
          /\ base[w] = Current(r)'
          /\ status'[r] = "waiting_approval"
    BY <2>1, <2>2, OutcomeFacts DEF EnterStep, TargetStatus
  <2> QED
    BY <1>2, <1>3, <1>4, <2>1, <2>2, <2>3 DEF BaseInv, RunKey
<1> QED
  BY <1>1, <1>5, <1>6, SaveEffect

LEMMA BaseInvNext ==
  ASSUME PlatformInv, [Next]_vars, NEW w \in Workers
  PROVE  BaseInv(w)'
<1>1. CASE Unaware(w)
  BY <1>1 DEF Unaware, BaseInv
<1> QED
  BY <1>1, BaseInvKept, BaseInvLoad, BaseInvStep, BaseInvSave, WorkerCases
  DEF PlatformInv

\* A worker has only the announcements of its own outcome to send.
LEMMA UnsentInvNext ==
  ASSUME PlatformInv, [Next]_vars, NEW w \in Workers
  PROVE  UnsentInv(w)'
<1>0. TypeInv /\ PlatformTypeOK /\ UnsentInv(w)
  BY DEF PlatformInv, TypeInv
<1>1. CASE Same(w)
  BY <1>0, <1>1 DEF Same, UnsentInv
<1>2. CASE Unaware(w) \/ Load(w) \/ CheckStep(w) \/ Advance(w)
  <2>1. pc'[w] # "emit"
    BY <1>0, <1>2 DEF PlatformTypeOK, Unaware, Load, CheckStep, Advance, GoTo
  <2> QED
    BY <2>1 DEF UnsentInv
<1>3. CASE Save(w)
  <2>1. /\ unsent'[w] = outcome[w].events /\ outcome' = outcome
    BY <1>0, <1>3 DEF PlatformTypeOK, Save
  <2>2. base[w] \in ExecutionCheckpoint /\ outcome[w] \in Outcomes(base[w])
    BY <1>0, <1>3 DEF PlatformTypeOK, TypeInv, JobInv, Save
  <2> QED
    BY <2>1, <2>2, OutcomeFacts DEF UnsentInv
<1>4. CASE Emit(w)
  <2>1. /\ unsent[w] \in Seq(EventName) /\ unsent[w] # <<>>
        /\ unsent'[w] = Tail(unsent[w]) /\ outcome' = outcome /\ pc[w] = "emit"
    BY <1>0, <1>4 DEF PlatformTypeOK, Emit
  <2>2. \A i \in 1..Len(Tail(unsent[w])) :
          i + 1 \in 1..Len(unsent[w]) /\ Tail(unsent[w])[i] = unsent[w][i + 1]
    BY <2>1
  <2> QED
    BY <1>0, <2>1, <2>2 DEF UnsentInv
<1> QED
  BY <1>0, <1>1, <1>2, <1>3, <1>4, WorkerCases

\* The event log grows by announcements and by nothing else.
LEMMA EventEffect ==
  ASSUME PlatformInv, [Next]_vars
  PROVE  events' = events \/ \E w \in Workers : Emit(w)
<1>1. UNCHANGED storeVars => events' = events
  BY DEF storeVars
<1>2. ASSUME NEW r \in Runs, Create(r) \/ Cancel(r) \/ LeaseLapses(r)
      PROVE  events' = events
  BY <1>2 DEF Create, Cancel, LeaseLapses, CreateRun, RequestCancel, LeaseExpires
<1>3. ASSUME NEW p \in Dispatchers, Dispatch(p) \/ DispatchStops(p)
      PROVE  events' = events
  BY <1>1, <1>3 DEF Dispatch, ListOutbox, Enqueue, MarkPublished,
     MarkOutboxPublished, DispatchStops
<1>4. CASE Recover
  BY <1>4 DEF Recover, RequeueExpiredLeases, Requeue
<1>5. ASSUME NEW w \in Workers, JobStep(w), ~Emit(w) PROVE events' = events
  BY <1>1, <1>5 DEF JobStep, Claim, ClaimRun, ClaimRefused, Load, CheckStep, Advance,
     Save, SaveStep, InsertStep, NextStep, Boundary
<1>6. ASSUME NEW w \in Workers,
             WorkerCrash(w) \/ JobRaises(w) \/ \E d \in queue : StartJob(w, d)
      PROVE  events' = events
  BY <1>1, <1>6 DEF WorkerCrash, JobRaises, StartJob
<1>7. QueueLoss \/ UNCHANGED vars => events' = events
  BY <1>1 DEF QueueLoss, vars
<1> QED
  BY <1>2, <1>3, <1>4, <1>5, <1>6, <1>7 DEF Next

\* What is announced has happened, and stays so.
LEMMA EventInvNext ==
  ASSUME PlatformInv, [Next]_vars, NEW r \in Runs
  PROVE  EventInv(r)'
<1>0. TypeInv /\ StoreTypeOK /\ PlatformTypeOK /\ LogInv(r) /\ EventInv(r)
  BY DEF PlatformInv, TypeInv, StoreInv
<1>a. events[r] \in Seq(EventName)
  BY <1>0 DEF StoreTypeOK
<1>1. ASSUME events'[r] = events[r] PROVE EventInv(r)'
  <2>1. ASSUME NEW name PROVE Logged(r, name)' <=> Logged(r, name)
    BY <1>1 DEF Logged
  <2>2. CASE Quiet
    <3>1. /\ RunKey(r)' = RunKey(r) /\ steps'[r] = steps[r]
          /\ status[r] = "completed" => status'[r] = "completed"
          /\ status[r] \in {"waiting_approval", "canceled"} =>
               status'[r] \in {"waiting_approval", "canceled"}
      BY <2>2, QuietKeepsCurrent DEF QuietStatus, Terminal
    <3> QED
      BY <1>0, <2>1, <3>1 DEF EventInv
  <2>3. CASE \E v \in Workers : EnteringSave(v)
    <3>1. PICK v \in Workers : EnteringSave(v)
      BY <2>3
    <3>2. PICK q \in Runs, o \in {outcome[x] : x \in Workers} : EnterStep(q, o)
      BY <3>1 DEF EnteringSave
    <3>3. CASE q # r
      <4>1. /\ RunKey(r)' = RunKey(r) /\ steps'[r] = steps[r]
            /\ status'[r] = status[r]
        BY <1>0, <3>2, <3>3, EnterMovesRun
      <4> QED
        BY <1>0, <2>1, <4>1 DEF EventInv
    <3>4. CASE q = r
      <4>1. RunKey(r) \notin steps[r]
        BY <3>2, <3>4 DEF EnterStep
      <4>2. ~Logged(r, "run.completed") /\ ~Logged(r, "run.waiting_approval")
        BY <1>0, <4>1 DEF LogInv, EventInv
      <4> QED
        BY <2>1, <4>2 DEF EventInv
    <3> QED
      BY <3>3, <3>4
  <2> QED
    BY <2>2, <2>3, StoreEffect DEF PlatformInv
<1>2. ASSUME NEW w \in Workers, Emit(w) PROVE EventInv(r)'
  <2>1. /\ pc[w] = "emit" /\ unsent[w] # <<>> /\ unsent[w] \in Seq(EventName)
        /\ RunOf(w) \in Runs /\ base[w] \in ExecutionCheckpoint
        /\ outcome[w] \in Outcomes(base[w])
    BY <1>0, <1>2 DEF Emit, TypeInv, PlatformTypeOK, JobInv, RunOf, Job
  <2>2. events' = [events EXCEPT ![RunOf(w)] = Append(@, Head(unsent[w]))]
    BY <1>2 DEF Emit, AppendEvent
  <2>3. CASE RunOf(w) # r
    BY <1>0, <1>1, <2>2, <2>3 DEF StoreTypeOK
  <2>4. CASE RunOf(w) = r
    <3>1. events'[r] = Append(events[r], Head(unsent[w]))
      BY <1>0, <2>2, <2>4 DEF StoreTypeOK
    <3>2. \A i \in 1..Len(events'[r]) :
            events'[r][i] = Head(unsent[w]) \/
              (i \in 1..Len(events[r]) /\ events'[r][i] = events[r][i])
      BY <1>a, <3>1
    <3>3. ASSUME NEW name, Logged(r, name)'
          PROVE  Logged(r, name) \/ Head(unsent[w]) = name
      BY <3>2, <3>3 DEF Logged
    <3>4. /\ Head(unsent[w]) = "run.completed" => outcome[w].completed
          /\ Head(unsent[w]) = "run.waiting_approval" => outcome[w].waiting
      <4>1. 1 \in 1..Len(unsent[w]) /\ Head(unsent[w]) = unsent[w][1]
        BY <2>1
      <4> QED
        BY <2>1, <4>1 DEF PlatformInv, UnsentInv
    <3>5. BaseInv(w)
      BY DEF PlatformInv
    <3>6. Head(unsent[w]) = "run.completed" => status[r] = "completed"
      <4>1. StepKey(base[w]) \in steps[r]
        BY <2>1, <2>4, <3>5 DEF BaseInv
      <4>2. Head(unsent[w]) = "run.completed" =>
              StepKey(base[w]).step_type = "answer"
        BY <2>1, <3>4, OutcomeFacts DEF StepKey, StepTypeFor
      <4> QED
        BY <1>0, <4>1, <4>2 DEF LogInv
    <3>7. Head(unsent[w]) = "run.waiting_approval" =>
            /\ status[r] \in {"waiting_approval", "canceled"}
            /\ RunKey(r) \in steps[r]
      BY <2>1, <2>4, <3>4, <3>5, OutcomeFacts DEF BaseInv, RunKey
    <3>8. status' = status /\ steps' = steps /\ RunKey(r)' = RunKey(r)
      BY <1>2 DEF Emit, AppendEvent, runVars, RunKey, Current
    <3> QED
      BY <1>0, <3>3, <3>6, <3>7, <3>8 DEF EventInv
  <2> QED
    BY <2>3, <2>4
<1> QED
  BY <1>1, <1>2, EventEffect

LEMMA PlatformInvInit == Init => PlatformInv
<1> SUFFICES ASSUME Init PROVE PlatformInv
  OBVIOUS
<1>1. TypeInv
  BY TypeInvInit
<1>2. ASSUME NEW r \in Runs PROVE LogInv(r) /\ EventInv(r)
  <2>1. /\ status[r] = "absent" /\ steps[r] = {} /\ checkpoint[r] = NoCheckpoint
        /\ events[r] = <<>>
    BY DEF Init, StoreInit
  <2>2. Current(r) = FreshCheckpoint
    BY <2>1 DEF Current
  <2>3. EventInv(r)
    BY <2>1 DEF EventInv, Logged
  <2> QED
    BY <2>1, <2>2, <2>3 DEF LogInv, FreshCheckpoint
<1>3. ASSUME NEW w \in Workers PROVE BaseInv(w) /\ UnsentInv(w)
  BY DEF Init, BaseInv, UnsentInv
<1> QED
  BY <1>1, <1>2, <1>3 DEF PlatformInv

LEMMA PlatformInvNext == PlatformInv /\ [Next]_vars => PlatformInv'
<1> SUFFICES ASSUME PlatformInv, [Next]_vars PROVE PlatformInv'
  OBVIOUS
<1>1. TypeInv'
  BY TypeInvNext DEF PlatformInv
<1>2. ASSUME NEW r \in Runs PROVE LogInv(r)' /\ EventInv(r)'
  BY LogInvNext, EventInvNext DEF PlatformInv
<1>3. ASSUME NEW w \in Workers PROVE BaseInv(w)' /\ UnsentInv(w)'
  BY BaseInvNext, UnsentInvNext
<1> QED
  BY <1>1, <1>2, <1>3 DEF PlatformInv

LEMMA PlatformInvariant == Spec => []PlatformInv
  BY PlatformInvInit, PlatformInvNext, PTL DEF Spec

-----------------------------------------------------------------------------
(* The results.  None of them assumes anything of the leases: they hold of  *)
(* workers that have long lost the run they execute.                        *)

\* Every variable keeps its type, and the tables stay consistent.
THEOREM PlatformTypeCorrect == Spec => []TypeOK
<1>1. PlatformInv => TypeOK
  BY DEF PlatformInv, TypeInv, StoreInv, PlatformTypeOK, HistoryTypeOK, TypeOK
<1> QED
  BY <1>1, PlatformInvariant, PTL

\* A worker works on the current checkpoint, or its key is taken.
THEOREM WorkerIsCurrentOrFenced == Spec => []BaseCurrentOrSaved
<1>1. PlatformInv => BaseCurrentOrSaved
  BY DEF PlatformInv, BaseInv, BaseCurrentOrSaved
<1> QED
  BY <1>1, PlatformInvariant, PTL

\* No update is lost, whoever saves last.
THEOREM NoLostUpdate == Spec => SaveBuildsOnCurrent
<1> DEFINE A == \A w \in Workers :
                  pc[w] = "save" /\ steps' # steps /\ pc'[w] = "emit"
                    => base[w] = Current(RunOf(w))
<1>1. PlatformInv /\ [Next]_vars => [A]_vars
  <2> SUFFICES ASSUME PlatformInv, Next, NEW w \in Workers,
                      pc[w] = "save", steps' # steps, pc'[w] = "emit"
               PROVE  base[w] = Current(RunOf(w))
    OBVIOUS
  <2>1. Save(w)
    <3>1. ~Same(w) /\ ~Unaware(w)
      BY DEF Same, Unaware
    <3>2. TypeInv
      BY DEF PlatformInv
    <3> QED
      BY <3>1, <3>2, WorkerCases DEF Load, CheckStep, Advance, Emit
  <2>2. ~UNCHANGED storeVars
    BY DEF storeVars
  <2> QED
    BY <2>1, <2>2, SaveEffect DEF PlatformInv, EnteringSave
<1> QED
  BY <1>1, PlatformInvariant, PTL DEF Spec, SaveBuildsOnCurrent

\* The engine of the step log is the platform's.
LEMMA SameEngine ==
  /\ Log!FreshCheckpoint = FreshCheckpoint
  /\ \A c : Log!StepKey(c) = StepKey(c)
  /\ \A c : Log!Outcomes(c) = Outcomes(c)
<1>1. Log!FreshCheckpoint = FreshCheckpoint
  BY DEF Log!FreshCheckpoint, FreshCheckpoint
<1>2. ASSUME NEW c PROVE Log!StepKey(c) = StepKey(c)
  BY DEF Log!StepKey, Log!StepTypeFor, StepKey, StepTypeFor
<1>3. ASSUME NEW c PROVE Log!Outcomes(c) = Outcomes(c)
  BY DEF Log!Outcomes, Log!PlanOutcomes, Log!ToolOutcomes, Log!AnswerOutcomes,
     Log!ExecuteTool, Log!Progress, Log!ClearPendingTool, Log!RequiresApproval,
     Log!ToolName, Log!ToolStepLimit, Outcomes, PlanOutcomes, ToolOutcomes,
     AnswerOutcomes, ExecuteTool, Progress, ClearPendingTool, RequiresApproval,
     ToolName, ToolStepLimit
<1> QED
  BY <1>1, <1>2, <1>3

\* The platform, with all its workers, crashes and late saves, implements the
\* sequential log of steps.
THEOREM ImplementsStepLog == Spec => StepLogSpec
<1>1. Init => Log!Init
  <2> SUFFICES ASSUME Init PROVE Log!Init
    OBVIOUS
  <2>1. \A r \in Runs : Current(r) = FreshCheckpoint
    BY DEF Init, StoreInit, Current
  <2> QED
    BY <2>1, SameEngine DEF Init, StoreInit, Log!Init
<1>2. PlatformInv /\ [Next]_vars => [Log!Next]_(Log!vars)
  <2> SUFFICES ASSUME PlatformInv, [Next]_vars PROVE [Log!Next]_(Log!vars)
    OBVIOUS
  <2>1. CASE Quiet
    <3>1. steps' = steps /\ checkpoint' = checkpoint
      BY <2>1 DEF Quiet
    <3>2. \A r \in Runs : Current(r)' = Current(r)
      BY <3>1 DEF Current
    <3> QED
      BY <3>1, <3>2 DEF Log!vars
  <2>2. CASE \E w \in Workers : EnteringSave(w)
    <3>1. PICK q \in Runs, o \in {outcome[x] : x \in Workers} : EnterStep(q, o)
      BY <2>2 DEF EnteringSave
    <3>2. /\ Current(q)' = o.checkpoint
          /\ \A r \in Runs : r # q => Current(r)' = Current(r)
      BY <3>1, EnterMovesRun DEF PlatformInv
    <3>3. Log!Enter(q)
      <4> DEFINE cur == [r \in Runs |-> Current(r)]
      <4>1. cur' = [cur EXCEPT ![q] = o.checkpoint]
        BY <3>2
      <4>2. /\ cur[q] = Current(q)
            /\ RunKey(q) \notin steps[q]
            /\ steps' = [steps EXCEPT ![q] = @ \cup {RunKey(q)}]
            /\ o \in Outcomes(Current(q))
        BY <3>1 DEF EnterStep
      <4>3. /\ Log!StepKey(cur[q]) = RunKey(q)
            /\ o \in Log!Outcomes(cur[q])
        BY <4>2, SameEngine DEF RunKey
      <4> QED
        BY <4>1, <4>2, <4>3 DEF Log!Enter
    <3> QED
      BY <3>3 DEF Log!Next
  <2> QED
    BY <2>1, <2>2, StoreEffect DEF PlatformInv
<1> QED
  BY <1>1, <1>2, PlatformInvariant, PTL DEF Spec, StepLogSpec, Log!Spec

-----------------------------------------------------------------------------
(* The step log itself: what its specification promises of any log, and so  *)
(* of the platform.                                                         *)

\* The strengthening: keys come from checkpoints, so none is of an approval.
StepLogInv ==
  /\ steps \in [Runs -> SUBSET StepKeyType]
  /\ \A r \in Runs :
       /\ Current(r) \in ExecutionCheckpoint
       /\ \A k \in steps[r] :
            /\ k.step_type # "approval"
            /\ KeyRank(k) <= KeyRank(RunKey(r))
            /\ k.step_type = "plan" => k.sequence <= ToolStepLimit

\* The key of a checkpoint, field by field.
LEMMA KeyFields ==
  ASSUME NEW c \in ExecutionCheckpoint
  PROVE  /\ StepKey(c) \in StepKeyType
         /\ StepKey(c).step_type # "approval"
         /\ StepKey(c).step_type = "plan" => StepKey(c).sequence <= ToolStepLimit
<1>1. c.pending_action # "answer" => c.next_step <= ToolStepLimit
  BY DEF ExecutionCheckpoint
<1> QED
  BY <1>1, StepKeyIsKey DEF StepKey, StepTypeFor

\* Keys of different steps have different ranks.
LEMMA RankIsInjective ==
  ASSUME NEW j \in StepKeyType, NEW k \in StepKeyType,
         j.step_type # "approval", k.step_type # "approval",
         KeyRank(j) = KeyRank(k)
  PROVE  j = k
<1>1. /\ j.sequence \in Nat /\ k.sequence \in Nat
      /\ j.step_type \in {"plan", "tool_call", "answer"}
      /\ k.step_type \in {"plan", "tool_call", "answer"}
  BY ToolStepLimitPos DEF StepKeyType, StepType
<1>2. j.sequence = k.sequence /\ j.step_type = k.step_type
  BY <1>1 DEF KeyRank, KindRank
<1> QED
  BY <1>2 DEF StepKeyType

\* What Enter does, in one place.
LEMMA LogEntry ==
  ASSUME StepLogInv, NEW r \in Runs, Log!Enter(r)
  PROVE  \E c \in ExecutionCheckpoint :
           /\ RunKey(r) \notin steps[r]
           /\ steps' = [steps EXCEPT ![r] = @ \cup {RunKey(r)}]
           /\ Current(r)' = c /\ \A q \in Runs : q # r => Current(q)' = Current(q)
           /\ KeyRank(RunKey(r)) <= KeyRank(StepKey(c))
<1> DEFINE cur == [q \in Runs |-> Current(q)]
<1>1. cur[r] = Current(r) /\ Current(r) \in ExecutionCheckpoint
  BY DEF StepLogInv
<1>2. /\ RunKey(r) \notin steps[r]
      /\ steps' = [steps EXCEPT ![r] = @ \cup {RunKey(r)}]
  BY <1>1, SameEngine DEF Log!Enter, RunKey
<1>3. PICK o \in Outcomes(Current(r)) : cur' = [cur EXCEPT ![r] = o.checkpoint]
  BY <1>1, SameEngine DEF Log!Enter
<1>4. o.checkpoint \in ExecutionCheckpoint
  BY <1>1, OutcomeType DEF StepOutcome
<1>5. /\ KeyRank(StepKey(Current(r))) \in Int
      /\ KeyRank(StepKey(o.checkpoint)) \in Int
  BY <1>1, <1>4, StepKeyIsKey, RankType
<1>6. KeyRank(RunKey(r)) <= KeyRank(StepKey(o.checkpoint))
  BY <1>1, <1>5, OutcomeAdvances DEF RunKey
<1>7. \A q \in Runs : cur'[q] = Current(q)' /\ cur[q] = Current(q)
  OBVIOUS
<1>8. Current(r)' = o.checkpoint /\ \A q \in Runs : q # r => Current(q)' = Current(q)
  BY <1>3, <1>7
<1> QED
  BY <1>2, <1>4, <1>6, <1>8

\* Every entry keeps the log in order.
LEMMA LogStep ==
  ASSUME StepLogInv, [Log!Next]_(Log!vars)
  PROVE  /\ StepLogInv'
         /\ \A q \in Runs : \A k \in steps'[q] \ steps[q], j \in steps[q] :
              KeyRank(j) < KeyRank(k)
<1>1. CASE UNCHANGED Log!vars
  <2> DEFINE cur == [q \in Runs |-> Current(q)]
  <2>1. cur' = cur /\ steps' = steps
    BY <1>1 DEF Log!vars
  <2>2. \A q \in Runs : cur'[q] = Current(q)' /\ cur[q] = Current(q)
    OBVIOUS
  <2>3. \A q \in Runs : Current(q)' = Current(q)
    BY <2>1, <2>2
  <2> QED
    BY <2>1, <2>3 DEF StepLogInv, RunKey
<1>2. ASSUME NEW r \in Runs, Log!Enter(r)
      PROVE  /\ StepLogInv'
             /\ \A q \in Runs : \A k \in steps'[q] \ steps[q], j \in steps[q] :
                  KeyRank(j) < KeyRank(k)
  <2>1. PICK c \in ExecutionCheckpoint :
           /\ RunKey(r) \notin steps[r]
           /\ steps' = [steps EXCEPT ![r] = @ \cup {RunKey(r)}]
           /\ Current(r)' = c /\ \A q \in Runs : q # r => Current(q)' = Current(q)
           /\ KeyRank(RunKey(r)) <= KeyRank(StepKey(c))
    BY <1>2, LogEntry
  <2>2. /\ steps \in [Runs -> SUBSET StepKeyType]
        /\ Current(r) \in ExecutionCheckpoint
        /\ RunKey(r) \in StepKeyType /\ RunKey(r).step_type # "approval"
        /\ RunKey(r).step_type = "plan" => RunKey(r).sequence <= ToolStepLimit
        /\ RunKey(r)' = StepKey(c) /\ StepKey(c) \in StepKeyType
    BY <2>1, KeyFields DEF StepLogInv, RunKey
  <2>3. steps' \in [Runs -> SUBSET StepKeyType]
    BY <2>1, <2>2
  <2>4. ASSUME NEW q \in Runs, NEW k \in steps'[q]
        PROVE  /\ k.step_type # "approval"
               /\ KeyRank(k) <= KeyRank(RunKey(q)')
               /\ k.step_type = "plan" => k.sequence <= ToolStepLimit
    <3>1. CASE q # r
      <4>1. RunKey(q)' = RunKey(q) /\ steps'[q] = steps[q]
        BY <2>1, <2>2, <3>1 DEF RunKey
      <4> QED
        BY <4>1 DEF StepLogInv
    <3>2. CASE q = r
      <4>1. k \in steps[r] \/ k = RunKey(r)
        BY <2>1, <2>2, <3>2
      <4>2. KeyRank(k) <= KeyRank(RunKey(r)) /\ k \in StepKeyType
        BY <2>2, <4>1, RankType DEF StepLogInv
      <4>3. KeyRank(k) <= KeyRank(StepKey(c))
        BY <2>1, <2>2, <4>2, RankType
      <4> QED
        BY <2>2, <3>2, <4>1, <4>3 DEF StepLogInv
    <3> QED
      BY <3>1, <3>2
  <2>5. \A q \in Runs : Current(q)' \in ExecutionCheckpoint
    BY <2>1 DEF StepLogInv
  <2>6. ASSUME NEW q \in Runs, NEW k \in steps'[q] \ steps[q], NEW j \in steps[q]
        PROVE  KeyRank(j) < KeyRank(k)
    <3>1. q = r /\ k = RunKey(r) /\ k # j /\ j \in StepKeyType /\ j.step_type # "approval"
      BY <2>1, <2>2 DEF StepLogInv
    <3>2. KeyRank(j) <= KeyRank(k)
      BY <3>1 DEF StepLogInv
    <3> QED
      BY <2>2, <3>1, <3>2, RankIsInjective, RankType
  <2> QED
    BY <2>3, <2>4, <2>5, <2>6 DEF StepLogInv
<1> QED
  BY <1>1, <1>2 DEF Log!Next

\* The invariant of the log.
LEMMA StepLogInvariant == StepLogSpec => []StepLogInv
<1>1. Log!Init => StepLogInv
  <2> SUFFICES ASSUME Log!Init PROVE StepLogInv
    OBVIOUS
  <2> DEFINE cur == [q \in Runs |-> Current(q)]
  <2>1. cur = [r \in Runs |-> FreshCheckpoint] /\ steps = [r \in Runs |-> {}]
    BY SameEngine DEF Log!Init
  <2>2. \A q \in Runs : cur[q] = Current(q)
    OBVIOUS
  <2> HIDE DEF cur
  <2>3. \A q \in Runs : Current(q) = FreshCheckpoint
    BY <2>1, <2>2
  <2> QED
    BY <2>1, <2>3, FreshCheckpointType DEF StepLogInv
<1>2. StepLogInv /\ [Log!Next]_(Log!vars) => StepLogInv'
  BY LogStep
<1> QED
  BY <1>1, <1>2, PTL DEF StepLogSpec, Log!Spec

\* What the invariant says, in the words of StepLog.
LEMMA StepLogMeans ==
  ASSUME StepLogInv
  PROVE  Log!LogInOrder /\ Log!PlanBudget
<1>1. /\ \A k : Log!KeyRank(k) = KeyRank(k)
      /\ Log!ToolStepLimit = ToolStepLimit
  BY DEF Log!KeyRank, Log!KindRank, KeyRank, KindRank, Log!ToolStepLimit, ToolStepLimit
<1>2. ASSUME NEW r \in Runs
      PROVE  Log!StepKey([q \in Runs |-> Current(q)][r]) = RunKey(r)
  BY SameEngine DEF RunKey
<1> QED
  BY <1>1, <1>2 DEF StepLogInv, Log!LogInOrder, Log!PlanBudget

\* The idempotency keys of a run never overtake its checkpoint.
THEOREM LogStaysInOrder == StepLogSpec => []Log!LogInOrder
  BY StepLogInvariant, StepLogMeans, PTL

\* A log has at most max_tool_steps plans (one if that is less).
THEOREM PlanningBounded == StepLogSpec => []Log!PlanBudget
  BY StepLogInvariant, StepLogMeans, PTL

\* A step enters the log after all that are in it.
THEOREM EnteredInOrder == StepLogSpec => EntersInOrder
<1> DEFINE Later == \A r \in Runs : \A k \in steps'[r] \ steps[r], j \in steps[r] :
                      Log!KeyRank(j) < Log!KeyRank(k)
<1>1. \A k : Log!KeyRank(k) = KeyRank(k)
  BY DEF Log!KeyRank, Log!KindRank, KeyRank, KindRank
<1>2. StepLogInv /\ [Log!Next]_(Log!vars) => [Later]_(Log!vars)
  BY <1>1, LogStep
<1> QED
  BY <1>2, StepLogInvariant, PTL DEF StepLogSpec, Log!Spec, EntersInOrder, Log!EntersInOrder

\* So do those of the platform, whatever crashes, and whoever saves late: the
\* saved steps of a run are in order and hold at most max_tool_steps plans.
\* How often the planner is asked for them is another matter (PlannerBudgeted).
THEOREM PlatformKeepsLog ==
  Spec => [](Log!LogInOrder /\ Log!PlanBudget) /\ EntersInOrder
  BY ImplementsStepLog, LogStaysInOrder, PlanningBounded, EnteredInOrder, PTL

-----------------------------------------------------------------------------
(* The results, continued. *)

\* No late save, sweep or cancellation reopens a completed run.
THEOREM CompletedStaysFinal == Spec => CompletedIsFinal
<1> DEFINE A == \A r \in Runs : status[r] = "completed" =>
                  /\ status'[r] = "completed"
                  /\ checkpoint'[r] = checkpoint[r]
                  /\ steps'[r] = steps[r]
<1>1. PlatformInv /\ [Next]_vars => [A]_vars
  <2> SUFFICES ASSUME PlatformInv, [Next]_vars, NEW r \in Runs,
                      status[r] = "completed"
               PROVE  /\ status'[r] = "completed"
                      /\ checkpoint'[r] = checkpoint[r]
                      /\ steps'[r] = steps[r]
    OBVIOUS
  <2>1. CASE Quiet
    BY <2>1 DEF Quiet, QuietStatus, Terminal
  <2>2. CASE \E w \in Workers : EnteringSave(w)
    <3>1. PICK q \in Runs, o \in {outcome[x] : x \in Workers} : EnterStep(q, o)
      BY <2>2 DEF EnteringSave
    <3>2. r # q
      BY <3>1 DEF EnterStep, PlatformInv, LogInv
    <3> QED
      BY <3>1, <3>2, EnterMovesRun DEF PlatformInv
  <2> QED
    BY <2>1, <2>2, StoreEffect DEF PlatformInv
<1> QED
  BY <1>1, PlatformInvariant, PTL DEF Spec, CompletedIsFinal

\* What the event log announces is true.
THEOREM AnnouncedIsTrue == Spec => []AnnouncementsAreTrue
<1>1. PlatformInv => AnnouncementsAreTrue
  BY DEF PlatformInv, EventInv, AnnouncementsAreTrue
<1> QED
  BY <1>1, PlatformInvariant, PTL

\* A tool that needs approval is never executed.
THEOREM UnapprovedNeverRuns == Spec => NoToolWithoutApproval
<1> DEFINE A == \A w \in Workers :
                  pc'[w] = "save" /\ pc[w] # "save" =>
                    outcome'[w].ran \notin ApprovalTools
<1>1. PlatformInv /\ [Next]_vars => [A]_vars
  <2> SUFFICES ASSUME PlatformInv, [Next]_vars, NEW w \in Workers,
                      pc'[w] = "save", pc[w] # "save",
                      outcome'[w].ran \in ApprovalTools
               PROVE  FALSE
    OBVIOUS
  <2>0. TypeInv /\ PlatformTypeOK /\ BaseInv(w)
    BY DEF PlatformInv, TypeInv
  <2>1. Advance(w)
    <3>1. ~Same(w) /\ ~Unaware(w)
      BY DEF Same, Unaware
    <3>2. ~Load(w) /\ ~CheckStep(w) /\ ~Save(w) /\ ~Emit(w)
      BY <2>0 DEF Load, CheckStep, Save, Emit, GoTo, PlatformTypeOK
    <3> QED
      BY <2>0, <3>1, <3>2, WorkerCases
  <2>2. outcome'[w] \in Outcomes(base[w]) /\ base[w] \in ExecutionCheckpoint
    BY <2>0, <2>1 DEF Advance, PlatformTypeOK
  <2>3. base[w].approval_decision = "undecided"
    BY <2>0, <2>1 DEF Advance, BaseInv
  <2>4. PICK o \in Outcomes(base[w]) : outcome'[w] = o
    BY <2>2
  <2>5. base[w].approval_decision = "approved"
    BY <2>2, <2>4, RanWasApproved
  <2> QED
    BY <2>3, <2>5
<1> QED
  BY <1>1, PlatformInvariant, PTL DEF Spec, NoToolWithoutApproval

-----------------------------------------------------------------------------
(* Runs whose leases have outlived the jobs that held them.                 *)

Closed(w) == outcome[w].waiting \/ outcome[w].completed

\* The executing job holds the live lease of a running run, until its own
\* step has closed the run.
HoldsRun(w) ==
  Executing(w) /\ RunOf(w) \notin outlived =>
    \/ status[RunOf(w)] = "running" /\ lease[RunOf(w)] = "live"
    \/ /\ pc[w] = "emit" /\ Closed(w)
       /\ status[RunOf(w)] \in {"completed", "waiting_approval", "canceled"}

\* Nobody saves behind the back of the executing job.
HasCurrent(w) ==
  pc[w] \in {"check", "advance", "save"} /\ RunOf(w) \notin outlived =>
    base[w] = Current(RunOf(w))

\* No run is in a state the platform never enters; running runs have leases.
RunInv(r) ==
  /\ status[r] \notin {"retry_scheduled", "failed"}
  /\ status[r] = "running" /\ r \notin outlived => lease[r] # "none"

LeaseInv ==
  /\ PlatformInv
  /\ SingleExecutor
  /\ \A w \in Workers : HoldsRun(w) /\ HasCurrent(w)
  /\ \A r \in Runs : RunInv(r)

\* What a step may do to the status and the lease of one run.
LeaseEffect(r) ==
  \/ status'[r] = status[r] /\ lease'[r] = lease[r]
  \/ status[r] = "absent" /\ status'[r] = "queued"
  \/ /\ status[r] \in {"queued", "retry_scheduled"}
     /\ status'[r] = "running" /\ lease'[r] = "live"
  \/ /\ lease[r] = "live" /\ lease'[r] = "expired" /\ status'[r] = status[r]
     /\ (\E w \in Workers : Executing(w) /\ RunOf(w) = r) => r \in outlived'
  \/ /\ status[r] = "running" /\ lease[r] = "expired" /\ status'[r] = "queued"
     /\ attempt_count'[r] = attempt_count[r] + 1
  \/ /\ status[r] \notin Terminal \cup {"absent", "running"}
     /\ status'[r] = "canceled"
  \/ \E w \in Workers :
       /\ EnteringSave(w) /\ RunOf(w) = r
       /\ status'[r] = TargetStatus(outcome[w])
       /\ status'[r] = "running" => lease'[r] = lease[r]

LEMMA LeaseEffects ==
  ASSUME PlatformInv, [Next]_vars, NEW r \in Runs
  PROVE  LeaseEffect(r)
<1>0. TypeInv /\ StoreTypeOK /\ PlatformTypeOK
  BY DEF PlatformInv, TypeInv, StoreInv
<1>a. UNCHANGED <<status, lease>> => LeaseEffect(r)
  BY DEF LeaseEffect
<1>b. UNCHANGED storeVars => LeaseEffect(r)
  BY <1>a DEF storeVars, runVars
<1>1. ASSUME NEW q \in Runs, Create(q) PROVE LeaseEffect(r)
  BY <1>0, <1>1 DEF Create, CreateRun, Exists, LeaseEffect, StoreTypeOK
<1>2. ASSUME NEW q \in Runs, Cancel(q) PROVE LeaseEffect(r)
  <2>1. CASE status[q] = "running"
    BY <1>a, <1>2, <2>1 DEF Cancel, RequestCancel
  <2>2. CASE status[q] # "running"
    <3>1. /\ status' = [status EXCEPT ![q] = "canceled"]
          /\ lease' = [lease EXCEPT ![q] = "none"]
          /\ status[q] \notin Terminal \cup {"absent"}
      BY <1>2, <2>2 DEF Cancel, RequestCancel, ClearLease, Exists
    <3> QED
      BY <1>0, <2>2, <3>1 DEF LeaseEffect, StoreTypeOK
  <2> QED
    BY <2>1, <2>2
<1>3. ASSUME NEW q \in Runs, LeaseLapses(q) PROVE LeaseEffect(r)
  BY <1>0, <1>3 DEF LeaseLapses, LeaseExpires, LeaseEffect, StoreTypeOK
<1>4. CASE Recover
  BY <1>0, <1>4 DEF Recover, RequeueExpiredLeases, Requeue, Expired, LeaseEffect,
     StoreTypeOK
<1>5. ASSUME NEW p \in Dispatchers, Dispatch(p) \/ DispatchStops(p)
      PROVE  LeaseEffect(r)
  BY <1>a, <1>b, <1>5 DEF Dispatch, ListOutbox, Enqueue, MarkPublished,
     MarkOutboxPublished, DispatchStops, runVars
<1>6. ASSUME NEW w \in Workers, Claim(w) PROVE LeaseEffect(r)
  BY <1>0, <1>6 DEF Claim, ClaimRun, Claimable, LeaseEffect, StoreTypeOK
<1>7. ASSUME NEW w \in Workers, Save(w) PROVE LeaseEffect(r)
  <2>1. CASE EnteringSave(w)
    <3>1. PICK q \in Runs : RunOf(w) = q
      BY <2>1 DEF EnteringSave
    <3>2. EnterStep(q, outcome[w])
      BY <2>1, <3>1 DEF EnteringSave
    <3>3. /\ status' = [status EXCEPT ![q] = TargetStatus(outcome[w])]
          /\ TargetStatus(outcome[w]) = "running" => lease' = lease
          /\ \/ lease' = lease \/ lease' = [lease EXCEPT ![q] = "none"]
      <4>1. StepKey(base[w]) \notin steps[q]
        BY <2>1, <3>1 DEF EnteringSave, EnterStep, RunKey
      <4>2. InsertStep(q, StepKey(base[w]), outcome[w].checkpoint,
                       TargetStatus(outcome[w]))
        BY <1>7, <3>1, <4>1 DEF Save, SaveStep
      <4> QED
        BY <4>2 DEF InsertStep, ClearLease
    <3> QED
      BY <1>0, <2>1, <3>1, <3>3 DEF LeaseEffect, StoreTypeOK
  <2> QED
    BY <1>0, <1>b, <1>7, <2>1, SaveEffect DEF PlatformInv
<1>8. ASSUME NEW w \in Workers,
             \/ ClaimRefused(w) \/ Load(w) \/ CheckStep(w) \/ Advance(w)
             \/ NextStep(w) \/ Boundary(w) \/ WorkerCrash(w) \/ JobRaises(w)
             \/ \E d \in queue : StartJob(w, d)
      PROVE  LeaseEffect(r)
  BY <1>b, <1>8 DEF ClaimRefused, Load, CheckStep, Advance, NextStep, Boundary,
     WorkerCrash, JobRaises, StartJob
<1>9. ASSUME NEW w \in Workers, Emit(w) PROVE LeaseEffect(r)
  BY <1>a, <1>9 DEF Emit, AppendEvent, runVars
<1>10. QueueLoss \/ UNCHANGED vars => LeaseEffect(r)
  BY <1>b DEF QueueLoss, vars
<1> QED
  BY <1>1, <1>2, <1>3, <1>4, <1>5, <1>6, <1>7, <1>8, <1>9, <1>10
  DEF Next, JobStep

\* A job executes after a step because it did before, or because it has just
\* claimed its run; a job that has closed its run only announces.
LEMMA ExecutorCases ==
  ASSUME TypeInv, [Next]_vars, NEW w \in Workers, Executing(w)'
  PROVE  /\ RunOf(w)' = RunOf(w)
         /\ RunOf(w) \in Runs
         /\ \/ Claim(w)
            \/ /\ Executing(w)
               /\ pc[w] = "emit" /\ Closed(w) =>
                    pc'[w] = "emit" /\ outcome'[w] = outcome[w]
<1> USE DEF GoTo
<1>0. PlatformTypeOK
  BY DEF TypeInv
<1>a. ASSUME pc[w] # "idle" PROVE RunOf(w) \in Runs
  BY <1>a DEF TypeInv, JobInv, RunOf, Job
<1>b. ASSUME Executing(w) PROVE RunOf(w) \in Runs
  BY <1>a, <1>b DEF Executing
<1>1. CASE UNCHANGED workerVars
  BY <1>1, <1>b DEF workerVars, Executing, RunOf
<1>2. ASSUME NEW v \in Workers, v # w, JobStep(v) \/ WorkerCrash(v) \/ JobRaises(v)
      PROVE  Same(w)
  BY <1>0, <1>2 DEF Same, PlatformTypeOK, JobStep, Claim, ClaimRefused, Load,
     CheckStep, Advance, Save, Emit, NextStep, Boundary, EndJob, Leave, WorkerCrash,
     JobRaises
<1>3. CASE Same(w)
  BY <1>3, <1>b DEF Same, Executing, RunOf
<1>4. ASSUME NEW v \in Workers, NEW d \in queue, StartJob(v, d) PROVE Same(w)
  <2>1. /\ pc' = [pc EXCEPT ![v] = "claim"] /\ job' = [job EXCEPT ![v] = d]
        /\ UNCHANGED <<base, outcome, unsent>>
    BY <1>4 DEF StartJob
  <2>2. v # w
    BY <1>0, <2>1 DEF PlatformTypeOK, Executing
  <2>3. pc'[w] = pc[w] /\ job'[w] = job[w]
    BY <1>0, <2>1, <2>2 DEF PlatformTypeOK
  <2> QED
    BY <2>1, <2>3 DEF Same
<1>5. ~ (ClaimRefused(w) \/ Boundary(w) \/ WorkerCrash(w) \/ JobRaises(w))
  BY <1>0 DEF PlatformTypeOK, ClaimRefused, Boundary, EndJob, Leave, WorkerCrash,
     JobRaises, Executing
<1>6. CASE Claim(w)
  BY <1>6, <1>a DEF Claim, RunOf
<1>7. CASE Load(w) \/ CheckStep(w) \/ Advance(w) \/ Save(w) \/ Emit(w) \/ NextStep(w)
  <2>1. Executing(w) /\ job' = job
    BY <1>7 DEF Load, CheckStep, Advance, Save, Emit, NextStep, Executing
  <2>2. pc[w] = "emit" /\ Closed(w) => Emit(w)
    BY <1>7 DEF Load, CheckStep, Advance, Save, NextStep, Closed
  <2> QED
    BY <1>b, <2>1, <2>2 DEF Emit, RunOf
<1>8. CASE UNCHANGED vars
  BY <1>1, <1>8 DEF vars, platformVars
<1>9. CASE Next
  <2>1. ASSUME NEW r \in Runs, Create(r) \/ Cancel(r) \/ LeaseLapses(r)
        PROVE  UNCHANGED workerVars
    BY <2>1 DEF Create, Cancel, LeaseLapses, platformVars
  <2>2. ASSUME NEW p \in Dispatchers, Dispatch(p) \/ DispatchStops(p)
        PROVE  UNCHANGED workerVars
    BY <2>2 DEF Dispatch, ListOutbox, Enqueue, MarkPublished, DispatchStops
  <2>3. Recover \/ QueueLoss => UNCHANGED workerVars
    BY DEF Recover, QueueLoss, platformVars
  <2>4. CASE \E v \in Workers : JobStep(v) \/ WorkerCrash(v) \/ JobRaises(v)
    <3>1. PICK v \in Workers : JobStep(v) \/ WorkerCrash(v) \/ JobRaises(v)
      BY <2>4
    <3> QED
      BY <3>1, <1>2, <1>3, <1>5, <1>6, <1>7 DEF JobStep
  <2>5. CASE \E v \in Workers : \E d \in queue : StartJob(v, d)
    BY <2>5, <1>3, <1>4
  <2> QED
    BY <1>1, <1>9, <2>1, <2>2, <2>3, <2>4, <2>5 DEF Next
<1> QED
  BY <1>8, <1>9

\* Only a claim makes a job execute, and a claimed run was waiting for one.
LEMMA SingleExecutorNext ==
  ASSUME LeaseInv, [Next]_vars
  PROVE  SingleExecutor'
<1>0. TypeInv /\ PlatformTypeOK
  BY DEF LeaseInv, PlatformInv, TypeInv
<1> SUFFICES ASSUME NEW v \in Workers, NEW w \in Workers,
                    Executing(v)', Executing(w)', RunOf(v)' = RunOf(w)',
                    RunOf(w)' \notin outlived'
             PROVE  v = w
  BY DEF SingleExecutor
<1>1. RunOf(v) = RunOf(w) /\ RunOf(w) \notin outlived
  BY <1>0, ExecutorCases, OutlivedStays
<1>2. ASSUME NEW x \in Workers, NEW y \in Workers, Claim(x), Executing(y),
             RunOf(y) \notin outlived
      PROVE  RunOf(x) # RunOf(y)
  BY <1>2 DEF LeaseInv, HoldsRun, Claim, ClaimRun, Claimable
<1>3. CASE Claim(v) /\ Claim(w)
  <2>1. /\ pc[v] = "claim" /\ pc[w] = "claim"
        /\ pc' = [pc EXCEPT ![v] = "load"] /\ pc' = [pc EXCEPT ![w] = "load"]
    BY <1>3 DEF Claim, GoTo
  <2>2. pc'[v] = "load" /\ (v # w => pc'[v] = pc[v])
    BY <1>0, <2>1 DEF PlatformTypeOK
  <2> QED
    BY <2>1, <2>2
<1>4. CASE Executing(v) /\ Executing(w)
  BY <1>1, <1>4 DEF LeaseInv, SingleExecutor
<1> QED
  BY <1>0, <1>1, <1>2, <1>3, <1>4, ExecutorCases

\* The run stays with the job until the job has closed it.
LEMMA HoldsRunNext ==
  ASSUME LeaseInv, [Next]_vars, NEW w \in Workers
  PROVE  HoldsRun(w)'
<1>0. TypeInv /\ PlatformTypeOK /\ StoreTypeOK /\ PlatformInv /\ HoldsRun(w)
  BY DEF LeaseInv, PlatformInv, TypeInv, StoreInv
<1> SUFFICES ASSUME Executing(w)', RunOf(w)' \notin outlived'
             PROVE  \/ status'[RunOf(w)'] = "running" /\ lease'[RunOf(w)'] = "live"
                    \/ /\ pc'[w] = "emit" /\ Closed(w)'
                       /\ status'[RunOf(w)'] \in {"completed", "waiting_approval",
                                                  "canceled"}
  BY DEF HoldsRun
<1>1. PICK r \in Runs : RunOf(w) = r /\ RunOf(w)' = r
  BY <1>0, ExecutorCases
<1>a. r \notin outlived /\ r \notin outlived'
  BY <1>0, <1>1, OutlivedStays
<1>2. CASE Claim(w)
  BY <1>0, <1>1, <1>2 DEF Claim, ClaimRun, StoreTypeOK
<1>3. ASSUME Executing(w),
             pc[w] = "emit" /\ Closed(w) =>
               pc'[w] = "emit" /\ outcome'[w] = outcome[w]
      PROVE  \/ status'[r] = "running" /\ lease'[r] = "live"
             \/ /\ pc'[w] = "emit" /\ Closed(w)'
                /\ status'[r] \in {"completed", "waiting_approval", "canceled"}
  <2>1. LeaseEffect(r)
    BY <1>0, LeaseEffects
  <2>2. ASSUME NEW v \in Workers, EnteringSave(v), RunOf(v) = r
        PROVE  v = w /\ pc[w] = "save" /\ pc'[w] = "emit" /\ outcome' = outcome
    <3>1. Executing(v) /\ pc[v] = "save"
      BY <2>2 DEF EnteringSave, Save, Executing
    <3>2. v = w
      BY <1>1, <1>a, <1>3, <2>2, <3>1 DEF LeaseInv, SingleExecutor
    <3> QED
      BY <1>0, <2>2, <3>1, <3>2 DEF EnteringSave, Save, GoTo, PlatformTypeOK
  <2>3. CASE status[r] = "running" /\ lease[r] = "live"
    <3>1. CASE \E v \in Workers :
                 /\ EnteringSave(v) /\ RunOf(v) = r
                 /\ status'[r] = TargetStatus(outcome[v])
                 /\ status'[r] = "running" => lease'[r] = lease[r]
      BY <2>2, <2>3, <3>1 DEF TargetStatus, Closed
    <3>2. CASE \/ status'[r] = status[r] /\ lease'[r] = lease[r]
               \/ status[r] = "running" /\ lease[r] = "expired"
      BY <2>3, <3>2
    <3>3. ~ ((\E v \in Workers : Executing(v) /\ RunOf(v) = r) => r \in outlived')
      BY <1>1, <1>a, <1>3
    <3> QED
      BY <2>1, <2>3, <3>1, <3>2, <3>3 DEF LeaseEffect
  <2>4. CASE /\ pc[w] = "emit" /\ Closed(w)
             /\ status[r] \in {"completed", "waiting_approval", "canceled"}
    <3>1. pc'[w] = "emit" /\ Closed(w)'
      BY <1>3, <2>4 DEF Closed
    <3>2. ~ \E v \in Workers : EnteringSave(v) /\ RunOf(v) = r
      BY <2>2, <2>4
    <3> QED
      BY <2>1, <2>4, <3>1, <3>2 DEF LeaseEffect, Terminal
  <2> QED
    BY <1>0, <1>1, <1>a, <1>3, <2>3, <2>4 DEF HoldsRun
<1> QED
  BY <1>0, <1>1, <1>2, <1>3, ExecutorCases

\* The checkpoint a job has read is replaced by its own save only.
LEMMA HasCurrentNext ==
  ASSUME LeaseInv, [Next]_vars, NEW w \in Workers
  PROVE  HasCurrent(w)'
<1>0. TypeInv /\ PlatformTypeOK /\ PlatformInv /\ HasCurrent(w)
  BY DEF LeaseInv, PlatformInv, TypeInv
<1> SUFFICES ASSUME pc'[w] \in {"check", "advance", "save"},
                    RunOf(w)' \notin outlived'
             PROVE  base'[w] = Current(RunOf(w))'
  BY DEF HasCurrent
<1>1. PICK r \in Runs : RunOf(w) = r /\ RunOf(w)' = r
  BY <1>0, ExecutorCases DEF Executing
<1>a. r \notin outlived
  BY <1>0, <1>1, OutlivedStays
<1>2. Current(RunOf(w))' = Current(r)'
  BY <1>1 DEF Current
<1>3. CASE Same(w)
  <2>1. Executing(w) /\ base[w] = Current(r) /\ base'[w] = base[w]
    BY <1>0, <1>1, <1>a, <1>3 DEF Same, HasCurrent, Executing
  <2>2. CASE Quiet
    BY <1>2, <2>1, <2>2, QuietKeepsCurrent
  <2>3. CASE \E v \in Workers : EnteringSave(v)
    <3>1. PICK v \in Workers : EnteringSave(v)
      BY <2>3
    <3>2. PICK q \in Runs, o \in {outcome[x] : x \in Workers} :
            q = RunOf(v) /\ EnterStep(q, o)
      BY <3>1 DEF EnteringSave
    <3>3. Executing(v) /\ pc[v] = "save" /\ pc'[v] = "emit"
      BY <1>0, <3>1 DEF EnteringSave, Save, Executing, GoTo, PlatformTypeOK
    <3>4. q # r
      BY <1>1, <1>a, <1>3, <2>1, <3>2, <3>3 DEF Same, LeaseInv, SingleExecutor
    <3> QED
      BY <1>0, <1>2, <2>1, <3>2, <3>4, EnterMovesRun
  <2> QED
    BY <1>0, <2>2, <2>3, StoreEffect DEF PlatformInv
<1>4. CASE Load(w)
  <2>1. base'[w] = Current(r) /\ checkpoint' = checkpoint
    BY <1>0, <1>1, <1>4 DEF Load, PlatformTypeOK, storeVars, runVars
  <2> QED
    BY <1>2, <2>1 DEF Current
<1>5. CASE CheckStep(w) \/ Advance(w)
  <2>1. base'[w] = base[w] /\ checkpoint' = checkpoint
        /\ pc[w] \in {"check", "advance"}
    BY <1>5 DEF CheckStep, Advance, storeVars, runVars
  <2> QED
    BY <1>0, <1>1, <1>a, <1>2, <2>1 DEF Current, HasCurrent
<1>6. ~Unaware(w) /\ ~Save(w) /\ ~Emit(w)
  BY <1>0 DEF Unaware, Save, Emit, GoTo, PlatformTypeOK
<1> QED
  BY <1>0, <1>3, <1>4, <1>5, <1>6, WorkerCases

\* No retry is scheduled and nothing fails; a running run keeps its lease
\* until the sweep takes both away.
LEMMA RunInvNext ==
  ASSUME LeaseInv, [Next]_vars, NEW r \in Runs
  PROVE  RunInv(r)'
<1>0. LeaseEffect(r) /\ RunInv(r)
  BY LeaseEffects DEF LeaseInv
<1>1. ASSUME NEW w \in Workers, EnteringSave(w), RunOf(w) = r
      PROVE  /\ TargetStatus(outcome[w]) \in
                  {"running", "completed", "waiting_approval"}
             /\ r \notin outlived => lease[r] = "live"
  BY <1>1 DEF EnteringSave, Save, Executing, LeaseInv, HoldsRun, TargetStatus
<1>2. r \notin outlived' => r \notin outlived
  BY OutlivedStays DEF LeaseInv, PlatformInv
<1> QED
  BY <1>0, <1>1, <1>2 DEF LeaseEffect, RunInv

LEMMA LeaseInvInit == Init => LeaseInv
  BY PlatformInvInit
  DEF Init, StoreInit, LeaseInv, SingleExecutor, HoldsRun, HasCurrent, RunInv, Executing

LEMMA LeaseInvNext == LeaseInv /\ [Next]_vars => LeaseInv'
<1> SUFFICES ASSUME LeaseInv, [Next]_vars PROVE LeaseInv'
  OBVIOUS
<1>1. PlatformInv'
  BY PlatformInvNext DEF LeaseInv
<1>2. ASSUME NEW w \in Workers PROVE HoldsRun(w)' /\ HasCurrent(w)'
  BY HoldsRunNext, HasCurrentNext
<1>3. ASSUME NEW r \in Runs PROVE RunInv(r)'
  BY RunInvNext
<1> QED
  BY <1>1, <1>2, <1>3, SingleExecutorNext DEF LeaseInv

LEMMA LeaseInvariant == Spec => []LeaseInv
<1>1. LeaseInv /\ [Next]_vars => LeaseInv'
  BY LeaseInvNext
<1> QED
  BY <1>1, LeaseInvInit, PTL DEF Spec

\* A run that may still be executed has a step to take, and a job that finds
\* its key saved has outlived its lease.
THEOREM RunnableStaysFresh == Spec => []RunnableIsFresh
<1>1. LeaseInv => RunnableIsFresh
  <2> SUFFICES ASSUME LeaseInv PROVE RunnableIsFresh
    OBVIOUS
  <2>1. \A r \in Runs : status[r] \in {"queued", "running"} =>
          StepKey(Current(r)) \notin steps[r]
    BY DEF LeaseInv, PlatformInv, LogInv, RunKey
  <2>2. ASSUME NEW w \in Workers, pc[w] = "check", RunOf(w) \notin outlived
        PROVE  StepKey(base[w]) \notin steps[RunOf(w)]
    <3>1. RunOf(w) \in Runs
      BY <2>2 DEF LeaseInv, PlatformInv, TypeInv, JobInv, RunOf, Job
    <3>2. base[w] = Current(RunOf(w)) /\ status[RunOf(w)] = "running"
      BY <2>2 DEF LeaseInv, HoldsRun, HasCurrent, Executing
    <3> QED
      BY <2>1, <3>1, <3>2
  <2> QED
    BY <2>1, <2>2 DEF RunnableIsFresh
<1> QED
  BY <1>1, LeaseInvariant, PTL

\* No two jobs execute one run, until its lease runs out under one.
THEOREM OneExecutor == Spec => []SingleExecutor
<1>1. LeaseInv => SingleExecutor
  BY DEF LeaseInv
<1> QED
  BY <1>1, LeaseInvariant, PTL

\* Every running run is executed or will be swept, unless its lease ran out
\* under a job.
THEOREM NoRunAbandoned == Spec => []NoneAbandoned
<1>1. LeaseInv => NoneAbandoned
  BY DEF LeaseInv, RunInv, NoneAbandoned
<1> QED
  BY <1>1, LeaseInvariant, PTL

\* No step is executed again once it is saved, unless the lease of the run ran
\* out under a job.
THEOREM SavedStepRunsOnce == Spec => SavedStepNotRepeated
<1> DEFINE A == \A w \in Workers :
                  pc[w] = "advance" /\ pc'[w] = "save"
                      /\ RunOf(w) \notin outlived =>
                    StepKey(base[w]) \notin steps[RunOf(w)]
<1>1. LeaseInv => A
  <2> SUFFICES ASSUME LeaseInv, NEW w \in Workers, pc[w] = "advance",
                      RunOf(w) \notin outlived
               PROVE  StepKey(base[w]) \notin steps[RunOf(w)]
    OBVIOUS
  <2>1. RunOf(w) \in Runs
    BY DEF LeaseInv, PlatformInv, TypeInv, JobInv, RunOf, Job
  <2>2. base[w] = Current(RunOf(w)) /\ status[RunOf(w)] = "running"
    BY DEF LeaseInv, HoldsRun, HasCurrent, Executing
  <2> QED
    BY <2>1, <2>2 DEF LeaseInv, PlatformInv, LogInv, RunKey
<1>2. LeaseInv /\ [Next]_vars => [A]_vars
  BY <1>1
<1> QED
  BY <1>2, LeaseInvariant, PTL DEF Spec, SavedStepNotRepeated

\* Runs follow the declared state machine and the recovery sweep, until a lease
\* runs out under a job.
THEOREM RunsFollowLifecycle == Spec => LifecycleWithRecovery
<1> DEFINE A == \A r \in Runs \ outlived : Exists(r) /\ status'[r] # status[r] =>
                  \/ status'[r] \in AllowedTransitions[status[r]]
                  \/ status[r] = "running" /\ status'[r] = "queued"
<1>1. LeaseInv /\ [Next]_vars => [A]_vars
  <2> SUFFICES ASSUME LeaseInv, [Next]_vars, NEW r \in Runs, r \notin outlived,
                      status[r] # "absent", status'[r] # status[r]
               PROVE  \/ status'[r] \in AllowedTransitions[status[r]]
                      \/ status[r] = "running" /\ status'[r] = "queued"
    BY DEF Exists
  <2>1. LeaseEffect(r) /\ RunInv(r)
    BY LeaseEffects DEF LeaseInv
  <2>2. ASSUME NEW w \in Workers, EnteringSave(w), RunOf(w) = r
        PROVE  status[r] = "running"
    BY <2>2 DEF EnteringSave, Save, Executing, LeaseInv, HoldsRun
  <2>3. status[r] \in {"queued", "running", "waiting_approval", "completed",
                       "canceled"}
    BY <2>1 DEF RunInv, LeaseInv, PlatformInv, TypeInv, StoreInv, StoreTypeOK,
       RunStatus
  <2>4. /\ AllowedTransitions["queued"] = {"running", "canceled"}
        /\ AllowedTransitions["running"] =
             {"waiting_approval", "retry_scheduled", "completed", "failed",
              "canceled"}
        /\ AllowedTransitions["waiting_approval"] = {"queued", "canceled"}
    BY DEF AllowedTransitions
  <2>5. CASE \E w \in Workers :
               /\ EnteringSave(w) /\ RunOf(w) = r
               /\ status'[r] = TargetStatus(outcome[w])
    BY <2>2, <2>4, <2>5 DEF TargetStatus
  <2>6. CASE /\ status[r] \in {"queued", "retry_scheduled"}
             /\ status'[r] = "running"
    BY <2>3, <2>4, <2>6
  <2>7. CASE status[r] \notin Terminal \cup {"absent", "running"}
             /\ status'[r] = "canceled"
    BY <2>3, <2>4, <2>7 DEF Terminal
  <2> QED
    BY <2>1, <2>5, <2>6, <2>7 DEF LeaseEffect
<1> QED
  BY <1>1, LeaseInvariant, PTL DEF Spec, LifecycleWithRecovery

\* What a job has still to announce of the answer nobody has announced.
AnswerPending(w) ==
  pc[w] = "emit" /\ RunOf(w) \notin outlived =>
    \A i \in 1..Len(unsent[w]) : unsent[w][i] = "run.completed" =>
      i = Len(unsent[w]) /\ ~Logged(RunOf(w), "run.completed")

AnswerInv == LeaseInv /\ AnswerOnce /\ \A w \in Workers : AnswerPending(w)

\* The answer's outcome ends with the one announcement of completion.
LEMMA AnswerEvents ==
  ASSUME NEW c \in ExecutionCheckpoint, NEW o \in Outcomes(c),
         NEW i \in 1..Len(o.events), o.events[i] = "run.completed"
  PROVE  i = Len(o.events)
<1>1. c.pending_action = "answer"
  BY OutcomeFacts
<1>2. o.events = <<"assistant.message", "run.completed">>
  BY <1>1 DEF Outcomes, AnswerOutcomes
<1> QED
  BY <1>2

\* What one announcement does to the log of each run.
LEMMA EmitEffect ==
  ASSUME TypeInv, NEW w \in Workers, Emit(w)
  PROVE  /\ pc[w] = "emit" /\ RunOf(w) \in Runs
         /\ unsent[w] \in Seq(EventName) /\ unsent[w] # <<>>
         /\ unsent'[w] = Tail(unsent[w]) /\ job' = job
         /\ events'[RunOf(w)] = Append(events[RunOf(w)], Head(unsent[w]))
         /\ \A r \in Runs : events[r] \in Seq(EventName)
         /\ \A r \in Runs : r # RunOf(w) => events'[r] = events[r]
  BY DEF TypeInv, PlatformTypeOK, StoreInv, StoreTypeOK, JobInv, Emit,
     AppendEvent, RunOf, Job

\* An announcement of something else leaves completion as logged as it was.
LEMMA OtherEvents ==
  ASSUME TypeInv, NEW w \in Workers, Emit(w), Head(unsent[w]) # "run.completed"
  PROVE  Logged(RunOf(w), "run.completed")' => Logged(RunOf(w), "run.completed")
<1> DEFINE r == RunOf(w)
<1>1. /\ events[r] \in Seq(EventName)
      /\ events'[r] = Append(events[r], Head(unsent[w]))
      /\ RunOf(w)' = r
  BY EmitEffect DEF RunOf
<1> HIDE DEF r
<1>2. \A i \in 1..Len(events'[r]) :
        events'[r][i] = Head(unsent[w]) \/
          (i \in 1..Len(events[r]) /\ events'[r][i] = events[r][i])
  BY <1>1
<1> QED
  BY <1>1, <1>2 DEF Logged, r

\* A job that is to announce the answer is the only one that may.
LEMMA AnswerPendingNext ==
  ASSUME AnswerInv, [Next]_vars, NEW w \in Workers
  PROVE  AnswerPending(w)'
<1>0. /\ TypeInv /\ PlatformTypeOK /\ PlatformInv /\ AnswerPending(w)
      /\ HoldsRun(w) /\ SingleExecutor
  BY DEF AnswerInv, LeaseInv, PlatformInv, TypeInv
<1> SUFFICES ASSUME pc'[w] = "emit", RunOf(w)' \notin outlived'
             PROVE  AnswerPending(w)'
  BY DEF AnswerPending
<1>a. RunOf(w)' = RunOf(w) /\ RunOf(w) \in Runs
  BY <1>0, ExecutorCases DEF Executing
<1>b. RunOf(w) \notin outlived
  BY <1>0, <1>a, OutlivedStays
<1>1. CASE Same(w)
  <2> SUFFICES ASSUME pc[w] = "emit", NEW i \in 1..Len(unsent[w]),
                      unsent[w][i] = "run.completed"
               PROVE  i = Len(unsent[w]) /\ ~Logged(RunOf(w), "run.completed")'
    BY <1>1 DEF Same, AnswerPending
  <2>1. i = Len(unsent[w]) /\ ~Logged(RunOf(w), "run.completed")
    BY <1>0, <1>b DEF AnswerPending
  <2>2. RunOf(w)' = RunOf(w) /\ RunOf(w) \in Runs
    BY <1>a
  <2>3. events'[RunOf(w)] = events[RunOf(w)]
    <3>1. ASSUME NEW v \in Workers, Emit(v)
          PROVE  events'[RunOf(w)] = events[RunOf(w)]
      <4>1. v # w
        <5>1. Tail(unsent[v]) # unsent[v]
          <6>1. unsent[v] \in Seq(EventName) /\ unsent[v] # <<>>
            BY <1>0, <3>1, EmitEffect
          <6>2. Len(Tail(unsent[v])) # Len(unsent[v])
            BY <6>1
          <6> QED
            BY <6>2
        <5> QED
          BY <1>0, <1>1, <3>1, <5>1, EmitEffect DEF Same
      <4>2. RunOf(v) # RunOf(w)
        BY <1>0, <1>b, <3>1, <4>1, EmitEffect DEF SingleExecutor, Executing
      <4> QED
        BY <1>0, <2>2, <3>1, <4>2, EmitEffect
    <3> QED
      BY <1>0, <3>1, EventEffect
  <2> QED
    BY <2>1, <2>2, <2>3 DEF Logged
<1>2. CASE Unaware(w) \/ Load(w) \/ CheckStep(w) \/ Advance(w)
  <2>1. pc'[w] # "emit"
    BY <1>0, <1>2 DEF PlatformTypeOK, Unaware, Load, CheckStep, Advance, GoTo
  <2> QED
    BY <2>1 DEF AnswerPending
<1>3. CASE Save(w)
  <2>1. /\ unsent'[w] = outcome[w].events /\ RunOf(w)' = RunOf(w)
        /\ RunOf(w) \in Runs /\ pc[w] = "save" /\ events' = events
    BY <1>0, <1>3 DEF PlatformTypeOK, TypeInv, JobInv, Job, Save, RunOf, SaveStep,
       InsertStep, storeVars
  <2>2. base[w] \in ExecutionCheckpoint /\ outcome[w] \in Outcomes(base[w])
    BY <1>0, <2>1 DEF PlatformTypeOK, TypeInv, JobInv
  <2>3. status[RunOf(w)] = "running"
    BY <1>0, <1>b, <2>1 DEF HoldsRun, Executing
  <2>4. ~Logged(RunOf(w), "run.completed")
    BY <1>0, <2>1, <2>3 DEF PlatformInv, EventInv
  <2> QED
    BY <2>1, <2>2, <2>4, AnswerEvents DEF AnswerPending, Logged
<1>4. CASE Emit(w)
  <2> SUFFICES ASSUME NEW i \in 1..Len(Tail(unsent[w])),
                      Tail(unsent[w])[i] = "run.completed"
               PROVE  /\ i = Len(Tail(unsent[w]))
                      /\ ~Logged(RunOf(w), "run.completed")'
    BY <1>0, <1>4, EmitEffect DEF AnswerPending
  <2>1. unsent[w] \in Seq(EventName) /\ unsent[w] # <<>> /\ pc[w] = "emit"
    BY <1>0, <1>4, EmitEffect
  <2>2. /\ i + 1 \in 1..Len(unsent[w]) /\ unsent[w][i + 1] = "run.completed"
        /\ Len(Tail(unsent[w])) = Len(unsent[w]) - 1
    BY <2>1
  <2>3. i + 1 = Len(unsent[w]) /\ ~Logged(RunOf(w), "run.completed")
    BY <1>0, <1>b, <2>1, <2>2 DEF AnswerPending
  <2>4. Head(unsent[w]) # "run.completed"
    <3>1. 1 \in 1..Len(unsent[w]) /\ Head(unsent[w]) = unsent[w][1]
      BY <2>1
    <3> QED
      BY <1>0, <1>b, <2>1, <2>2, <2>3, <3>1 DEF AnswerPending
  <2> QED
    BY <1>0, <1>4, <2>2, <2>3, <2>4, OtherEvents
<1> QED
  BY <1>0, <1>1, <1>2, <1>3, <1>4, WorkerCases

\* Its announcement is the first.
LEMMA AnswerOnceNext ==
  ASSUME AnswerInv, [Next]_vars
  PROVE  AnswerOnce'
<1>0. TypeInv /\ PlatformInv /\ AnswerOnce /\ outlived \subseteq outlived'
  BY OutlivedStays DEF AnswerInv, LeaseInv, PlatformInv
<1>1. CASE events' = events
  BY <1>0, <1>1 DEF AnswerOnce
<1>2. ASSUME NEW w \in Workers, Emit(w) PROVE AnswerOnce'
  <2>1. /\ pc[w] = "emit" /\ RunOf(w) \in Runs
        /\ unsent[w] \in Seq(EventName) /\ unsent[w] # <<>>
        /\ events'[RunOf(w)] = Append(events[RunOf(w)], Head(unsent[w]))
        /\ \A r \in Runs : events[r] \in Seq(EventName)
        /\ \A r \in Runs : r # RunOf(w) => events'[r] = events[r]
    BY <1>0, <1>2, EmitEffect
  <2>2. Head(unsent[w]) = "run.completed" /\ RunOf(w) \notin outlived =>
          ~Logged(RunOf(w), "run.completed")
    <3>1. 1 \in 1..Len(unsent[w]) /\ Head(unsent[w]) = unsent[w][1]
      BY <2>1
    <3> QED
      BY <2>1, <3>1 DEF AnswerInv, AnswerPending
  <2> SUFFICES ASSUME NEW r \in Runs \ outlived', NEW i \in 1..Len(events'[r]),
                      NEW j \in 1..Len(events'[r]),
                      events'[r][i] = "run.completed",
                      events'[r][j] = "run.completed"
               PROVE  i = j
    BY DEF AnswerOnce
  <2>a. r \in Runs /\ r \notin outlived
    BY <1>0
  <2>3. CASE r # RunOf(w)
    BY <1>0, <2>a, <2>1, <2>3 DEF AnswerOnce
  <2>4. CASE r = RunOf(w)
    <3> DEFINE n == Len(events[r]) + 1
    <3>1. \A k \in 1..Len(events'[r]) :
            \/ k = n /\ events'[r][k] = Head(unsent[w])
            \/ k \in 1..Len(events[r]) /\ events'[r][k] = events[r][k]
      BY <2>a, <2>1, <2>4
    <3> HIDE DEF n
    <3>2. CASE Head(unsent[w]) = "run.completed"
      <4>1. \A k \in 1..Len(events[r]) : events[r][k] # "run.completed"
        BY <2>a, <2>2, <2>4, <3>2 DEF Logged
      <4> QED
        BY <3>1, <4>1
    <3>3. CASE Head(unsent[w]) # "run.completed"
      BY <1>0, <2>a, <3>1, <3>3 DEF AnswerOnce
    <3> QED
      BY <3>2, <3>3
  <2> QED
    BY <2>3, <2>4
<1> QED
  BY <1>0, <1>1, <1>2, EventEffect

\* The answer is announced at most once, over all attempts, unless the lease of
\* the run ran out under a job.
THEOREM AnsweredAtMostOnce == Spec => []AnswerOnce
<1>1. Init => AnswerInv
  BY LeaseInvInit DEF Init, StoreInit, AnswerInv, AnswerOnce, AnswerPending
<1>2. AnswerInv /\ [Next]_vars => AnswerInv'
  <2> SUFFICES ASSUME AnswerInv, [Next]_vars PROVE AnswerInv'
    OBVIOUS
  <2>1. LeaseInv'
    BY LeaseInvNext DEF AnswerInv
  <2> QED
    BY <2>1, AnswerOnceNext, AnswerPendingNext DEF AnswerInv
<1>3. AnswerInv => AnswerOnce
  BY DEF AnswerInv
<1> QED
  BY <1>1, <1>2, <1>3, PTL DEF Spec

-----------------------------------------------------------------------------
(* How often the planner is asked. *)

\* The plans behind a checkpoint.
PlannedBy(c) ==
  IF c.pending_action = "plan" THEN c.next_step - 1
  ELSE IF c.next_step > ToolStepLimit THEN ToolStepLimit ELSE c.next_step

LEMMA PlansGrow ==
  ASSUME NEW c \in ExecutionCheckpoint
  PROVE  /\ PlannedBy(c) \in Nat
         /\ PlannedBy(c) <= ToolStepLimit
         /\ c.pending_action = "plan" => PlannedBy(c) + 1 <= ToolStepLimit
         /\ \A o \in Outcomes(c) :
              /\ PlannedBy(o.checkpoint) >= PlannedBy(c)
              /\ c.pending_action = "plan" =>
                   PlannedBy(o.checkpoint) >= PlannedBy(c) + 1
<1>1. /\ c.next_step \in 1..(ToolStepLimit + 1)
      /\ c.pending_action # "answer" => c.next_step <= ToolStepLimit
      /\ ToolStepLimit \in Nat /\ ToolStepLimit >= 1
  BY ToolStepLimitPos DEF ExecutionCheckpoint
<1>2. ASSUME NEW o \in Outcomes(c)
      PROVE  /\ PlannedBy(o.checkpoint) >= PlannedBy(c)
             /\ c.pending_action = "plan" =>
                  PlannedBy(o.checkpoint) >= PlannedBy(c) + 1
  <2>1. CASE o.checkpoint = c /\ (o.waiting \/ o.completed)
    <3>1. c.pending_action # "plan"
      BY <2>1, OutcomeFacts DEF Pausing
    <3> QED
      BY <1>1, <2>1, <3>1 DEF PlannedBy
  <2>2. CASE /\ o.checkpoint.next_step = c.next_step
             /\ \/ /\ c.pending_action = "plan"
                   /\ o.checkpoint.pending_action \in {"tool", "answer"}
                \/ /\ c.pending_action = "tool"
                   /\ o.checkpoint.pending_action = "answer"
    BY <1>1, <2>2 DEF PlannedBy
  <2>3. CASE /\ o.checkpoint.next_step = c.next_step + 1
             /\ o.checkpoint.pending_action \in {"plan", "answer"}
    BY <1>1, <2>3 DEF PlannedBy
  <2> QED
    BY <2>1, <2>2, <2>3, OutcomeShape
<1> QED
  BY <1>1, <1>2 DEF PlannedBy

\* A plan was asked for, or may be, that has no save yet, and no job of the run
\* is about to ask for it again: its job is about to save it, or is gone.
PlanOpen(r) ==
  /\ status[r] = "running"
  /\ Current(r).pending_action = "plan"
  /\ \A w \in Workers : Executing(w) /\ RunOf(w) = r => pc[w] = "save"

\* Every plan that was asked for is behind the checkpoint, is open, or was
\* given up with an attempt.
PlanInv(r) ==
  r \notin outlived =>
    /\ planned[r] <= PlannedBy(Current(r)) + attempt_count[r] + 1
    /\ ~PlanOpen(r) => planned[r] <= PlannedBy(Current(r)) + attempt_count[r]

\* What a step may do to what PlanInv counts.
PlanEffect(r) ==
  \/ \E w \in Workers : Advance(w) /\ RunOf(w) = r
  \/ \E w \in Workers : EnteringSave(w) /\ RunOf(w) = r
  \/ /\ planned'[r] = planned[r] /\ Current(r)' = Current(r)
     /\ attempt_count'[r] = attempt_count[r] + 1
     /\ status'[r] = "queued"
  \/ /\ planned'[r] = planned[r] /\ Current(r)' = Current(r)
     /\ attempt_count'[r] = attempt_count[r]
     /\ status[r] = "running" => status'[r] = "running"
     /\ ~ \E w \in Workers : Save(w) /\ RunOf(w) = r

\* Only the sweep counts attempts.
LEMMA AttemptEffect ==
  ASSUME TypeInv, [Next]_vars, NEW r \in Runs
  PROVE  \/ attempt_count'[r] = attempt_count[r]
         \/ Recover /\ attempt_count'[r] = attempt_count[r] + 1
                     /\ status'[r] = "queued"
<1>0. StoreTypeOK
  BY DEF TypeInv, StoreInv
<1>a. UNCHANGED storeVars => attempt_count' = attempt_count
  BY DEF storeVars, runVars
<1>1. ASSUME NEW q \in Runs, Create(q) \/ Cancel(q) \/ LeaseLapses(q)
      PROVE  attempt_count' = attempt_count
  BY <1>1 DEF Create, CreateRun, Cancel, RequestCancel, LeaseLapses, LeaseExpires
<1>2. ASSUME NEW p \in Dispatchers, Dispatch(p) \/ DispatchStops(p)
      PROVE  attempt_count' = attempt_count
  BY <1>a, <1>2 DEF Dispatch, ListOutbox, Enqueue, MarkPublished,
     MarkOutboxPublished, DispatchStops, runVars
<1>3. ASSUME NEW w \in Workers, JobStep(w) PROVE attempt_count' = attempt_count
  <2>1. CASE Claim(w)
    BY <2>1 DEF Claim, ClaimRun
  <2>2. CASE Save(w)
    BY <1>a, <2>2 DEF Save, SaveStep, InsertStep
  <2>3. CASE Emit(w)
    BY <2>3 DEF Emit, AppendEvent, runVars
  <2>4. CASE ClaimRefused(w) \/ Load(w) \/ CheckStep(w) \/ Advance(w)
             \/ NextStep(w) \/ Boundary(w)
    BY <1>a, <2>4 DEF ClaimRefused, Load, CheckStep, Advance, NextStep, Boundary
  <2> QED
    BY <1>3, <2>1, <2>2, <2>3, <2>4 DEF JobStep
<1>4. ASSUME NEW w \in Workers,
             WorkerCrash(w) \/ JobRaises(w) \/ \E d \in queue : StartJob(w, d)
      PROVE  attempt_count' = attempt_count
  BY <1>a, <1>4 DEF WorkerCrash, JobRaises, StartJob
<1>5. QueueLoss \/ UNCHANGED vars => attempt_count' = attempt_count
  BY <1>a DEF QueueLoss, vars
<1>6. CASE Recover
  <2>1. PICK S \in SUBSET Runs : RequeueExpiredLeases(S)
    BY <1>6 DEF Recover, Expired
  <2>2. /\ status'[r] = IF r \in S THEN "queued" ELSE status[r]
        /\ attempt_count'[r] = IF r \in S THEN attempt_count[r] + 1
                                          ELSE attempt_count[r]
    BY <2>1 DEF RequeueExpiredLeases, Requeue
  <2> QED
    BY <1>6, <2>2
<1> QED
  BY <1>1, <1>2, <1>3, <1>4, <1>5, <1>6 DEF Next

LEMMA PlanEffects ==
  ASSUME LeaseInv, [Next]_vars, NEW r \in Runs, r \notin outlived
  PROVE  PlanEffect(r)
<1>0. TypeInv /\ PlatformInv /\ StoreTypeOK /\ PlatformTypeOK /\ HistoryTypeOK
  BY DEF LeaseInv, PlatformInv, TypeInv, StoreInv
<1>1. CASE \E w \in Workers : Advance(w) /\ RunOf(w) = r
  BY <1>1 DEF PlanEffect
<1>2. CASE \E w \in Workers : EnteringSave(w) /\ RunOf(w) = r
  BY <1>2 DEF PlanEffect
<1>3. CASE /\ ~ \E w \in Workers : Advance(w) /\ RunOf(w) = r
           /\ ~ \E w \in Workers : EnteringSave(w) /\ RunOf(w) = r
  <2>1. planned'[r] = planned[r]
    <3>1. ASSUME NEW w \in Workers, Advance(w) PROVE planned'[r] = planned[r]
      <4>1. RunOf(w) # r
        BY <1>3, <3>1
      <4> QED
        BY <1>0, <3>1, <4>1 DEF Advance, HistoryTypeOK
    <3> QED
      BY <1>0, <3>1, HistoryEffect DEF historyVars
  <2>2. Current(r)' = Current(r)
    <3>1. CASE Quiet
      BY <3>1, QuietKeepsCurrent
    <3>2. CASE \E w \in Workers : EnteringSave(w)
      <4>1. PICK w \in Workers : EnteringSave(w)
        BY <3>2
      <4>2. RunOf(w) \in Runs /\ RunOf(w) # r /\ EnterStep(RunOf(w), outcome[w])
        BY <1>3, <4>1 DEF EnteringSave
      <4> QED
        BY <1>0, <4>2, EnterMovesRun
    <3> QED
      BY <1>0, <3>1, <3>2, StoreEffect DEF PlatformInv
  <2>3. ASSUME NEW w \in Workers, Save(w), RunOf(w) = r PROVE FALSE
    <3>1. base[w] = Current(r) /\ status[r] = "running"
      BY <2>3 DEF LeaseInv, HoldsRun, HasCurrent, Save, Executing
    <3>2. StepKey(base[w]) \notin steps[r]
      BY <1>0, <3>1 DEF PlatformInv, LogInv, RunKey
    <3>3. ~ UNCHANGED storeVars
      <4>1. StepKey(base[w]) \in steps'[r]
        BY <1>0, <2>3, <3>2 DEF Save, SaveStep, InsertStep, StoreTypeOK
      <4> QED
        BY <3>2, <4>1 DEF storeVars
    <3> QED
      BY <1>0, <1>3, <2>3, <3>3, SaveEffect DEF PlatformInv
  <2>4. CASE attempt_count'[r] = attempt_count[r] + 1 /\ status'[r] = "queued"
    BY <2>1, <2>2, <2>4 DEF PlanEffect
  <2>5. CASE attempt_count'[r] = attempt_count[r]
    <3>1. attempt_count[r] \in Nat
      BY <1>0 DEF StoreTypeOK
    <3>2. status[r] = "running" => status'[r] = "running"
      BY <1>0, <1>3, <2>5, <3>1, LeaseEffects DEF LeaseEffect, Terminal
    <3> QED
      BY <2>1, <2>2, <2>3, <2>5, <3>2 DEF PlanEffect
  <2> QED
    BY <1>0, <2>4, <2>5, AttemptEffect
<1> QED
  BY <1>1, <1>2, <1>3

\* Jobs that keep a plan open are still about to save it.
LEMMA OpenStays ==
  ASSUME LeaseInv, [Next]_vars, NEW r \in Runs, PlanOpen(r),
         status'[r] = "running", Current(r)' = Current(r),
         ~ \E w \in Workers : Save(w) /\ RunOf(w) = r
  PROVE  PlanOpen(r)'
<1>0. TypeInv /\ PlatformTypeOK
  BY DEF LeaseInv, PlatformInv, TypeInv
<1>1. ASSUME NEW w \in Workers, Executing(w)', RunOf(w)' = r
      PROVE  pc'[w] = "save"
  <2>1. RunOf(w) = r /\ (Claim(w) \/ Executing(w))
    BY <1>0, <1>1, ExecutorCases
  <2>2. ~Claim(w)
    BY <2>1 DEF Claim, ClaimRun, Claimable, PlanOpen
  <2>3. pc[w] = "save"
    BY <2>1, <2>2 DEF PlanOpen
  <2>4. ~Save(w)
    BY <2>1
  <2>5. Same(w) \/ Unaware(w)
    BY <1>0, <2>3, <2>4, WorkerCases DEF Load, CheckStep, Advance, Emit
  <2>6. ~Unaware(w)
    BY <1>1, <2>3 DEF Unaware, Executing
  <2> QED
    BY <2>3, <2>5, <2>6 DEF Same
<1> QED
  BY <1>1 DEF PlanOpen

LEMMA PlanInvNext ==
  ASSUME LeaseInv, [Next]_vars, NEW r \in Runs, PlanInv(r)
  PROVE  PlanInv(r)'
<1>0. TypeInv /\ PlatformInv /\ StoreTypeOK /\ PlatformTypeOK /\ HistoryTypeOK
  BY DEF LeaseInv, PlatformInv, TypeInv, StoreInv
<1>1. CASE r \in outlived'
  BY <1>1 DEF PlanInv
<1>2. CASE r \notin outlived'
  <2>1. r \notin outlived
    BY <1>0, <1>2, OutlivedStays
  <2>2. /\ planned[r] <= PlannedBy(Current(r)) + attempt_count[r] + 1
        /\ ~PlanOpen(r) => planned[r] <= PlannedBy(Current(r)) + attempt_count[r]
    BY <2>1 DEF PlanInv
  <2>3. Current(r) \in ExecutionCheckpoint
    BY <1>0, FreshCheckpointType DEF Current, StoreTypeOK
  <2>4. PlannedBy(Current(r)) \in Nat /\ planned[r] \in Nat /\ attempt_count[r] \in Nat
    BY <1>0, <2>3, PlansGrow DEF HistoryTypeOK, StoreTypeOK
  <2>5. CASE \E w \in Workers : Advance(w) /\ RunOf(w) = r
    <3>1. PICK w \in Workers : Advance(w) /\ RunOf(w) = r
      BY <2>5
    <3>2. /\ base[w] = Current(r) /\ status[r] = "running"
          /\ Executing(w) /\ pc[w] = "advance"
      BY <2>1, <3>1 DEF LeaseInv, HoldsRun, HasCurrent, Advance, Executing
    <3>3. ~PlanOpen(r)
      BY <3>1, <3>2 DEF PlanOpen
    <3>4. /\ Current(r)' = Current(r) /\ attempt_count' = attempt_count
          /\ status' = status /\ job' = job /\ pc' = [pc EXCEPT ![w] = "save"]
      BY <3>1 DEF Advance, storeVars, runVars, Current, GoTo
    <3>5. CASE Current(r).pending_action = "plan"
      <4>1. planned'[r] = planned[r] + 1
        BY <1>0, <3>1, <3>2, <3>5 DEF Advance, HistoryTypeOK
      <4>2. ASSUME NEW v \in Workers, Executing(v)', RunOf(v)' = r
            PROVE  pc'[v] = "save"
        <5>1. CASE v = w
          BY <1>0, <3>4, <5>1 DEF PlatformTypeOK
        <5>2. CASE v # w
          <6>1. pc'[v] = pc[v] /\ RunOf(v) = r
            BY <1>0, <3>4, <4>2, <5>2 DEF PlatformTypeOK, RunOf
          <6>2. Executing(v)
            BY <4>2, <6>1 DEF Executing
          <6> QED
            BY <2>1, <3>1, <3>2, <5>2, <6>1, <6>2 DEF LeaseInv, SingleExecutor
        <5> QED
          BY <5>1, <5>2
      <4>3. PlanOpen(r)'
        BY <3>2, <3>4, <3>5, <4>2 DEF PlanOpen
      <4>4. PlannedBy(Current(r))' = PlannedBy(Current(r))
        BY <3>4 DEF PlannedBy
      <4> QED
        BY <2>2, <2>4, <3>3, <3>4, <4>1, <4>3, <4>4 DEF PlanInv
    <3>6. CASE Current(r).pending_action # "plan"
      <4>1. planned' = planned
        BY <3>1, <3>2, <3>6 DEF Advance
      <4>2. PlannedBy(Current(r))' = PlannedBy(Current(r))
        BY <3>4 DEF PlannedBy
      <4> QED
        BY <2>2, <2>4, <3>3, <3>4, <4>1, <4>2 DEF PlanInv
    <3> QED
      BY <3>5, <3>6
  <2>6. CASE \E w \in Workers : EnteringSave(w) /\ RunOf(w) = r
    <3>1. PICK w \in Workers : EnteringSave(w) /\ RunOf(w) = r
      BY <2>6
    <3>2. EnterStep(r, outcome[w]) /\ outcome[w] \in Outcomes(Current(r))
      BY <3>1 DEF EnteringSave, EnterStep
    <3>3. Current(r)' = outcome[w].checkpoint
      BY <1>0, <3>2, EnterMovesRun
    <3>4. planned' = planned /\ attempt_count' = attempt_count
      BY <3>1 DEF EnteringSave, Save, SaveStep, InsertStep, storeVars, runVars,
         historyVars
    <3>5. PICK c : c = outcome[w].checkpoint
      OBVIOUS
    <3>6. PlannedBy(Current(r))' = PlannedBy(c)
      BY <3>3, <3>5 DEF PlannedBy
    <3>7. c \in ExecutionCheckpoint
      BY <2>3, <3>2, <3>5, OutcomeType DEF StepOutcome
    <3>8. /\ PlannedBy(c) \in Nat /\ PlannedBy(c) >= PlannedBy(Current(r))
          /\ Current(r).pending_action = "plan" =>
               PlannedBy(c) >= PlannedBy(Current(r)) + 1
      BY <2>3, <3>2, <3>5, <3>7, PlansGrow
    <3>9. Current(r).pending_action # "plan" => ~PlanOpen(r)
      BY DEF PlanOpen
    <3> QED
      BY <2>2, <2>4, <3>4, <3>6, <3>8, <3>9 DEF PlanInv
  <2>7. CASE /\ planned'[r] = planned[r] /\ Current(r)' = Current(r)
             /\ attempt_count'[r] = attempt_count[r] + 1
             /\ status'[r] = "queued"
    <3>1. PlannedBy(Current(r))' = PlannedBy(Current(r))
      BY <2>7 DEF PlannedBy
    <3> QED
      BY <2>2, <2>4, <2>7, <3>1 DEF PlanInv
  <2>8. CASE /\ planned'[r] = planned[r] /\ Current(r)' = Current(r)
             /\ attempt_count'[r] = attempt_count[r]
             /\ status[r] = "running" => status'[r] = "running"
             /\ ~ \E w \in Workers : Save(w) /\ RunOf(w) = r
    <3>1. PlannedBy(Current(r))' = PlannedBy(Current(r))
      BY <2>8 DEF PlannedBy
    <3>2. PlanOpen(r) => PlanOpen(r)'
      BY <2>8, OpenStays DEF PlanOpen
    <3> QED
      BY <2>2, <2>4, <2>8, <3>1, <3>2 DEF PlanInv
  <2> QED
    BY <2>1, <2>5, <2>6, <2>7, <2>8, PlanEffects DEF PlanEffect
<1> QED
  BY <1>1, <1>2

\* At most max_tool_steps plans are saved; the planner is asked at most once more
\* for each recovery, unless the lease of the run ran out under a job.
THEOREM PlannerBudgeted == Spec => []PlanBudget
<1> DEFINE Counted == LeaseInv /\ \A r \in Runs : PlanInv(r)
           Bounded == \A r \in Runs \ outlived :
                        planned[r] <= ToolStepLimit + attempt_count[r]
<1>1. Init => Counted
  <2> SUFFICES ASSUME Init, NEW r \in Runs PROVE PlanInv(r)
    BY LeaseInvInit
  <2>1. /\ planned[r] = 0 /\ attempt_count[r] = 0
        /\ Current(r) = FreshCheckpoint
    BY DEF Init, StoreInit, Current
  <2>2. PlannedBy(FreshCheckpoint) \in Nat
    BY FreshCheckpointType, PlansGrow
  <2> QED
    BY <2>1, <2>2 DEF PlanInv
<1>2. Counted /\ [Next]_vars => Counted'
  BY LeaseInvNext, PlanInvNext
<1>3. Counted => Bounded
  <2> SUFFICES ASSUME Counted, NEW r \in Runs, r \notin outlived
               PROVE  planned[r] <= ToolStepLimit + attempt_count[r]
    OBVIOUS
  <2>1. /\ planned[r] <= PlannedBy(Current(r)) + attempt_count[r] + 1
        /\ ~PlanOpen(r) => planned[r] <= PlannedBy(Current(r)) + attempt_count[r]
    BY DEF PlanInv
  <2>2. /\ StoreTypeOK /\ HistoryTypeOK
    BY DEF LeaseInv, PlatformInv, TypeInv, StoreInv
  <2>3. Current(r) \in ExecutionCheckpoint
    BY <2>2, FreshCheckpointType DEF Current, StoreTypeOK
  <2>4. /\ PlannedBy(Current(r)) \in Nat /\ planned[r] \in Nat
        /\ attempt_count[r] \in Nat /\ ToolStepLimit \in Nat
        /\ PlannedBy(Current(r)) <= ToolStepLimit
        /\ PlanOpen(r) => PlannedBy(Current(r)) + 1 <= ToolStepLimit
    BY <2>2, <2>3, PlansGrow, ToolStepLimitPos
    DEF HistoryTypeOK, StoreTypeOK, PlanOpen
  <2> QED
    BY <2>1, <2>4
<1>4. Log!PlanBudget /\ Bounded => PlanBudget
  BY DEF PlanBudget
<1> HIDE DEF Counted, Bounded
<1> QED
  BY <1>1, <1>2, <1>3, <1>4, PlatformKeepsLog, PTL DEF Spec
=============================================================================
