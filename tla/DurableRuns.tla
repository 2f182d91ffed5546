----------------------------- MODULE DurableRuns -----------------------------
(***************************************************************************)
(* The durable execution platform: the API creates and cancels runs, the   *)
(* outbox dispatcher turns committed records into queue messages, workers  *)
(* execute a run step by step, the recovery sweep requeues abandoned runs. *)
(* All of them meet in the run store (RunStore); the queue is ARQ on Redis *)
(* and is modelled from how app/queue and app/worker.py use it.            *)
(*                                                                         *)
(* A worker step is the code between two awaits that matter: each read of  *)
(* the store, the engine's step with its external effect, the save, and    *)
(* each event append are separate actions, so that crashes, lease expiry,  *)
(* cancellation and other workers may come between any two of them.        *)
(***************************************************************************)
EXTENDS RunStore

CONSTANTS
  Workers,        \* job slots: the jobs that may execute at the same time
  Dispatchers,    \* dispatch jobs that may overlap: one starts every second
  WorkerName,     \* the one lease owner every worker process claims under
  NoJob, NoOutcome,
  FaultKinds,     \* the faults that may happen, a subset of AllFaults
  MaxFaults,      \* bound: faults in a behavior
  MaxRecoveries   \* bound: times the sweep requeues one run

AllFaults == {"crash", "error", "claim_error", "dispatch_error", "queue_loss"}

ASSUME WorkerNameAssumption == WorkerName \in WorkerIds
ASSUME FaultAssumption ==
  /\ FaultKinds \subseteq AllFaults
  /\ MaxFaults \in Nat
  /\ MaxRecoveries \in Nat
ASSUME NoJobAssumption == NoJob \notin Runs \X Nat
ASSUME NoOutcomeAssumption == NoOutcome \notin StepOutcome

VARIABLES
  pc,        \* where the job of each worker slot stands
  job,       \* the queue message it executes
  base,      \* the checkpoint execute_next_step has read
  outcome,   \* what the engine's step returned
  unsent,    \* events of the outcome not yet appended
  queue,     \* Redis: jobs not finished, by job id
  results,   \* Redis: finished job ids whose result is still kept
  batch,     \* records a dispatch job listed and has not dealt with
  sending,   \* the record it enqueued and has not marked
  faults,    \* faults so far
  \* History: written by the steps below and read by none of them.
  outlived,  \* runs whose lease ran out under a job that was executing them
  planned    \* how often the planner was asked in a run, over all attempts

workerVars == <<pc, job, base, outcome, unsent>>
queueVars == <<queue, results>>
dispatcherVars == <<batch, sending>>
historyVars == <<outlived, planned>>
platformVars ==
  <<workerVars, queueVars, dispatcherVars, faults, historyVars>>
vars == <<storeVars, platformVars>>

\* A dispatch message is named by its outbox deduplication key: run, version.
Job == Runs \X Nat
Stage == {"idle", "claim", "load", "check", "advance", "save", "emit"}

TypeOK ==
  /\ StoreTypeOK
  /\ pc \in [Workers -> Stage]
  /\ job \in [Workers -> Job \cup {NoJob}]
  /\ base \in [Workers -> ExecutionCheckpoint]
  /\ outcome \in [Workers -> StepOutcome \cup {NoOutcome}]
  /\ unsent \in [Workers -> Seq(EventName)]
  /\ queue \subseteq Job
  /\ results \subseteq Job
  /\ batch \in [Dispatchers -> SUBSET Job]
  /\ sending \in [Dispatchers -> Job \cup {NoJob}]
  /\ faults \in Nat
  /\ outlived \subseteq Runs
  /\ planned \in [Runs -> Nat]

Init ==
  /\ StoreInit
  /\ pc = [w \in Workers |-> "idle"]
  /\ job = [w \in Workers |-> NoJob]
  /\ base = [w \in Workers |-> FreshCheckpoint]
  /\ outcome = [w \in Workers |-> NoOutcome]
  /\ unsent = [w \in Workers |-> <<>>]
  /\ queue = {}
  /\ results = {}
  /\ batch = [p \in Dispatchers |-> {}]
  /\ sending = [p \in Dispatchers |-> NoJob]
  /\ faults = 0
  /\ outlived = {}
  /\ planned = [r \in Runs |-> 0]

RunOf(w) == job[w][1]
GoTo(w, stage) == pc' = [pc EXCEPT ![w] = stage]

\* The jobs between a successful claim and their end.
Executing(w) == pc[w] \in {"load", "check", "advance", "save", "emit"}

-----------------------------------------------------------------------------
(* The API: POST /runs and POST /runs/{id}/cancel. *)
Create(r) == CreateRun(r) /\ UNCHANGED platformVars

Cancel(r) == RequestCancel(r) /\ UNCHANGED platformVars

-----------------------------------------------------------------------------
(* The dispatcher, OutboxService.dispatch_once: a cron job.  A slow one is
   overtaken by the next, which lists the records that are still unmarked. *)
ListOutbox(p) ==
  /\ batch[p] = {} /\ sending[p] = NoJob
  /\ Unpublished # {}
  /\ batch' = [batch EXCEPT ![p] = Unpublished]
  /\ UNCHANGED <<storeVars, workerVars, queueVars, sending, faults,
                 historyVars>>

\* Redis takes a job unless its id is queued, running or has a result.
Enqueue(p, d) ==
  /\ sending[p] = NoJob
  /\ d \in batch[p]
  /\ batch' = [batch EXCEPT ![p] = @ \ {d}]
  /\ sending' = [sending EXCEPT ![p] = d]
  /\ queue' = IF d \in results THEN queue ELSE queue \cup {d}
  /\ UNCHANGED <<storeVars, workerVars, results, faults, historyVars>>

MarkPublished(p) ==
  /\ sending[p] # NoJob
  /\ MarkOutboxPublished(sending[p][1], sending[p][2])
  /\ sending' = [sending EXCEPT ![p] = NoJob]
  /\ UNCHANGED <<workerVars, queueVars, batch, faults, historyVars>>

-----------------------------------------------------------------------------
(* A worker's job: execute_run -> RunOrchestrator.run_to_boundary. *)
StartJob(w, d) ==
  /\ pc[w] = "idle"
  /\ d \in queue
  /\ \A v \in Workers : job[v] # d
  /\ job' = [job EXCEPT ![w] = d]
  /\ GoTo(w, "claim")
  /\ UNCHANGED <<storeVars, base, outcome, unsent, queueVars,
                 dispatcherVars, faults, historyVars>>

\* The slot is free again and remembers nothing of the job.
Leave(w) ==
  /\ GoTo(w, "idle")
  /\ job' = [job EXCEPT ![w] = NoJob]
  /\ base' = [base EXCEPT ![w] = FreshCheckpoint]
  /\ outcome' = [outcome EXCEPT ![w] = NoOutcome]
  /\ unsent' = [unsent EXCEPT ![w] = <<>>]

\* A job that returned or raised: ARQ removes it and keeps its result.
EndJob(w) ==
  /\ Leave(w)
  /\ queue' = queue \ {job[w]}
  /\ results' = results \cup {job[w]}

Claim(w) ==
  /\ pc[w] = "claim"
  /\ ClaimRun(RunOf(w), WorkerName)
  /\ GoTo(w, "load")
  /\ UNCHANGED <<job, base, outcome, unsent, queueVars, dispatcherVars,
                 faults, historyVars>>

\* claim_run matched no row: the message is a duplicate or came too late.
ClaimRefused(w) ==
  /\ pc[w] = "claim"
  /\ ~Claimable(RunOf(w))
  /\ EndJob(w)
  /\ UNCHANGED <<storeVars, dispatcherVars, faults, historyVars>>

\* get_run.  Neither the status nor cancel_requested_at is looked at.
Load(w) ==
  /\ pc[w] = "load"
  /\ base' = [base EXCEPT ![w] = Current(RunOf(w))]
  /\ GoTo(w, "check")
  /\ UNCHANGED <<storeVars, job, outcome, unsent, queueVars, dispatcherVars,
                 faults, historyVars>>

\* get_completed_step: a step already saved under this key is not run again,
\* and the loop of run_to_boundary starts over.
CheckStep(w) ==
  /\ pc[w] = "check"
  /\ GoTo(w, IF StepKey(base[w]) \in steps[RunOf(w)] THEN "load" ELSE "advance")
  /\ UNCHANGED <<storeVars, job, base, outcome, unsent, queueVars,
                 dispatcherVars, faults, historyVars>>

\* runtime.advance: language model, tool, external effect.
Advance(w) ==
  /\ pc[w] = "advance"
  /\ \E o \in Outcomes(base[w]) : outcome' = [outcome EXCEPT ![w] = o]
  /\ GoTo(w, "save")
  /\ planned' = IF base[w].pending_action = "plan"
                  THEN [planned EXCEPT ![RunOf(w)] = @ + 1] ELSE planned
  /\ UNCHANGED <<storeVars, job, base, unsent, queueVars, dispatcherVars,
                 faults, outlived>>

\* Mutant of Save: the key is derived from the new checkpoint.
Save_NewKey(w) ==
  /\ pc[w] = "save"
  /\ SaveStep(RunOf(w), StepKey(outcome[w].checkpoint), outcome[w].checkpoint,
              TargetStatus(outcome[w]))
  /\ unsent' = [unsent EXCEPT ![w] = outcome[w].events]
  /\ GoTo(w, "emit")
  /\ UNCHANGED <<job, base, outcome, queueVars, dispatcherVars,
                 faults, historyVars>>

Save(w) ==
  /\ pc[w] = "save"
  /\ SaveStep(RunOf(w), StepKey(base[w]), outcome[w].checkpoint,
              TargetStatus(outcome[w]))
  /\ unsent' = [unsent EXCEPT ![w] = outcome[w].events]
  /\ GoTo(w, "emit")
  /\ UNCHANGED <<job, base, outcome, queueVars, dispatcherVars,
                 faults, historyVars>>

\* append_event, then a publish that only wakes listeners.
Emit(w) ==
  /\ pc[w] = "emit"
  /\ unsent[w] # <<>>
  /\ AppendEvent(RunOf(w), Head(unsent[w]))
  /\ unsent' = [unsent EXCEPT ![w] = Tail(@)]
  /\ UNCHANGED <<pc, job, base, outcome, queueVars, dispatcherVars,
                 faults, historyVars>>

\* Mutant of NextStep: a paused run does not end the loop.
NextStep_WhenWaiting(w) ==
  /\ pc[w] = "emit"
  /\ unsent[w] = <<>>
  /\ ~outcome[w].completed
  /\ GoTo(w, "load")
  /\ outcome' = [outcome EXCEPT ![w] = NoOutcome]
  /\ UNCHANGED <<storeVars, job, base, unsent, queueVars, dispatcherVars,
                 faults, historyVars>>

NextStep(w) ==
  /\ pc[w] = "emit"
  /\ unsent[w] = <<>>
  /\ ~outcome[w].waiting /\ ~outcome[w].completed
  /\ GoTo(w, "load")
  /\ outcome' = [outcome EXCEPT ![w] = NoOutcome]
  /\ UNCHANGED <<storeVars, job, base, unsent, queueVars, dispatcherVars,
                 faults, historyVars>>

Boundary(w) ==
  /\ pc[w] = "emit"
  /\ unsent[w] = <<>>
  /\ outcome[w].waiting \/ outcome[w].completed
  /\ EndJob(w)
  /\ UNCHANGED <<storeVars, dispatcherVars, faults, historyVars>>

-----------------------------------------------------------------------------
(* Time and the recovery sweep (recover_runs every five seconds). *)
\* Nothing renews a lease, and a job may run longer than one lasts.
LeaseLapses(r) ==
  /\ LeaseExpires(r)
  /\ outlived' = IF \E w \in Workers : Executing(w) /\ RunOf(w) = r
                   THEN outlived \cup {r} ELSE outlived
  /\ UNCHANGED <<workerVars, queueVars, dispatcherVars, faults, planned>>

Recover ==
  /\ \E S \in SUBSET Expired :
       /\ \A r \in S : attempt_count[r] < MaxRecoveries
       /\ RequeueExpiredLeases(S)
  /\ UNCHANGED platformVars

-----------------------------------------------------------------------------
(* Faults. *)
Fault(kind) ==
  /\ kind \in FaultKinds
  /\ faults < MaxFaults
  /\ faults' = faults + 1

\* The worker process dies.  The job never finished, so ARQ delivers it again.
WorkerCrash(w) ==
  /\ Fault("crash")
  /\ pc[w] # "idle"
  /\ Leave(w)
  /\ UNCHANGED <<storeVars, queueVars, dispatcherVars, historyVars>>

\* An exception (the model provider, the database, Redis) or job_timeout ends
\* the job; run_to_boundary handles neither, and ARQ does not run it again.
JobRaises(w) ==
  /\ \/ Executing(w) /\ Fault("error")
     \/ pc[w] = "claim" /\ Fault("claim_error")
  /\ EndJob(w)
  /\ UNCHANGED <<storeVars, dispatcherVars, historyVars>>

\* A dispatch job stops between two of its calls and loses its list.
DispatchStops(p) ==
  /\ Fault("dispatch_error")
  /\ batch[p] # {} \/ sending[p] # NoJob
  /\ batch' = [batch EXCEPT ![p] = {}]
  /\ sending' = [sending EXCEPT ![p] = NoJob]
  /\ UNCHANGED <<storeVars, workerVars, queueVars, historyVars>>

\* Redis restarts empty.  Jobs in progress go on.
QueueLoss ==
  /\ Fault("queue_loss")
  /\ queue' = {} /\ results' = {}
  /\ UNCHANGED <<storeVars, workerVars, dispatcherVars, historyVars>>

-----------------------------------------------------------------------------
\* One job's own progress: everything but what is done to it.
JobStep(w) ==
  \/ Claim(w) \/ ClaimRefused(w)
  \/ Load(w) \/ CheckStep(w) \/ Advance(w) \/ Save(w) \/ Emit(w)
  \/ NextStep(w) \/ Boundary(w)

Dispatch(p) ==
  ListOutbox(p) \/ (\E d \in batch[p] : Enqueue(p, d)) \/ MarkPublished(p)

Next ==
  \/ \E r \in Runs : Create(r) \/ Cancel(r) \/ LeaseLapses(r)
  \/ \E p \in Dispatchers : Dispatch(p) \/ DispatchStops(p)
  \/ \E w \in Workers : JobStep(w) \/ (\E d \in queue : StartJob(w, d))
  \/ Recover
  \/ \E w \in Workers : WorkerCrash(w) \/ JobRaises(w)
  \/ QueueLoss

Spec == Init /\ [][Next]_vars

\* Fairness.  ARQ polls its queue and runs its cron jobs as long as a worker
\* process is up, an executing job always gets to its next await, and time
\* passes.  Nothing makes a fault, a cancellation or a new run happen.
Fairness ==
  /\ \A p \in Dispatchers : WF_vars(Dispatch(p))
  /\ WF_vars(Recover)
  /\ \A w \in Workers : WF_vars(JobStep(w))
  /\ \A r \in Runs : WF_vars(LeaseLapses(r))
  /\ WF_vars(\E w \in Workers, d \in queue : StartJob(w, d))

FairSpec == Spec /\ Fairness

-----------------------------------------------------------------------------
(* What holds whatever the leases do. *)

\* The platform implements the sequential step log.
Log == INSTANCE StepLog WITH
         current <- [r \in Runs |-> Current(r)],
         done <- steps

StepLogSpec == Log!Spec

\* The step budget, over all attempts.  At most max_tool_steps plans (one if
\* that is less) are saved for a run, whatever happens.  The planner may be
\* asked more often, since a plan that is lost before its save is asked for
\* again, but not more than once more for each time the sweep took the run
\* back (attempt_count), unless the run's lease ran out under a job.
PlanBudget ==
  /\ Log!PlanBudget
  /\ \A r \in Runs \ outlived : planned[r] <= ToolStepLimit + attempt_count[r]

\* Steps are entered in execution order, whoever saves, and however late.
EntersInOrder == Log!EntersInOrder

\* A worker between reading the run and saving its step has the current
\* checkpoint, or a step of that key is already saved.
BaseCurrentOrSaved ==
  \A w \in Workers :
    pc[w] \in {"check", "advance", "save"} =>
      \/ base[w] = Current(RunOf(w))
      \/ StepKey(base[w]) \in steps[RunOf(w)]

\* No lost update: a save that enters a step was computed from the
\* checkpoint it replaces, even when the worker lost its lease long ago
\* (save_step tests neither owner nor version; the unique key is the fence).
SaveBuildsOnCurrent ==
  [][\A w \in Workers :
       pc[w] = "save" /\ steps' # steps /\ pc'[w] = "emit"
         => base[w] = Current(RunOf(w))]_vars

\* A run that can still be executed has not yet taken its next step, so the
\* job that claims it has a step to take.  A job that does find its key saved
\* loops over load and check until job_timeout: that happens only to one
\* whose lease ran out while it executed the run.
RunnableIsFresh ==
  /\ \A r \in Runs : status[r] \in {"queued", "running"} =>
                       StepKey(Current(r)) \notin steps[r]
  /\ \A w \in Workers :
       pc[w] = "check" /\ StepKey(base[w]) \in steps[RunOf(w)] =>
         RunOf(w) \in outlived

\* COMPLETED is final: no late save, sweep or cancellation touches the run.
CompletedIsFinal ==
  [][\A r \in Runs : status[r] = "completed" =>
       /\ status'[r] = "completed"
       /\ checkpoint'[r] = checkpoint[r]
       /\ steps'[r] = steps[r]]_vars

Logged(r, name) == \E i \in 1..Len(events[r]) : events[r][i] = name

\* The event log announces only what was committed before: events are
\* appended after the save, also by a worker whose own save lost the race.
AnnouncementsAreTrue ==
  \A r \in Runs :
    /\ Logged(r, "run.completed") => status[r] = "completed"
    /\ Logged(r, "run.waiting_approval") =>
         status[r] \in {"waiting_approval", "canceled"}

\* A tool that needs approval is executed by no worker: nothing on this
\* platform ever sets approval_decision.
NoToolWithoutApproval ==
  [][\A w \in Workers :
       pc'[w] = "save" /\ pc[w] # "save" =>
         outcome'[w].ran \notin ApprovalTools]_vars

(* What holds of a run as long as no lease of it ran out under a job that
   was executing it.  Such a run is "outlived", and stays so. *)

\* Runs move as the declared state machine says, except that the recovery
\* sweep takes a running run back to the queue.
LifecycleWithRecovery ==
  [][\A r \in Runs \ outlived : Exists(r) /\ status'[r] # status[r] =>
       \/ status'[r] \in AllowedTransitions[status[r]]
       \/ status[r] = "running" /\ status'[r] = "queued"]_vars

\* Two jobs never execute the same run at the same time.
SingleExecutor ==
  \A v, w \in Workers :
    /\ Executing(v) /\ Executing(w)
    /\ RunOf(v) = RunOf(w) /\ RunOf(w) \notin outlived
    => v = w

\* A saved step is never executed again.
SavedStepNotRepeated ==
  [][\A w \in Workers :
       pc[w] = "advance" /\ pc'[w] = "save" /\ RunOf(w) \notin outlived =>
         StepKey(base[w]) \notin steps[RunOf(w)]]_vars

\* The answer is announced at most once, over all attempts.
AnswerOnce ==
  \A r \in Runs \ outlived : \A i, j \in 1..Len(events[r]) :
    events[r][i] = "run.completed" /\ events[r][j] = "run.completed" => i = j

\* A running run is executed by some job, or holds a lease whose expiry will
\* give it back: no run is abandoned.
NoneAbandoned ==
  \A r \in Runs \ outlived : status[r] = "running" =>
    \/ lease[r] # "none"
    \/ \E w \in Workers : Executing(w) /\ RunOf(w) = r

\* A run that is accepted reaches its answer, an approval or a cancellation,
\* whatever crashes.
EveryRunSettles ==
  \A r \in Runs :
    Exists(r) ~> \/ status[r] \in {"completed", "waiting_approval", "canceled"}
                 \/ r \in outlived

\* No job executes for ever.
EveryJobEnds ==
  \A w \in Workers :
    pc[w] # "idle" ~> pc[w] = "idle" \/ RunOf(w) \in outlived

(* What the design says of every run, and the code does not keep. *)

\* "A completed step with the same idempotency key is reused rather than
\* executed again", whoever executes the run and however long it takes.
CompletedStepIsReused ==
  [][\A w \in Workers :
       pc[w] = "advance" /\ pc'[w] = "save" =>
         StepKey(base[w]) \notin steps[RunOf(w)]]_vars

=============================================================================
