------------------------------ MODULE RunStore ------------------------------
(***************************************************************************)
(* The PostgreSQL run store (app/persistence/postgres_run_store.py): the   *)
(* tables agent_runs, run_steps, run_events, run_approvals and             *)
(* outbox_events.  Every method of PostgresRunStore is one transaction and *)
(* therefore one action; a conditional UPDATE is its guard.  A caller that *)
(* meets a false guard sees "no row" and the tables do not change.         *)
(*                                                                         *)
(* Time is abstract: a lease is live until LeaseExpires, a scheduled retry *)
(* waits until RetryBecomesDue.                                            *)
(*                                                                         *)
(* This module defines the operations and what the store promises about    *)
(* its tables.  RunStoreClient drives it with callers that may use any     *)
(* method at any moment; DurableRuns composes it with the real callers.    *)
(***************************************************************************)
EXTENDS AgentRuntime, RunLifecycle

CONSTANTS
  Runs,          \* run ids
  WorkerIds,     \* the names workers claim under
  NoOwner,       \* lease_owner IS NULL
  NoCheckpoint,  \* checkpoint_json IS NULL
  ApprovalIds,   \* primary keys of run_approvals
  NoRun          \* an approval id that is not in use

ASSUME OwnerAssumption == NoOwner \notin WorkerIds
ASSUME NoCheckpointAssumption == NoCheckpoint \notin ExecutionCheckpoint
ASSUME NoRunAssumption == NoRun \notin Runs

VARIABLES
  status,           \* agent_runs.status; "absent" before the row exists
  version,          \* agent_runs.version
  attempt_count,    \* agent_runs.attempt_count
  checkpoint,       \* agent_runs.checkpoint_json
  lease_owner,      \* agent_runs.lease_owner
  lease,            \* agent_runs.lease_expires_at: none, live or expired
  cancel_requested, \* agent_runs.cancel_requested_at is set
  next_retry,       \* agent_runs.next_retry_at: none, scheduled or due
  steps,            \* run_steps: the idempotency keys of each run
  events,           \* run_events: the event log of each run
  approval_run,     \* run_approvals.run_id
  approval_status,  \* run_approvals.status
  outbox,           \* outbox_events: the versions with a dispatch record
  published         \* ... and those whose published_at is set

runVars == <<status, version, attempt_count, checkpoint, lease_owner, lease,
             cancel_requested, next_retry>>
approvalVars == <<approval_run, approval_status>>
outboxVars == <<outbox, published>>
storeVars == <<runVars, steps, events, approvalVars, outboxVars>>

StoreTypeOK ==
  /\ status \in [Runs -> RunStatus \cup {"absent"}]
  /\ version \in [Runs -> Nat]
  /\ attempt_count \in [Runs -> Nat]
  /\ checkpoint \in [Runs -> ExecutionCheckpoint \cup {NoCheckpoint}]
  /\ lease_owner \in [Runs -> WorkerIds \cup {NoOwner}]
  /\ lease \in [Runs -> {"none", "live", "expired"}]
  /\ cancel_requested \in [Runs -> BOOLEAN]
  /\ next_retry \in [Runs -> {"none", "scheduled", "due"}]
  /\ steps \in [Runs -> SUBSET StepKeyType]
  /\ events \in [Runs -> Seq(EventName)]
  /\ approval_run \in [ApprovalIds -> Runs \cup {NoRun}]
  /\ approval_status \in [ApprovalIds -> {"unused", "pending", "approved",
                                          "rejected"}]
  /\ outbox \in [Runs -> SUBSET Nat]
  /\ published \in [Runs -> SUBSET Nat]

StoreInit ==
  /\ status = [r \in Runs |-> "absent"]
  /\ version = [r \in Runs |-> 0]
  /\ attempt_count = [r \in Runs |-> 0]
  /\ checkpoint = [r \in Runs |-> NoCheckpoint]
  /\ lease_owner = [r \in Runs |-> NoOwner]
  /\ lease = [r \in Runs |-> "none"]
  /\ cancel_requested = [r \in Runs |-> FALSE]
  /\ next_retry = [r \in Runs |-> "none"]
  /\ steps = [r \in Runs |-> {}]
  /\ events = [r \in Runs |-> <<>>]
  /\ approval_run = [a \in ApprovalIds |-> NoRun]
  /\ approval_status = [a \in ApprovalIds |-> "unused"]
  /\ outbox = [r \in Runs |-> {}]
  /\ published = [r \in Runs |-> {}]

Exists(r) == status[r] # "absent"

\* run.checkpoint or a fresh one: where the next step of a run starts.
Current(r) ==
  IF checkpoint[r] = NoCheckpoint THEN FreshCheckpoint ELSE checkpoint[r]

-----------------------------------------------------------------------------
ClearLease(r) ==
  /\ lease_owner' = [lease_owner EXCEPT ![r] = NoOwner]
  /\ lease' = [lease EXCEPT ![r] = "none"]

NextVersion(r) == version' = [version EXCEPT ![r] = @ + 1]

\* The dispatch record of version v of a run; ON CONFLICT DO NOTHING.
InsertDispatch(r, v) ==
  /\ outbox' = [outbox EXCEPT ![r] = @ \cup {v}]
  /\ UNCHANGED published

CreateRun(r) ==
  /\ ~Exists(r)
  /\ status' = [status EXCEPT ![r] = "queued"]
  /\ InsertDispatch(r, 0)
  /\ UNCHANGED <<version, attempt_count, checkpoint, lease_owner, lease,
                 cancel_requested, next_retry, steps, events, approvalVars>>

\* Mutant of Claimable: a running run may be claimed again.
Claimable_AlsoRunning(r) == status[r] \in {"queued", "retry_scheduled", "running"}

\* Mutant of Claimable: an expired lease alone makes a run eligible.
Claimable_Expired(r) ==
  \/ status[r] \in {"queued", "retry_scheduled"} /\ lease[r] = "none"
  \/ lease[r] = "expired"

\* Mutant of Claimable: only the lease is tested.
Claimable_AnyStatus(r) == Exists(r) /\ lease[r] \in {"none", "expired"}

Claimable(r) ==
  /\ status[r] \in {"queued", "retry_scheduled"}
  /\ lease[r] \in {"none", "expired"}

\* Mutant of ClaimRun: lease_expires_at is not written.
ClaimRun_NoExpiry(r, w) ==
  /\ Claimable(r)
  /\ status' = [status EXCEPT ![r] = "running"]
  /\ lease_owner' = [lease_owner EXCEPT ![r] = w]
  /\ NextVersion(r)
  /\ UNCHANGED <<attempt_count, checkpoint, cancel_requested, next_retry,
                 lease, steps, events, approvalVars, outboxVars>>

ClaimRun(r, w) ==
  /\ Claimable(r)
  /\ status' = [status EXCEPT ![r] = "running"]
  /\ lease_owner' = [lease_owner EXCEPT ![r] = w]
  /\ lease' = [lease EXCEPT ![r] = "live"]
  /\ NextVersion(r)
  /\ UNCHANGED <<attempt_count, checkpoint, cancel_requested, next_retry,
                 steps, events, approvalVars, outboxVars>>

RenewLease(r, w) ==
  /\ status[r] = "running"
  /\ lease_owner[r] = w
  /\ lease' = [lease EXCEPT ![r] = "live"]
  /\ UNCHANGED <<status, version, attempt_count, checkpoint, lease_owner,
                 cancel_requested, next_retry, steps, events, approvalVars,
                 outboxVars>>

ReleaseLease(r, w) ==
  /\ lease_owner[r] = w
  /\ ClearLease(r)
  /\ UNCHANGED <<status, version, attempt_count, checkpoint,
                 cancel_requested, next_retry, steps, events, approvalVars,
                 outboxVars>>

\* Mutant of InsertStep: the run keeps its old checkpoint.
InsertStep_OldCheckpoint(r, key, c, target) ==
  /\ steps' = [steps EXCEPT ![r] = @ \cup {key}]
  /\ status' = [status EXCEPT ![r] = target]
  /\ NextVersion(r)
  /\ IF target = "running" THEN UNCHANGED <<lease_owner, lease>>
                           ELSE ClearLease(r)
  /\ UNCHANGED <<attempt_count, checkpoint, cancel_requested, next_retry,
                 events, approvalVars, outboxVars>>

\* INSERT the step ON CONFLICT (run_id, idempotency_key) DO NOTHING; only
\* an inserted step moves the run, and then whatever status the run has.
InsertStep(r, key, c, target) ==
  /\ steps' = [steps EXCEPT ![r] = @ \cup {key}]
  /\ status' = [status EXCEPT ![r] = target]
  /\ checkpoint' = [checkpoint EXCEPT ![r] = c]
  /\ NextVersion(r)
  /\ IF target = "running" THEN UNCHANGED <<lease_owner, lease>>
                           ELSE ClearLease(r)
  /\ UNCHANGED <<attempt_count, cancel_requested, next_retry, events,
                 approvalVars, outboxVars>>

SaveStep(r, key, c, target) ==
  /\ Exists(r)
  /\ \/ key \notin steps[r] /\ InsertStep(r, key, c, target)
     \/ key \in steps[r] /\ UNCHANGED storeVars

\* The approval row is inserted whatever the status of the run.
CreatePendingApproval(r, a) ==
  /\ Exists(r)
  /\ approval_run[a] = NoRun
  /\ approval_run' = [approval_run EXCEPT ![a] = r]
  /\ approval_status' = [approval_status EXCEPT ![a] = "pending"]
  /\ IF status[r] = "running"
       THEN /\ status' = [status EXCEPT ![r] = "waiting_approval"]
            /\ ClearLease(r)
            /\ NextVersion(r)
       ELSE UNCHANGED <<status, version, lease_owner, lease>>
  /\ UNCHANGED <<attempt_count, checkpoint, cancel_requested, next_retry,
                 steps, events, outboxVars>>

\* Mutant of DecideApproval: the approval need not be pending.
DecideApproval_Again(a, decision) ==
  LET r == approval_run[a] IN
  /\ approval_status[a] # "unused"
  /\ status[r] = "waiting_approval"
  /\ approval_status' = [approval_status EXCEPT ![a] = decision]
  /\ status' = [status EXCEPT ![r] = "queued"]
  /\ NextVersion(r)
  /\ InsertDispatch(r, version[r] + 1)
  /\ UNCHANGED <<attempt_count, checkpoint, lease_owner, lease,
                 cancel_requested, next_retry, steps, events, approval_run>>

\* The decision is recorded on the approval only, not in the checkpoint.
DecideApproval(a, decision) ==
  LET r == approval_run[a] IN
  /\ approval_status[a] = "pending"
  /\ status[r] = "waiting_approval"
  /\ approval_status' = [approval_status EXCEPT ![a] = decision]
  /\ status' = [status EXCEPT ![r] = "queued"]
  /\ NextVersion(r)
  /\ InsertDispatch(r, version[r] + 1)
  /\ UNCHANGED <<attempt_count, checkpoint, lease_owner, lease,
                 cancel_requested, next_retry, steps, events, approval_run>>

\* Mutant of RequestCancel: finished runs are canceled too.
RequestCancel_Finished(r) ==
  /\ status[r] \notin {"absent", "running", "canceled"}
  /\ status' = [status EXCEPT ![r] = "canceled"]
  /\ NextVersion(r)
  /\ ClearLease(r)
  /\ UNCHANGED <<attempt_count, checkpoint, cancel_requested, next_retry,
                 steps, events, approvalVars, outboxVars>>

\* Mutant of RequestCancel: the version stays.
RequestCancel_SameVersion(r) ==
  /\ Exists(r)
  /\ status[r] \notin Terminal \cup {"running"}
  /\ cancel_requested' = [cancel_requested EXCEPT ![r] = TRUE]
  /\ status' = [status EXCEPT ![r] = "canceled"]
  /\ ClearLease(r)
  /\ UNCHANGED <<version, attempt_count, checkpoint, next_retry, steps, events,
                 approvalVars, outboxVars>>

RequestCancel(r) ==
  /\ Exists(r)
  /\ status[r] \notin Terminal
  /\ cancel_requested' = [cancel_requested EXCEPT ![r] = TRUE]
  /\ IF status[r] = "running"
       THEN UNCHANGED <<status, version, lease_owner, lease>>
       ELSE /\ status' = [status EXCEPT ![r] = "canceled"]
            /\ NextVersion(r)
            /\ ClearLease(r)
  /\ UNCHANGED <<attempt_count, checkpoint, next_retry, steps, events,
                 approvalVars, outboxVars>>

ScheduleRetry(r) ==
  /\ status[r] = "running"
  /\ status' = [status EXCEPT ![r] = "retry_scheduled"]
  /\ NextVersion(r)
  /\ next_retry' = [next_retry EXCEPT ![r] = "scheduled"]
  /\ ClearLease(r)
  /\ UNCHANGED <<attempt_count, checkpoint, cancel_requested, steps, events,
                 approvalVars, outboxVars>>

\* lease_expires_at < now is never true of NULL: without a lease a run is
\* not in this set.
Expired == {r \in Runs : status[r] = "running" /\ lease[r] = "expired"}

DueRetries ==
  {r \in Runs : status[r] = "retry_scheduled" /\ next_retry[r] = "due"}

\* Mutant of Requeue: the status changes without a dispatch record.
Requeue_NoDispatch(S) ==
  /\ status' = [r \in Runs |-> IF r \in S THEN "queued" ELSE status[r]]
  /\ version' = [r \in Runs |-> IF r \in S THEN version[r] + 1 ELSE version[r]]
  /\ UNCHANGED <<checkpoint, cancel_requested, steps, events, approvalVars,
                 outboxVars>>

\* Mutant of Requeue: the record is inserted under the version before.
Requeue_OldKey(S) ==
  /\ status' = [r \in Runs |-> IF r \in S THEN "queued" ELSE status[r]]
  /\ version' = [r \in Runs |-> IF r \in S THEN version[r] + 1 ELSE version[r]]
  /\ outbox' = [r \in Runs |-> IF r \in S THEN outbox[r] \cup {version[r]}
                                          ELSE outbox[r]]
  /\ UNCHANGED <<checkpoint, cancel_requested, steps, events, approvalVars,
                 published>>

\* One transaction requeues the set S of runs: LIMIT and SKIP LOCKED may
\* leave any of them for a later sweep.
Requeue(S) ==
  /\ status' = [r \in Runs |-> IF r \in S THEN "queued" ELSE status[r]]
  /\ version' = [r \in Runs |-> IF r \in S THEN version[r] + 1 ELSE version[r]]
  /\ outbox' = [r \in Runs |-> IF r \in S THEN outbox[r] \cup {version[r] + 1}
                                          ELSE outbox[r]]
  /\ UNCHANGED <<checkpoint, cancel_requested, steps, events, approvalVars,
                 published>>

RequeueExpiredLeases(S) ==
  /\ S \subseteq Expired
  /\ S # {}
  /\ Requeue(S)
  /\ attempt_count' = [r \in Runs |-> IF r \in S THEN attempt_count[r] + 1
                                                 ELSE attempt_count[r]]
  /\ lease_owner' = [r \in Runs |-> IF r \in S THEN NoOwner ELSE lease_owner[r]]
  /\ lease' = [r \in Runs |-> IF r \in S THEN "none" ELSE lease[r]]
  /\ UNCHANGED next_retry

RequeueDueRetries(S) ==
  /\ S \subseteq DueRetries
  /\ S # {}
  /\ Requeue(S)
  /\ next_retry' = [r \in Runs |-> IF r \in S THEN "none" ELSE next_retry[r]]
  /\ UNCHANGED <<attempt_count, lease_owner, lease>>

AppendEvent(r, name) ==
  /\ Exists(r)
  /\ events' = [events EXCEPT ![r] = Append(@, name)]
  /\ UNCHANGED <<runVars, steps, approvalVars, outboxVars>>

Unpublished == {d \in Runs \X UNION {outbox[r] : r \in Runs} :
                  d[2] \in outbox[d[1]] \ published[d[1]]}

MarkOutboxPublished(r, v) ==
  /\ v \in outbox[r]
  /\ published' = [published EXCEPT ![r] = @ \cup {v}]
  /\ UNCHANGED <<runVars, steps, events, approvalVars, outbox>>

\* The clock passes lease_expires_at or next_retry_at of a run.
LeaseExpires(r) ==
  /\ lease[r] = "live"
  /\ lease' = [lease EXCEPT ![r] = "expired"]
  /\ UNCHANGED <<status, version, attempt_count, checkpoint, lease_owner,
                 cancel_requested, next_retry, steps, events, approvalVars,
                 outboxVars>>

RetryBecomesDue(r) ==
  /\ next_retry[r] = "scheduled"
  /\ next_retry' = [next_retry EXCEPT ![r] = "due"]
  /\ UNCHANGED <<status, version, attempt_count, checkpoint, lease_owner,
                 lease, cancel_requested, steps, events, approvalVars,
                 outboxVars>>

-----------------------------------------------------------------------------
\* Every record the dispatcher is to send names a version the run has had.
OutboxBelowVersion == \A r \in Runs : outbox[r] \subseteq 0..version[r]

\* A queued run always has a dispatch record under its current version: no
\* sequence of claims, cancellations, decisions, retries and sweeps leaves a
\* run waiting for a message that was never written (the outbox promise of
\* create_run_with_outbox, decide_approval and both requeue methods).
QueuedHasDispatch ==
  \A r \in Runs : status[r] = "queued" => version[r] \in outbox[r]

\* Only running runs hold a lease, and a lease has an owner: every way out of
\* RUNNING gives the lease up, so claim_run's lease test never has to
\* refuse a queued run.
LeaseOnlyWhileRunning ==
  \A r \in Runs : /\ lease[r] # "none" => status[r] = "running"
                  /\ lease[r] = "none" <=> lease_owner[r] = NoOwner

\* A worker never takes over a lease another worker holds, not even an
\* expired one: the sweep has to give the run back first.
NoLeaseTakeover ==
  [][\A r \in Runs : lease_owner[r] # NoOwner =>
                       lease_owner'[r] \in {lease_owner[r], NoOwner}]_storeVars

\* Whenever a run becomes queued its dispatch record is a new one, so the
\* deduplication key of the outbox (and the job id of the queue, which is the
\* same string) never swallows a requeue.
RequeueIsFresh ==
  [][\A r \in Runs : status[r] # "queued" /\ status'[r] = "queued"
        => version'[r] \in outbox'[r] \ outbox[r]]_storeVars

\* The version orders the statuses of a run: it never falls, and a run that
\* changes status gets a higher one.
VersionOrdersStatus ==
  [][\A r \in Runs : /\ version'[r] >= version[r]
                     /\ Exists(r) /\ status'[r] # status[r]
                          => version'[r] > version[r]]_storeVars

\* An approval is decided at most once, and only by putting its paused run
\* back in the queue.
DecidedOnce ==
  [][\A a \in ApprovalIds :
       approval_status'[a] # approval_status[a] =>
         \/ approval_status[a] = "unused" /\ approval_status'[a] = "pending"
         \/ /\ approval_status[a] = "pending"
            /\ status[approval_run[a]] = "waiting_approval"
            /\ status'[approval_run[a]] = "queued"]_storeVars
=============================================================================
