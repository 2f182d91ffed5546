--------------------------- MODULE RunStoreProofs ---------------------------
(***************************************************************************)
(* What every single operation of the run store preserves.  The facts are  *)
(* stated for StoreOp, "some operation with some arguments", so that each  *)
(* specification built on the store (RunStoreClient, DurableRuns) inherits *)
(* them by showing that its steps are store operations or leave the store  *)
(* alone.                                                                  *)
(***************************************************************************)
EXTENDS RunStore, AgentRuntimeProofs

SaveTarget == {"running", "waiting_approval", "completed"}

RunOp(r) ==
  \/ CreateRun(r)
  \/ \E w \in WorkerIds : ClaimRun(r, w)
  \/ \E w \in WorkerIds : RenewLease(r, w)
  \/ \E w \in WorkerIds : ReleaseLease(r, w)
  \/ \E key \in StepKeyType, c \in ExecutionCheckpoint, t \in SaveTarget :
        SaveStep(r, key, c, t)
  \/ \E a \in ApprovalIds : CreatePendingApproval(r, a)
  \/ RequestCancel(r)
  \/ ScheduleRetry(r)
  \/ \E name \in EventName : AppendEvent(r, name)
  \/ \E v \in Nat : MarkOutboxPublished(r, v)
  \/ LeaseExpires(r)
  \/ RetryBecomesDue(r)

StoreOp ==
  \/ \E r \in Runs : RunOp(r)
  \/ \E a \in ApprovalIds, d \in {"approved", "rejected"} : DecideApproval(a, d)
  \/ \E S \in SUBSET Runs : RequeueExpiredLeases(S)
  \/ \E S \in SUBSET Runs : RequeueDueRetries(S)

-----------------------------------------------------------------------------
\* An approval that is in use belongs to a run, and nothing is stored of a
\* run that does not exist.
WellReferenced ==
  /\ \A a \in ApprovalIds : approval_status[a] # "unused" => approval_run[a] \in Runs
  /\ \A r \in Runs : status[r] = "absent" => version[r] = 0 /\ outbox[r] = {}

StoreInv ==
  /\ StoreTypeOK
  /\ WellReferenced
  /\ OutboxBelowVersion
  /\ QueuedHasDispatch
  /\ LeaseOnlyWhileRunning

\* The tables start well typed and empty.
LEMMA StoreInitInv == StoreInit => StoreInv
  BY NoCheckpointAssumption, OwnerAssumption
  DEF StoreInit, StoreInv, StoreTypeOK, WellReferenced, OutboxBelowVersion,
      QueuedHasDispatch, LeaseOnlyWhileRunning, RunStatus

\* Types are preserved by every operation on one run.
LEMMA RunOpType ==
  ASSUME StoreTypeOK, NEW r \in Runs, RunOp(r)
  PROVE  StoreTypeOK'
<1> USE DEF StoreTypeOK, approvalVars, outboxVars, runVars, ClearLease,
            NextVersion, InsertDispatch, RunStatus
<1>1. CASE CreateRun(r)
  BY <1>1 DEF CreateRun
<1>2. ASSUME NEW w \in WorkerIds, ClaimRun(r, w) PROVE StoreTypeOK'
  BY <1>2 DEF ClaimRun
<1>3. ASSUME NEW w \in WorkerIds, RenewLease(r, w) PROVE StoreTypeOK'
  BY <1>3 DEF RenewLease
<1>4. ASSUME NEW w \in WorkerIds, ReleaseLease(r, w) PROVE StoreTypeOK'
  BY <1>4 DEF ReleaseLease
<1>5. ASSUME NEW key \in StepKeyType, NEW c \in ExecutionCheckpoint,
             NEW t \in SaveTarget, SaveStep(r, key, c, t)
      PROVE  StoreTypeOK'
  <2>1. CASE InsertStep(r, key, c, t)
    <3>1. /\ lease_owner' \in [Runs -> WorkerIds \cup {NoOwner}]
          /\ lease' \in [Runs -> {"none", "live", "expired"}]
      BY <2>1 DEF InsertStep
    <3>2. status' \in [Runs -> RunStatus \cup {"absent"}]
      BY <2>1 DEF InsertStep, SaveTarget
    <3> QED
      BY <2>1, <3>1, <3>2 DEF InsertStep
  <2>2. CASE UNCHANGED storeVars
    BY <2>2 DEF storeVars
  <2> QED
    BY <1>5, <2>1, <2>2 DEF SaveStep
<1>6. ASSUME NEW a \in ApprovalIds, CreatePendingApproval(r, a)
      PROVE  StoreTypeOK'
  <2>1. /\ lease_owner' \in [Runs -> WorkerIds \cup {NoOwner}]
        /\ lease' \in [Runs -> {"none", "live", "expired"}]
    BY <1>6 DEF CreatePendingApproval
  <2>2. status' \in [Runs -> RunStatus \cup {"absent"}]
    BY <1>6 DEF CreatePendingApproval
  <2>3. version' \in [Runs -> Nat]
    BY <1>6 DEF CreatePendingApproval
  <2> QED
    BY <1>6, <2>1, <2>2, <2>3 DEF CreatePendingApproval
<1>7. CASE RequestCancel(r)
  <2>1. /\ lease_owner' \in [Runs -> WorkerIds \cup {NoOwner}]
        /\ lease' \in [Runs -> {"none", "live", "expired"}]
    BY <1>7 DEF RequestCancel
  <2>2. status' \in [Runs -> RunStatus \cup {"absent"}]
    BY <1>7 DEF RequestCancel
  <2>3. version' \in [Runs -> Nat]
    <3>1. version' = version \/ version' = [version EXCEPT ![r] = @ + 1]
      BY <1>7 DEF RequestCancel
    <3> QED
      BY <3>1
  <2> QED
    BY <1>7, <2>1, <2>2, <2>3 DEF RequestCancel
<1>8. CASE ScheduleRetry(r)
  BY <1>8 DEF ScheduleRetry
<1>9. ASSUME NEW name \in EventName, AppendEvent(r, name) PROVE StoreTypeOK'
  BY <1>9 DEF AppendEvent
<1>10. ASSUME NEW v \in Nat, MarkOutboxPublished(r, v) PROVE StoreTypeOK'
  BY <1>10 DEF MarkOutboxPublished
<1>11. CASE LeaseExpires(r)
  BY <1>11 DEF LeaseExpires
<1>12. CASE RetryBecomesDue(r)
  BY <1>12 DEF RetryBecomesDue
<1> QED
  BY <1>1, <1>2, <1>3, <1>4, <1>5, <1>6, <1>7, <1>8, <1>9, <1>10, <1>11, <1>12
  DEF RunOp

\* ... and by every operation at all.
LEMMA StoreOpType == StoreTypeOK /\ WellReferenced /\ StoreOp => StoreTypeOK'
<1> SUFFICES ASSUME StoreTypeOK, WellReferenced, StoreOp PROVE StoreTypeOK'
  OBVIOUS
<1>1. ASSUME NEW r \in Runs, RunOp(r) PROVE StoreTypeOK'
  BY <1>1, RunOpType
<1>2. ASSUME NEW a \in ApprovalIds, NEW d \in {"approved", "rejected"},
             DecideApproval(a, d)
      PROVE  StoreTypeOK'
  BY <1>2 DEF DecideApproval, WellReferenced, StoreTypeOK, NextVersion,
     InsertDispatch, approvalVars, RunStatus
<1>3. ASSUME NEW S \in SUBSET Runs, RequeueExpiredLeases(S) PROVE StoreTypeOK'
  BY <1>3 DEF RequeueExpiredLeases, Requeue, StoreTypeOK, approvalVars, RunStatus
<1>4. ASSUME NEW S \in SUBSET Runs, RequeueDueRetries(S) PROVE StoreTypeOK'
  BY <1>4 DEF RequeueDueRetries, Requeue, StoreTypeOK, approvalVars, RunStatus
<1> QED
  BY <1>1, <1>2, <1>3, <1>4 DEF StoreOp

\* Versions and dispatch records stay together.
LEMMA RunOpOutbox ==
  ASSUME StoreInv, NEW r \in Runs, RunOp(r)
  PROVE  WellReferenced' /\ OutboxBelowVersion' /\ QueuedHasDispatch'
<1> USE OwnerAssumption DEF StoreInv, WellReferenced, OutboxBelowVersion, QueuedHasDispatch,
           Exists, StoreTypeOK, approvalVars, outboxVars, runVars,
           ClearLease, NextVersion, InsertDispatch
<1>1. CASE CreateRun(r)
  BY <1>1 DEF CreateRun
<1>2. ASSUME NEW w \in WorkerIds, ClaimRun(r, w)
      PROVE  WellReferenced' /\ OutboxBelowVersion' /\ QueuedHasDispatch'
  BY <1>2 DEF ClaimRun, Claimable
<1>3. ASSUME NEW w \in WorkerIds, RenewLease(r, w)
      PROVE  WellReferenced' /\ OutboxBelowVersion' /\ QueuedHasDispatch'
  BY <1>3 DEF RenewLease
<1>4. ASSUME NEW w \in WorkerIds, ReleaseLease(r, w)
      PROVE  WellReferenced' /\ OutboxBelowVersion' /\ QueuedHasDispatch'
  BY <1>4 DEF ReleaseLease
<1>5. ASSUME NEW key \in StepKeyType, NEW c \in ExecutionCheckpoint,
             NEW t \in SaveTarget, SaveStep(r, key, c, t)
      PROVE  WellReferenced' /\ OutboxBelowVersion' /\ QueuedHasDispatch'
  <2>1. CASE InsertStep(r, key, c, t)
    BY <2>1 DEF InsertStep, SaveTarget
  <2>2. CASE UNCHANGED storeVars
    BY <2>2 DEF storeVars
  <2> QED
    BY <1>5, <2>1, <2>2 DEF SaveStep
<1>6. ASSUME NEW a \in ApprovalIds, CreatePendingApproval(r, a)
      PROVE  WellReferenced' /\ OutboxBelowVersion' /\ QueuedHasDispatch'
  <2>1. CASE status[r] = "running"
    <3>1. /\ status' = [status EXCEPT ![r] = "waiting_approval"]
          /\ version' = [version EXCEPT ![r] = @ + 1]
          /\ outbox' = outbox
          /\ approval_run' = [approval_run EXCEPT ![a] = r]
          /\ approval_status' = [approval_status EXCEPT ![a] = "pending"]
      BY <1>6, <2>1 DEF CreatePendingApproval
    <3>2. WellReferenced'
      BY <3>1, <2>1
    <3> QED
      BY <3>1, <3>2, <2>1
  <2>2. CASE status[r] # "running"
    BY <1>6, <2>2 DEF CreatePendingApproval
  <2> QED
    BY <2>1, <2>2
<1>7. CASE RequestCancel(r)
  <2>1. CASE status[r] = "running"
    BY <1>7, <2>1 DEF RequestCancel
  <2>2. CASE status[r] # "running"
    <3>1. /\ status' = [status EXCEPT ![r] = "canceled"]
          /\ version' = [version EXCEPT ![r] = @ + 1]
          /\ outbox' = outbox
          /\ approval_run' = approval_run
          /\ approval_status' = approval_status
          /\ status[r] # "absent"
      BY <1>7, <2>2 DEF RequestCancel
    <3>2. WellReferenced'
      BY <3>1
    <3> QED
      BY <3>1, <3>2
  <2> QED
    BY <2>1, <2>2
<1>8. CASE ScheduleRetry(r)
  BY <1>8 DEF ScheduleRetry
<1>9. ASSUME NEW name \in EventName, AppendEvent(r, name)
      PROVE  WellReferenced' /\ OutboxBelowVersion' /\ QueuedHasDispatch'
  BY <1>9 DEF AppendEvent
<1>10. ASSUME NEW v \in Nat, MarkOutboxPublished(r, v)
      PROVE  WellReferenced' /\ OutboxBelowVersion' /\ QueuedHasDispatch'
  BY <1>10 DEF MarkOutboxPublished
<1>11. CASE LeaseExpires(r)
  BY <1>11 DEF LeaseExpires
<1>12. CASE RetryBecomesDue(r)
  BY <1>12 DEF RetryBecomesDue
<1> QED
  BY <1>1, <1>2, <1>3, <1>4, <1>5, <1>6, <1>7, <1>8, <1>9, <1>10, <1>11, <1>12
  DEF RunOp

\* Leaving RUNNING gives the lease up.
LEMMA RunOpLease ==
  ASSUME StoreInv, NEW r \in Runs, RunOp(r)
  PROVE  LeaseOnlyWhileRunning'
<1> USE OwnerAssumption DEF StoreInv, LeaseOnlyWhileRunning, StoreTypeOK, approvalVars, outboxVars, runVars,
           ClearLease, NextVersion, InsertDispatch
<1>1. CASE CreateRun(r)
  BY <1>1 DEF CreateRun, Exists
<1>2. ASSUME NEW w \in WorkerIds, ClaimRun(r, w)
      PROVE  LeaseOnlyWhileRunning'
  BY <1>2 DEF ClaimRun, Claimable
<1>3. ASSUME NEW w \in WorkerIds, RenewLease(r, w)
      PROVE  LeaseOnlyWhileRunning'
  BY <1>3 DEF RenewLease
<1>4. ASSUME NEW w \in WorkerIds, ReleaseLease(r, w)
      PROVE  LeaseOnlyWhileRunning'
  BY <1>4 DEF ReleaseLease
<1>5. ASSUME NEW key \in StepKeyType, NEW c \in ExecutionCheckpoint,
             NEW t \in SaveTarget, SaveStep(r, key, c, t)
      PROVE  LeaseOnlyWhileRunning'
  <2>1. CASE InsertStep(r, key, c, t)
    BY <2>1 DEF InsertStep, SaveTarget
  <2>2. CASE UNCHANGED storeVars
    BY <2>2 DEF storeVars
  <2> QED
    BY <1>5, <2>1, <2>2 DEF SaveStep
<1>6. ASSUME NEW a \in ApprovalIds, CreatePendingApproval(r, a)
      PROVE  LeaseOnlyWhileRunning'
  <2>1. CASE status[r] = "running"
    <3>1. /\ status' = [status EXCEPT ![r] = "waiting_approval"]
          /\ lease_owner' = [lease_owner EXCEPT ![r] = NoOwner]
          /\ lease' = [lease EXCEPT ![r] = "none"]
      BY <1>6, <2>1 DEF CreatePendingApproval
    <3> QED
      BY <3>1
  <2>2. CASE status[r] # "running"
    BY <1>6, <2>2 DEF CreatePendingApproval
  <2> QED
    BY <2>1, <2>2
<1>7. CASE RequestCancel(r)
  BY <1>7 DEF RequestCancel
<1>8. CASE ScheduleRetry(r)
  BY <1>8 DEF ScheduleRetry
<1>9. ASSUME NEW name \in EventName, AppendEvent(r, name)
      PROVE  LeaseOnlyWhileRunning'
  BY <1>9 DEF AppendEvent
<1>10. ASSUME NEW v \in Nat, MarkOutboxPublished(r, v)
      PROVE  LeaseOnlyWhileRunning'
  BY <1>10 DEF MarkOutboxPublished
<1>11. CASE LeaseExpires(r)
  BY <1>11 DEF LeaseExpires
<1>12. CASE RetryBecomesDue(r)
  BY <1>12 DEF RetryBecomesDue
<1> QED
  BY <1>1, <1>2, <1>3, <1>4, <1>5, <1>6, <1>7, <1>8, <1>9, <1>10, <1>11, <1>12
  DEF RunOp

\* A decision requeues a paused run under a fresh version.
LEMMA DecideInv ==
  ASSUME StoreInv, NEW a \in ApprovalIds, NEW d \in {"approved", "rejected"},
         DecideApproval(a, d)
  PROVE  /\ WellReferenced' /\ OutboxBelowVersion' /\ QueuedHasDispatch'
         /\ LeaseOnlyWhileRunning'
<1> DEFINE r == approval_run[a]
<1>1. r \in Runs
  BY DEF StoreInv, WellReferenced, DecideApproval
<1>2. /\ status' = [status EXCEPT ![r] = "queued"]
      /\ version' = [version EXCEPT ![r] = @ + 1]
      /\ outbox' = [outbox EXCEPT ![r] = @ \cup {version[r] + 1}]
      /\ UNCHANGED <<lease_owner, lease, approval_run>>
      /\ approval_status' = [approval_status EXCEPT ![a] = d]
      /\ status[r] = "waiting_approval"
  BY DEF DecideApproval, NextVersion, InsertDispatch
<1> HIDE DEF r
<1>3. WellReferenced'
  BY <1>1, <1>2 DEF StoreInv, WellReferenced, StoreTypeOK, r
<1>4. OutboxBelowVersion' /\ QueuedHasDispatch'
  BY <1>1, <1>2 DEF StoreInv, OutboxBelowVersion, QueuedHasDispatch, StoreTypeOK
<1>5. LeaseOnlyWhileRunning'
  BY <1>1, <1>2 DEF StoreInv, LeaseOnlyWhileRunning, StoreTypeOK
<1> QED
  BY <1>3, <1>4, <1>5

\* So does a sweep, for every run it takes.
LEMMA RequeueInv ==
  ASSUME StoreInv, NEW S \in SUBSET Runs,
         RequeueExpiredLeases(S) \/ RequeueDueRetries(S)
  PROVE  /\ WellReferenced' /\ OutboxBelowVersion' /\ QueuedHasDispatch'
         /\ LeaseOnlyWhileRunning'
<1>1. /\ Requeue(S)
      /\ \A r \in S : status[r] \in {"running", "retry_scheduled"}
  BY DEF RequeueExpiredLeases, RequeueDueRetries, Expired, DueRetries
<1>2. WellReferenced'
  BY <1>1 DEF Requeue, StoreInv, WellReferenced, StoreTypeOK, approvalVars
<1>3. OutboxBelowVersion' /\ QueuedHasDispatch'
  BY <1>1 DEF Requeue, StoreInv, OutboxBelowVersion, QueuedHasDispatch,
     StoreTypeOK
<1>4. ASSUME RequeueExpiredLeases(S) PROVE LeaseOnlyWhileRunning'
  <2>1. /\ status' = [r \in Runs |-> IF r \in S THEN "queued" ELSE status[r]]
        /\ lease_owner' = [r \in Runs |-> IF r \in S THEN NoOwner
                                                      ELSE lease_owner[r]]
        /\ lease' = [r \in Runs |-> IF r \in S THEN "none" ELSE lease[r]]
    BY <1>4 DEF Requeue, RequeueExpiredLeases
  <2>2. ASSUME NEW r \in Runs
        PROVE  /\ lease'[r] # "none" => status'[r] = "running"
               /\ lease'[r] = "none" <=> lease_owner'[r] = NoOwner
    <3>1. /\ lease[r] # "none" => status[r] = "running"
          /\ lease[r] = "none" <=> lease_owner[r] = NoOwner
      BY DEF StoreInv, LeaseOnlyWhileRunning
    <3>2. CASE r \in S
      BY <2>1, <3>1, <3>2
    <3>3. CASE r \notin S
      BY <2>1, <3>1, <3>3
    <3> QED
      BY <3>2, <3>3
  <2> QED
    BY <2>2 DEF LeaseOnlyWhileRunning
<1>5. ASSUME RequeueDueRetries(S) PROVE LeaseOnlyWhileRunning'
  <2>1. /\ status' = [r \in Runs |-> IF r \in S THEN "queued" ELSE status[r]]
        /\ UNCHANGED <<lease_owner, lease>>
        /\ \A r \in S : status[r] = "retry_scheduled"
    BY <1>5 DEF Requeue, RequeueDueRetries, DueRetries
  <2>2. ASSUME NEW r \in Runs
        PROVE  /\ lease'[r] # "none" => status'[r] = "running"
               /\ lease'[r] = "none" <=> lease_owner'[r] = NoOwner
    <3>1. /\ lease[r] # "none" => status[r] = "running"
          /\ lease[r] = "none" <=> lease_owner[r] = NoOwner
      BY DEF StoreInv, LeaseOnlyWhileRunning
    <3>2. CASE r \in S
      BY <2>1, <3>1, <3>2
    <3>3. CASE r \notin S
      BY <2>1, <3>1, <3>3
    <3> QED
      BY <3>2, <3>3
  <2> QED
    BY <2>2 DEF LeaseOnlyWhileRunning
<1>6. LeaseOnlyWhileRunning'
  BY <1>4, <1>5
<1> QED
  BY <1>2, <1>3, <1>6

\* The invariant of the store, whatever operation comes next.
LEMMA StoreOpInv == StoreInv /\ StoreOp => StoreInv'
<1> SUFFICES ASSUME StoreInv, StoreOp PROVE StoreInv'
  OBVIOUS
<1>1. StoreTypeOK'
  BY StoreOpType DEF StoreInv
<1>2. /\ WellReferenced' /\ OutboxBelowVersion' /\ QueuedHasDispatch'
      /\ LeaseOnlyWhileRunning'
  BY RunOpOutbox, RunOpLease, DecideInv, RequeueInv DEF StoreOp
<1> QED
  BY <1>1, <1>2 DEF StoreInv

\* A step that leaves the tables alone keeps it too.
LEMMA StoreStutterInv == StoreInv /\ UNCHANGED storeVars => StoreInv'
  BY DEF StoreInv, StoreTypeOK, WellReferenced, OutboxBelowVersion,
     QueuedHasDispatch, LeaseOnlyWhileRunning, storeVars, runVars, approvalVars,
     outboxVars

-----------------------------------------------------------------------------
(* What a single operation never does. *)

KeepsLease ==
  \A r \in Runs : lease_owner[r] # NoOwner =>
                    lease_owner'[r] \in {lease_owner[r], NoOwner}

FreshRequeue ==
  \A r \in Runs : status[r] # "queued" /\ status'[r] = "queued"
                    => version'[r] \in outbox'[r] \ outbox[r]

OrderedVersion ==
  \A r \in Runs : /\ version'[r] >= version[r]
                  /\ Exists(r) /\ status'[r] # status[r]
                       => version'[r] > version[r]

\* No operation on a run takes a lease from its owner to another worker.
LEMMA RunOpKeepsLease ==
  ASSUME StoreInv, NEW r \in Runs, RunOp(r)
  PROVE  KeepsLease
<1> USE OwnerAssumption DEF StoreInv, KeepsLease, LeaseOnlyWhileRunning,
           StoreTypeOK, approvalVars, outboxVars, runVars,
           ClearLease, NextVersion, InsertDispatch
<1>1. CASE CreateRun(r)
  BY <1>1 DEF CreateRun, Exists
<1>2. ASSUME NEW w \in WorkerIds, ClaimRun(r, w)
      PROVE  KeepsLease
  BY <1>2 DEF ClaimRun, Claimable
<1>3. ASSUME NEW w \in WorkerIds, RenewLease(r, w)
      PROVE  KeepsLease
  BY <1>3 DEF RenewLease
<1>4. ASSUME NEW w \in WorkerIds, ReleaseLease(r, w)
      PROVE  KeepsLease
  BY <1>4 DEF ReleaseLease
<1>5. ASSUME NEW key \in StepKeyType, NEW c \in ExecutionCheckpoint,
             NEW t \in SaveTarget, SaveStep(r, key, c, t)
      PROVE  KeepsLease
  <2>1. CASE InsertStep(r, key, c, t)
    BY <2>1 DEF InsertStep, SaveTarget
  <2>2. CASE UNCHANGED storeVars
    BY <2>2 DEF storeVars
  <2> QED
    BY <1>5, <2>1, <2>2 DEF SaveStep
<1>6. ASSUME NEW a \in ApprovalIds, CreatePendingApproval(r, a)
      PROVE  KeepsLease
  BY <1>6 DEF CreatePendingApproval
<1>7. CASE RequestCancel(r)
  BY <1>7 DEF RequestCancel
<1>8. CASE ScheduleRetry(r)
  BY <1>8 DEF ScheduleRetry
<1>9. ASSUME NEW name \in EventName, AppendEvent(r, name)
      PROVE  KeepsLease
  BY <1>9 DEF AppendEvent
<1>10. ASSUME NEW v \in Nat, MarkOutboxPublished(r, v)
      PROVE  KeepsLease
  BY <1>10 DEF MarkOutboxPublished
<1>11. CASE LeaseExpires(r)
  BY <1>11 DEF LeaseExpires
<1>12. CASE RetryBecomesDue(r)
  BY <1>12 DEF RetryBecomesDue
<1> QED
  BY <1>1, <1>2, <1>3, <1>4, <1>5, <1>6, <1>7, <1>8, <1>9, <1>10, <1>11, <1>12
  DEF RunOp

\* Operations on a run move its version with its status.
LEMMA RunOpVersion ==
  ASSUME StoreInv, NEW r \in Runs, RunOp(r)
  PROVE  FreshRequeue /\ OrderedVersion
<1> USE OwnerAssumption DEF StoreInv, FreshRequeue, OrderedVersion, OutboxBelowVersion,
           WellReferenced, Exists, StoreTypeOK, approvalVars, outboxVars, runVars,
           ClearLease, NextVersion, InsertDispatch
<1>1. CASE CreateRun(r)
  BY <1>1 DEF CreateRun, Exists
<1>2. ASSUME NEW w \in WorkerIds, ClaimRun(r, w)
      PROVE  FreshRequeue /\ OrderedVersion
  BY <1>2 DEF ClaimRun, Claimable
<1>3. ASSUME NEW w \in WorkerIds, RenewLease(r, w)
      PROVE  FreshRequeue /\ OrderedVersion
  BY <1>3 DEF RenewLease
<1>4. ASSUME NEW w \in WorkerIds, ReleaseLease(r, w)
      PROVE  FreshRequeue /\ OrderedVersion
  BY <1>4 DEF ReleaseLease
<1>5. ASSUME NEW key \in StepKeyType, NEW c \in ExecutionCheckpoint,
             NEW t \in SaveTarget, SaveStep(r, key, c, t)
      PROVE  FreshRequeue /\ OrderedVersion
  <2>1. CASE InsertStep(r, key, c, t)
    BY <2>1 DEF InsertStep, SaveTarget
  <2>2. CASE UNCHANGED storeVars
    BY <2>2 DEF storeVars
  <2> QED
    BY <1>5, <2>1, <2>2 DEF SaveStep
<1>6. ASSUME NEW a \in ApprovalIds, CreatePendingApproval(r, a)
      PROVE  FreshRequeue /\ OrderedVersion
  <2>1. \/ UNCHANGED <<status, version>>
        \/ /\ status' = [status EXCEPT ![r] = "waiting_approval"]
           /\ version' = [version EXCEPT ![r] = @ + 1]
    BY <1>6 DEF CreatePendingApproval
  <2> QED
    BY <2>1
<1>7. CASE RequestCancel(r)
  BY <1>7 DEF RequestCancel
<1>8. CASE ScheduleRetry(r)
  BY <1>8 DEF ScheduleRetry
<1>9. ASSUME NEW name \in EventName, AppendEvent(r, name)
      PROVE  FreshRequeue /\ OrderedVersion
  BY <1>9 DEF AppendEvent
<1>10. ASSUME NEW v \in Nat, MarkOutboxPublished(r, v)
      PROVE  FreshRequeue /\ OrderedVersion
  BY <1>10 DEF MarkOutboxPublished
<1>11. CASE LeaseExpires(r)
  BY <1>11 DEF LeaseExpires
<1>12. CASE RetryBecomesDue(r)
  BY <1>12 DEF RetryBecomesDue
<1> QED
  BY <1>1, <1>2, <1>3, <1>4, <1>5, <1>6, <1>7, <1>8, <1>9, <1>10, <1>11, <1>12
  DEF RunOp

\* The same for decisions.
LEMMA DecidePromises ==
  ASSUME StoreInv, NEW a \in ApprovalIds, NEW d \in {"approved", "rejected"},
         DecideApproval(a, d)
  PROVE  KeepsLease /\ FreshRequeue /\ OrderedVersion
<1> DEFINE r == approval_run[a]
<1>1. r \in Runs
  BY DEF StoreInv, WellReferenced, DecideApproval
<1>2. /\ status' = [status EXCEPT ![r] = "queued"]
      /\ version' = [version EXCEPT ![r] = @ + 1]
      /\ outbox' = [outbox EXCEPT ![r] = @ \cup {version[r] + 1}]
      /\ UNCHANGED lease_owner
  BY DEF DecideApproval, NextVersion, InsertDispatch
<1> HIDE DEF r
<1>3. KeepsLease
  BY <1>2 DEF KeepsLease
<1>4. FreshRequeue
  BY <1>1, <1>2 DEF FreshRequeue, StoreInv, OutboxBelowVersion, StoreTypeOK
<1>5. OrderedVersion
  BY <1>1, <1>2 DEF OrderedVersion, StoreInv, StoreTypeOK
<1> QED
  BY <1>3, <1>4, <1>5

\* The same for sweeps.
LEMMA RequeuePromises ==
  ASSUME StoreInv, NEW S \in SUBSET Runs,
         RequeueExpiredLeases(S) \/ RequeueDueRetries(S)
  PROVE  KeepsLease /\ FreshRequeue /\ OrderedVersion
<1>1. Requeue(S)
  BY DEF RequeueExpiredLeases, RequeueDueRetries
<1>2. KeepsLease
  BY DEF KeepsLease, RequeueExpiredLeases, RequeueDueRetries
<1>3. FreshRequeue
  BY <1>1 DEF Requeue, FreshRequeue, StoreInv, OutboxBelowVersion, StoreTypeOK
<1>4. OrderedVersion
  BY <1>1 DEF Requeue, OrderedVersion, StoreInv, StoreTypeOK
<1> QED
  BY <1>2, <1>3, <1>4

\* Every operation keeps the promises on leases and versions.
LEMMA StoreOpPromises ==
  StoreInv /\ StoreOp => KeepsLease /\ FreshRequeue /\ OrderedVersion
  BY RunOpKeepsLease, RunOpVersion, DecidePromises, RequeuePromises DEF StoreOp

\* Doing nothing keeps them.
LEMMA StorePromisesStutter ==
  StoreInv /\ UNCHANGED storeVars => KeepsLease /\ FreshRequeue /\ OrderedVersion
  BY DEF KeepsLease, FreshRequeue, OrderedVersion, storeVars, runVars,
     outboxVars, StoreInv, StoreTypeOK

Decided ==
  \A a \in ApprovalIds :
    approval_status'[a] # approval_status[a] =>
      \/ approval_status[a] = "unused" /\ approval_status'[a] = "pending"
      \/ /\ approval_status[a] = "pending"
         /\ status[approval_run[a]] = "waiting_approval"
         /\ status'[approval_run[a]] = "queued"

\* Approvals move from unused to pending to one decision, and the decision
\* requeues the paused run.
LEMMA StoreOpDecided == StoreInv /\ StoreOp => Decided
<1> SUFFICES ASSUME StoreInv, StoreOp PROVE Decided
  OBVIOUS
<1>1. ASSUME NEW r \in Runs, RunOp(r) PROVE Decided
  <2>1. ASSUME NEW a \in ApprovalIds, CreatePendingApproval(r, a) PROVE Decided
    BY <2>1, NoRunAssumption
    DEF CreatePendingApproval, Decided, StoreInv, WellReferenced, StoreTypeOK
  <2>2. CASE UNCHANGED approval_status
    BY <2>2 DEF Decided
  <2>3. (\E a \in ApprovalIds : CreatePendingApproval(r, a))
        \/ UNCHANGED approval_status
    BY <1>1 DEF RunOp, CreateRun, ClaimRun, RenewLease, ReleaseLease, SaveStep,
       InsertStep, RequestCancel, ScheduleRetry, AppendEvent,
       MarkOutboxPublished, LeaseExpires, RetryBecomesDue, storeVars,
       approvalVars
  <2> QED
    BY <2>1, <2>2, <2>3
<1>2. ASSUME NEW a \in ApprovalIds, NEW d \in {"approved", "rejected"},
             DecideApproval(a, d)
      PROVE  Decided
  <2>1. approval_run[a] \in Runs
    BY <1>2 DEF StoreInv, WellReferenced, DecideApproval
  <2> QED
    BY <1>2, <2>1 DEF DecideApproval, Decided, StoreInv, StoreTypeOK
<1>3. ASSUME NEW S \in SUBSET Runs,
             RequeueExpiredLeases(S) \/ RequeueDueRetries(S)
      PROVE  Decided
  BY <1>3 DEF RequeueExpiredLeases, RequeueDueRetries, Requeue, approvalVars,
     Decided
<1> QED
  BY <1>1, <1>2, <1>3 DEF StoreOp
=============================================================================
