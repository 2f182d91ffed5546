--------------------------- MODULE RunStoreClient ---------------------------
(***************************************************************************)
(* Callers that drive the run store through its whole interface (the       *)
(* RunStore protocol of app/persistence/run_store.py), in any order: also  *)
(* the methods no caller in the repository combines yet (lease renewal and *)
(* release, pending approvals, scheduled retries), and saves that arrive   *)
(* after the run was requeued, canceled or paused.                         *)
(***************************************************************************)
EXTENDS RunStore

CONSTANTS
  MaxRecoveries, \* bound: expired leases requeued, per run
  MaxRetries     \* bound: retries scheduled, all runs together

ASSUME BoundsAssumption == MaxRecoveries \in Nat /\ MaxRetries \in Nat

VARIABLE retries \* retries scheduled so far

vars == <<storeVars, retries>>

TypeOK == StoreTypeOK /\ retries \in Nat

Init == StoreInit /\ retries = 0

\* Claims, saves the outcome of the current checkpoint, and every other
\* method that concerns one run.
Caller(r) ==
  \/ CreateRun(r)
  \/ \E w \in WorkerIds : ClaimRun(r, w) \/ RenewLease(r, w) \/ ReleaseLease(r, w)
  \/ \E o \in Outcomes(Current(r)) :
        SaveStep(r, StepKey(Current(r)), o.checkpoint, TargetStatus(o))
  \/ \E a \in ApprovalIds : CreatePendingApproval(r, a)
  \/ RequestCancel(r)
  \/ LeaseExpires(r)
  \/ RetryBecomesDue(r)
  \/ \E v \in outbox[r] : MarkOutboxPublished(r, v)

Decide == \E a \in ApprovalIds, d \in {"approved", "rejected"} :
            DecideApproval(a, d)

SweepLeases == \E S \in SUBSET Expired :
                 /\ \A r \in S : attempt_count[r] < MaxRecoveries
                 /\ RequeueExpiredLeases(S)

SweepRetries == \E S \in SUBSET DueRetries : RequeueDueRetries(S)

Retry(r) ==
  /\ retries < MaxRetries
  /\ retries' = retries + 1
  /\ ScheduleRetry(r)

Next ==
  \/ (\E r \in Runs : Caller(r)) /\ UNCHANGED retries
  \/ Decide /\ UNCHANGED retries
  \/ SweepLeases /\ UNCHANGED retries
  \/ SweepRetries /\ UNCHANGED retries
  \/ \E r \in Runs : Retry(r)

Spec == Init /\ [][Next]_vars

-----------------------------------------------------------------------------
(* The tables read as the dictionaries of the in-memory store.             *)

StoredRuns ==
  [r \in Runs |->
     [status |-> status[r], version |-> version[r],
      attempt_count |-> attempt_count[r], checkpoint |-> checkpoint[r],
      lease_owner |-> lease_owner[r], lease_expires_at |-> lease[r],
      cancel_requested |-> cancel_requested[r],
      next_retry_at |-> next_retry[r]]]

StoredApprovals ==
  [a \in ApprovalIds |->
     [run_id |-> approval_run[a], status |-> approval_status[a]]]

OutboxRecords ==
  UNION {{[run |-> r, version |-> v, published |-> v \in published[r]] :
            v \in outbox[r]} : r \in Runs}

Memory == INSTANCE MemoryRunStore
  WITH runs <- StoredRuns, step_keys <- steps, event_log <- events,
       approvals <- StoredApprovals, records <- OutboxRecords

\* PostgreSQL records an approval for a run that is not running; the
\* in-memory store raises.
ApprovalOutOfPlace ==
  \E a \in ApprovalIds :
    /\ approval_run[a] = NoRun /\ approval_run'[a] # NoRun
    /\ status[approval_run'[a]] # "running"

\* With that one exception the PostgreSQL store does nothing to its tables that
\* the in-memory store could not do to its dictionaries in one call.  What only
\* the dictionaries could do, and what calls return, is not compared.
MemoryStoreAgrees ==
  Memory!Init /\ [][ApprovalOutOfPlace \/ Memory!Next]_Memory!memoryVars
=============================================================================
