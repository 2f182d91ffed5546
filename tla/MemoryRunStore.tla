--------------------------- MODULE MemoryRunStore ---------------------------
(***************************************************************************)
(* The in-memory run store (InMemoryRunStore of                            *)
(* app/persistence/run_store.py), which the tests of the platform run on.  *)
(* Every method holds one lock and is one action; a method that returns    *)
(* None or False, or raises, is an action that is not enabled.             *)
(*                                                                         *)
(* RunStore maps its tables to these dictionaries (MemoryStoreAgrees): a   *)
(* step of the PostgreSQL store has to be a step of this one.              *)
(***************************************************************************)
EXTENDS AgentRuntime, RunLifecycle

CONSTANTS Runs, WorkerIds, NoOwner, NoCheckpoint, ApprovalIds, NoRun

VARIABLES
  runs,       \* _runs; status "absent" where there is no entry
  step_keys,  \* _steps: the keys of each run
  event_log,  \* _events
  approvals,  \* _approvals; run_id NoRun where there is no entry
  records     \* _outbox: deduplication keys and whether they are published

memoryVars == <<runs, step_keys, event_log, approvals, records>>

NewStoredRun ==
  [status |-> "queued", version |-> 0, attempt_count |-> 0,
   checkpoint |-> NoCheckpoint, lease_owner |-> NoOwner,
   lease_expires_at |-> "none", cancel_requested |-> FALSE,
   next_retry_at |-> "none"]

Init ==
  /\ runs = [r \in Runs |-> [NewStoredRun EXCEPT !.status = "absent"]]
  /\ step_keys = [r \in Runs |-> {}]
  /\ event_log = [r \in Runs |-> <<>>]
  /\ approvals = [a \in ApprovalIds |-> [run_id |-> NoRun, status |-> "unused"]]
  /\ records = {}

Stored(r) == runs[r].status # "absent"

\* A run with a new version, and one without its lease.
Moved(run, new) == [run EXCEPT !.version = @ + 1, !.status = new]
Unleased(run) == [run EXCEPT !.lease_owner = NoOwner, !.lease_expires_at = "none"]

Put(r, run) == runs' = [runs EXCEPT ![r] = run]

\* _add_dispatch_outbox for the runs of S: a key in use is left alone.
AddDispatch(S) ==
  records' = records \cup
    {k \in {[run |-> r, version |-> runs'[r].version, published |-> FALSE] :
              r \in S} : [k EXCEPT !.published = TRUE] \notin records}

-----------------------------------------------------------------------------
CreateRunWithOutbox(r) ==
  /\ ~Stored(r)
  /\ Put(r, NewStoredRun)
  /\ AddDispatch({r})
  /\ UNCHANGED <<step_keys, event_log, approvals>>

ClaimRun(r, w) ==
  /\ runs[r].status \in {"queued", "retry_scheduled"}
  /\ runs[r].lease_expires_at # "live"
  /\ Put(r, [Moved(runs[r], "running") EXCEPT !.lease_owner = w,
                                              !.lease_expires_at = "live"])
  /\ UNCHANGED <<step_keys, event_log, approvals, records>>

RenewLease(r, w) ==
  /\ runs[r].status = "running" /\ runs[r].lease_owner = w
  /\ Put(r, [runs[r] EXCEPT !.lease_expires_at = "live"])
  /\ UNCHANGED <<step_keys, event_log, approvals, records>>

ReleaseLease(r, w) ==
  /\ runs[r].lease_owner = w
  /\ Put(r, Unleased(runs[r]))
  /\ UNCHANGED <<step_keys, event_log, approvals, records>>

\* save_step with a key that is new; any other changes nothing.
SaveStep(r, key, c, target) ==
  LET saved == [Moved(runs[r], target) EXCEPT !.checkpoint = c] IN
  /\ Stored(r) /\ key \notin step_keys[r]
  /\ step_keys' = [step_keys EXCEPT ![r] = @ \cup {key}]
  /\ Put(r, IF target = "running" THEN saved ELSE Unleased(saved))
  /\ UNCHANGED <<event_log, approvals, records>>

\* Only a running run can be given an approval here.
CreatePendingApproval(r, a) ==
  /\ runs[r].status = "running"
  /\ approvals[a].run_id = NoRun
  /\ approvals' = [approvals EXCEPT ![a] = [run_id |-> r, status |-> "pending"]]
  /\ Put(r, Unleased(Moved(runs[r], "waiting_approval")))
  /\ UNCHANGED <<step_keys, event_log, records>>

DecideApproval(a, decision) ==
  LET r == approvals[a].run_id IN
  /\ approvals[a].status = "pending"
  /\ runs[r].status = "waiting_approval"
  /\ approvals' = [approvals EXCEPT ![a].status = decision]
  /\ Put(r, Moved(runs[r], "queued"))
  /\ AddDispatch({r})
  /\ UNCHANGED <<step_keys, event_log>>

RequestCancel(r) ==
  LET asked == [runs[r] EXCEPT !.cancel_requested = TRUE] IN
  /\ Stored(r) /\ runs[r].status \notin Terminal
  /\ Put(r, IF runs[r].status = "running"
              THEN asked ELSE Unleased(Moved(asked, "canceled")))
  /\ UNCHANGED <<step_keys, event_log, approvals, records>>

\* schedule_retry takes a run of any status.
ScheduleRetry(r) ==
  /\ Stored(r)
  /\ Put(r, [Unleased(Moved(runs[r], "retry_scheduled"))
               EXCEPT !.next_retry_at = "scheduled"])
  /\ UNCHANGED <<step_keys, event_log, approvals, records>>

\* The sweeps take the first candidates up to a limit; which, is left open.
RequeueExpiredLeases(S) ==
  /\ S # {}
  /\ \A r \in S : runs[r].status = "running" /\ runs[r].lease_expires_at = "expired"
  /\ runs' = [r \in Runs |->
       IF r \in S THEN [Unleased(Moved(runs[r], "queued"))
                          EXCEPT !.attempt_count = @ + 1]
                  ELSE runs[r]]
  /\ AddDispatch(S)
  /\ UNCHANGED <<step_keys, event_log, approvals>>

RequeueDueRetries(S) ==
  /\ S # {}
  /\ \A r \in S : runs[r].status = "retry_scheduled" /\ runs[r].next_retry_at = "due"
  /\ runs' = [r \in Runs |->
       IF r \in S THEN [Moved(runs[r], "queued") EXCEPT !.next_retry_at = "none"]
                  ELSE runs[r]]
  /\ AddDispatch(S)
  /\ UNCHANGED <<step_keys, event_log, approvals>>

AppendEvent(r, name) ==
  /\ Stored(r)
  /\ event_log' = [event_log EXCEPT ![r] = Append(@, name)]
  /\ UNCHANGED <<runs, step_keys, approvals, records>>

MarkOutboxPublished(k) ==
  /\ k \in records /\ ~k.published
  /\ records' = (records \ {k}) \cup {[k EXCEPT !.published = TRUE]}
  /\ UNCHANGED <<runs, step_keys, event_log, approvals>>

\* The clock passes lease_expires_at or next_retry_at.
TimePasses(r) ==
  /\ \/ /\ runs[r].lease_expires_at = "live"
        /\ Put(r, [runs[r] EXCEPT !.lease_expires_at = "expired"])
     \/ /\ runs[r].next_retry_at = "scheduled"
        /\ Put(r, [runs[r] EXCEPT !.next_retry_at = "due"])
  /\ UNCHANGED <<step_keys, event_log, approvals, records>>

-----------------------------------------------------------------------------
CurrentCheckpoint(r) ==
  IF runs[r].checkpoint = NoCheckpoint THEN FreshCheckpoint
                                       ELSE runs[r].checkpoint

Next ==
  \/ \E r \in Runs :
       \/ CreateRunWithOutbox(r) \/ RequestCancel(r) \/ ScheduleRetry(r)
       \/ TimePasses(r)
       \/ \E w \in WorkerIds :
            ClaimRun(r, w) \/ RenewLease(r, w) \/ ReleaseLease(r, w)
       \/ \E o \in Outcomes(CurrentCheckpoint(r)) :
            SaveStep(r, StepKey(CurrentCheckpoint(r)), o.checkpoint,
                     TargetStatus(o))
       \/ \E a \in ApprovalIds : CreatePendingApproval(r, a)
       \/ \E name \in EventName : AppendEvent(r, name)
  \/ \E a \in ApprovalIds, d \in {"approved", "rejected"} : DecideApproval(a, d)
  \/ \E S \in SUBSET Runs : RequeueExpiredLeases(S) \/ RequeueDueRetries(S)
  \/ \E k \in records : MarkOutboxPublished(k)

Spec == Init /\ [][Next]_memoryVars
=============================================================================
