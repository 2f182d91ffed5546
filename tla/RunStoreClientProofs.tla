------------------------ MODULE RunStoreClientProofs ------------------------
(***************************************************************************)
(* What the run store promises to callers that use its methods in any      *)
(* order: the invariants and action properties of the run MCRunStore, for  *)
(* every set of runs, workers, tools and approvals and every bound.        *)
(***************************************************************************)
EXTENDS RunStoreClient, RunStoreProofs

\* The step a caller saves is a store operation with typed arguments.
LEMMA CallerSave ==
  ASSUME StoreInv, NEW r \in Runs, NEW o \in Outcomes(Current(r)),
         SaveStep(r, StepKey(Current(r)), o.checkpoint, TargetStatus(o))
  PROVE  RunOp(r)
<1>1. Current(r) \in ExecutionCheckpoint
  BY FreshCheckpointType DEF Current, StoreInv, StoreTypeOK
<1>2. o \in StepOutcome
  BY <1>1, OutcomeType
<1>3. o.checkpoint \in ExecutionCheckpoint
  BY <1>2 DEF StepOutcome
<1>4. TargetStatus(o) \in SaveTarget
  BY DEF TargetStatus, SaveTarget
<1> QED
  BY <1>1, <1>3, <1>4, StepKeyIsKey DEF RunOp

\* Every step of the callers is a store operation.
LEMMA NextIsStoreOp == StoreInv /\ Next => StoreOp
<1> SUFFICES ASSUME StoreInv, Next PROVE StoreOp
  OBVIOUS
<1>1. ASSUME NEW r \in Runs, Caller(r) PROVE RunOp(r)
  <2>1. outbox[r] \subseteq Nat
    BY DEF StoreInv, StoreTypeOK
  <2> QED
    BY <1>1, <2>1, CallerSave DEF Caller, RunOp
<1>2. CASE Decide
  BY <1>2 DEF Decide, StoreOp
<1>3. CASE SweepLeases
  BY <1>3 DEF SweepLeases, StoreOp, Expired
<1>4. CASE SweepRetries
  BY <1>4 DEF SweepRetries, StoreOp, DueRetries
<1>5. ASSUME NEW r \in Runs, Retry(r) PROVE StoreOp
  BY <1>5 DEF Retry, RunOp, StoreOp
<1> QED
  BY <1>1, <1>2, <1>3, <1>4, <1>5 DEF Next, StoreOp

\* The invariant of the store holds in every state.
LEMMA StoreInvariant == Spec => []StoreInv
<1>1. Init => StoreInv
  BY StoreInitInv DEF Init
<1>2. StoreInv /\ [Next]_vars => StoreInv'
  <2>1. StoreInv /\ Next => StoreInv'
    BY NextIsStoreOp, StoreOpInv
  <2>2. StoreInv /\ UNCHANGED vars => StoreInv'
    BY StoreStutterInv DEF vars
  <2> QED
    BY <2>1, <2>2
<1> QED
  BY <1>1, <1>2, PTL DEF Spec

\* Every table of the store stays well typed.
THEOREM StoreTypeCorrect == Spec => []TypeOK
<1>1. Init => retries \in Nat
  BY DEF Init
<1>2. retries \in Nat /\ [Next]_vars => (retries \in Nat)'
  BY DEF Next, Retry, vars
<1>3. StoreInv /\ retries \in Nat => TypeOK
  BY DEF StoreInv, TypeOK
<1> QED
  BY <1>1, <1>2, <1>3, StoreInvariant, PTL DEF Spec

\* A queued run always has a dispatch record under its current version.
THEOREM QueuedAlwaysDispatched == Spec => []QueuedHasDispatch
<1>1. StoreInv => QueuedHasDispatch
  BY DEF StoreInv
<1> QED
  BY <1>1, StoreInvariant, PTL

\* Only running runs hold leases.
THEOREM LeasesOnlyRunning == Spec => []LeaseOnlyWhileRunning
<1>1. StoreInv => LeaseOnlyWhileRunning
  BY DEF StoreInv
<1> QED
  BY <1>1, StoreInvariant, PTL

\* What one step of the callers promises about leases, versions, approvals.
LEMMA NextPromises ==
  StoreInv /\ [Next]_vars =>
    /\ [KeepsLease]_storeVars
    /\ [FreshRequeue]_storeVars
    /\ [OrderedVersion]_storeVars
    /\ [Decided]_storeVars
  BY NextIsStoreOp, StoreOpPromises, StoreOpDecided DEF vars

\* No worker takes over a lease that another one holds.
THEOREM LeaseNeverTakenOver == Spec => NoLeaseTakeover
<1>1. StoreInv /\ [Next]_vars => [KeepsLease]_storeVars
  BY NextPromises
<1> QED
  BY <1>1, StoreInvariant, PTL DEF Spec, NoLeaseTakeover, KeepsLease

\* Every requeue has a dispatch record of its own.
THEOREM RequeueAlwaysFresh == Spec => RequeueIsFresh
<1>1. StoreInv /\ [Next]_vars => [FreshRequeue]_storeVars
  BY NextPromises
<1> QED
  BY <1>1, StoreInvariant, PTL DEF Spec, RequeueIsFresh, FreshRequeue

\* The version of a run never falls and separates its statuses.
THEOREM VersionsOrdered == Spec => VersionOrdersStatus
<1>1. StoreInv /\ [Next]_vars => [OrderedVersion]_storeVars
  BY NextPromises
<1> QED
  BY <1>1, StoreInvariant, PTL DEF Spec, VersionOrdersStatus, OrderedVersion

\* An approval is decided at most once, and requeues its run.
THEOREM ApprovalDecidedOnce == Spec => DecidedOnce
<1>1. StoreInv /\ [Next]_vars => [Decided]_storeVars
  BY NextPromises
<1> QED
  BY <1>1, StoreInvariant, PTL DEF Spec, DecidedOnce, Decided

-----------------------------------------------------------------------------
(* The PostgreSQL store implements the in-memory one.                      *)

\* What the refinement needs beyond StoreInv: only records in the outbox are
\* published, and a run without a row has the values of a new one.
BlankUntilCreated ==
  /\ \A r \in Runs : published[r] \subseteq outbox[r]
  /\ \A r \in Runs : ~Exists(r) =>
       /\ attempt_count[r] = 0 /\ checkpoint[r] = NoCheckpoint
       /\ cancel_requested[r] = FALSE /\ next_retry[r] = "none"

\* The records of the outbox, one by one.
LEMMA RecordOf ==
  ASSUME NEW k
  PROVE  k \in OutboxRecords <=>
           \E r \in Runs : \E v \in outbox[r] :
             k = [run |-> r, version |-> v, published |-> v \in published[r]]
  BY DEF OutboxRecords

\* ... and of the outbox after the step.
LEMMA RecordOfNext ==
  ASSUME NEW k
  PROVE  k \in OutboxRecords' <=>
           \E r \in Runs : \E v \in outbox'[r] :
             k = [run |-> r, version |-> v, published |-> v \in published'[r]]
  BY DEF OutboxRecords

\* Publishing a record writes one field.
LEMMA PublishField ==
  ASSUME NEW r, NEW v, NEW old, NEW new
  PROVE  [[run |-> r, version |-> v, published |-> old] EXCEPT !.published = new]
           = [run |-> r, version |-> v, published |-> new]
  OBVIOUS

\* Dispatch records of new versions are what _add_dispatch_outbox adds.
LEMMA DispatchAdded ==
  ASSUME BlankUntilCreated, NEW S \in SUBSET Runs,
         published' = published,
         \A r \in S : version'[r] \notin outbox[r],
         \A r \in Runs : outbox'[r] = IF r \in S THEN outbox[r] \cup {version'[r]}
                                                 ELSE outbox[r]
  PROVE  Memory!AddDispatch(S)
<1> DEFINE New(r) == [run |-> r, version |-> version'[r], published |-> FALSE]
           Sent(r) == [run |-> r, version |-> version'[r], published |-> TRUE]
<1>1. \A r \in S : StoredRuns'[r].version = version'[r]
  BY DEF StoredRuns
<1>2. ASSUME NEW r \in S PROVE Sent(r) \notin OutboxRecords
  BY RecordOf
<1>3. ASSUME NEW r \in S
      PROVE  New(r) = [run |-> r, version |-> version'[r],
                       published |-> version'[r] \in published'[r]]
  <2>1. version'[r] \notin published'[r]
    BY DEF BlankUntilCreated
  <2>2. (version'[r] \in published'[r]) = FALSE
    BY <2>1, SMT
  <2> QED
    BY <2>2, Zenon
<1>4. OutboxRecords' = OutboxRecords \cup {New(r) : r \in S}
  <2>1. ASSUME NEW k \in OutboxRecords' PROVE k \in OutboxRecords \cup {New(r) : r \in S}
    <3>0. PICK r \in Runs : \E v \in outbox'[r] :
            k = [run |-> r, version |-> v, published |-> v \in published'[r]]
      BY RecordOfNext
    <3>1. PICK v \in outbox'[r] :
            k = [run |-> r, version |-> v, published |-> v \in published'[r]]
      BY <3>0
    <3>2. CASE v \in outbox[r]
      BY <3>1, <3>2, RecordOf
    <3>3. CASE v \notin outbox[r]
      <4>1. r \in S /\ v = version'[r]
        BY <3>3
      <4> QED
        BY <4>1, <3>1, <1>3
    <3> QED
      BY <3>2, <3>3
  <2>2. ASSUME NEW k \in OutboxRecords PROVE k \in OutboxRecords'
    <3>0. PICK r \in Runs : \E v \in outbox[r] :
            k = [run |-> r, version |-> v, published |-> v \in published[r]]
      BY RecordOf
    <3>1. PICK v \in outbox[r] :
            k = [run |-> r, version |-> v, published |-> v \in published[r]]
      BY <3>0
    <3>2. v \in outbox'[r]
      OBVIOUS
    <3>3. k = [run |-> r, version |-> v, published |-> v \in published'[r]]
      BY <3>1
    <3> QED
      BY <3>2, <3>3, RecordOfNext
  <2>3. ASSUME NEW r \in S PROVE New(r) \in OutboxRecords'
    <3>1. version'[r] \in outbox'[r]
      OBVIOUS
    <3> QED
      BY <3>1, <1>3, RecordOfNext
  <2> HIDE DEF New
  <2> QED
    BY <2>1, <2>2, <2>3
<1>5. {New(r) : r \in S} =
        {k \in {[run |-> r, version |-> StoredRuns'[r].version,
                 published |-> FALSE] : r \in S} :
           [k EXCEPT !.published = TRUE] \notin OutboxRecords}
  <2>1. ASSUME NEW r \in S PROVE [New(r) EXCEPT !.published = TRUE] = Sent(r)
    BY PublishField, Zenon
  <2>2. {[run |-> r, version |-> StoredRuns'[r].version,
                 published |-> FALSE] : r \in S} = {New(r) : r \in S}
    BY <1>1
  <2>3. \A r \in S : [New(r) EXCEPT !.published = TRUE] \notin OutboxRecords
    BY <2>1, <1>2, Zenon
  <2> HIDE DEF New, Sent
  <2> QED
    BY <2>2, <2>3, Zenon
<1> QED
  BY <1>4, <1>5 DEF Memory!AddDispatch

\* The engine reads the same through both stores.
LEMMA SameEngine ==
  /\ \A c : Memory!Outcomes(c) = Outcomes(c)
  /\ \A c : Memory!StepKey(c) = StepKey(c)
  /\ \A o : Memory!TargetStatus(o) = TargetStatus(o)
  /\ \A r \in Runs : Memory!CurrentCheckpoint(r) = Current(r)
<1>1. Memory!FreshCheckpoint = FreshCheckpoint
  BY DEF Memory!FreshCheckpoint, FreshCheckpoint
<1>2. \A r \in Runs : Memory!CurrentCheckpoint(r) = Current(r)
  BY <1>1 DEF Memory!CurrentCheckpoint, Current, StoredRuns
<1>3. ASSUME NEW c PROVE Memory!StepKey(c) = StepKey(c)
  BY DEF Memory!StepKey, StepKey, Memory!StepTypeFor, StepTypeFor
<1>4. ASSUME NEW o PROVE Memory!TargetStatus(o) = TargetStatus(o)
  BY DEF Memory!TargetStatus, TargetStatus
<1>5. ASSUME NEW c PROVE Memory!Outcomes(c) = Outcomes(c)
  <2>1. Memory!PlanOutcomes(c) = PlanOutcomes(c)
    BY DEF Memory!PlanOutcomes, PlanOutcomes, Memory!Progress, Progress,
       Memory!ToolName, ToolName
  <2>2. Memory!ToolOutcomes(c) = ToolOutcomes(c)
    BY DEF Memory!ToolOutcomes, ToolOutcomes, Memory!ExecuteTool, ExecuteTool,
       Memory!Progress, Progress, Memory!ClearPendingTool, ClearPendingTool,
       Memory!RequiresApproval, RequiresApproval, Memory!ToolStepLimit,
       ToolStepLimit
  <2>3. Memory!AnswerOutcomes(c) = AnswerOutcomes(c)
    BY DEF Memory!AnswerOutcomes, AnswerOutcomes
  <2> QED
    BY <2>1, <2>2, <2>3 DEF Memory!Outcomes, Outcomes
<1> QED
  BY <1>2, <1>3, <1>4, <1>5

\* BlankUntilCreated starts true and survives every operation.
LEMMA BlankInit == StoreInit => BlankUntilCreated
  BY DEF StoreInit, BlankUntilCreated, Exists

\* No operation on a run touches a run without a row or publishes out of thin air.
LEMMA BlankRunOp ==
  ASSUME StoreInv, BlankUntilCreated, NEW r \in Runs, RunOp(r)
  PROVE  BlankUntilCreated'
<1> USE DEF BlankUntilCreated, Exists, StoreInv, StoreTypeOK, approvalVars,
            outboxVars, runVars, ClearLease, NextVersion, InsertDispatch
<1>1. CASE CreateRun(r)
  BY <1>1 DEF CreateRun
<1>2. ASSUME NEW w \in WorkerIds, ClaimRun(r, w) PROVE BlankUntilCreated'
  BY <1>2 DEF ClaimRun, Claimable
<1>3. ASSUME NEW w \in WorkerIds, RenewLease(r, w) PROVE BlankUntilCreated'
  BY <1>3 DEF RenewLease
<1>4. ASSUME NEW w \in WorkerIds, ReleaseLease(r, w) PROVE BlankUntilCreated'
  BY <1>4 DEF ReleaseLease
<1>5. ASSUME NEW key \in StepKeyType, NEW c \in ExecutionCheckpoint,
             NEW t \in SaveTarget, SaveStep(r, key, c, t)
      PROVE  BlankUntilCreated'
  <2>1. CASE InsertStep(r, key, c, t)
    BY <1>5, <2>1 DEF InsertStep, SaveTarget, SaveStep
  <2>2. CASE UNCHANGED storeVars
    BY <2>2 DEF storeVars
  <2> QED
    BY <1>5, <2>1, <2>2 DEF SaveStep
<1>6. ASSUME NEW a \in ApprovalIds, CreatePendingApproval(r, a)
      PROVE  BlankUntilCreated'
  <2>1. /\ UNCHANGED <<attempt_count, checkpoint, cancel_requested, next_retry,
                       outboxVars>>
        /\ \/ UNCHANGED status
           \/ status' = [status EXCEPT ![r] = "waiting_approval"]
    BY <1>6 DEF CreatePendingApproval
  <2> QED
    BY <1>6, <2>1 DEF CreatePendingApproval
<1>7. CASE RequestCancel(r)
  <2>1. /\ UNCHANGED <<attempt_count, checkpoint, next_retry, outboxVars>>
        /\ cancel_requested' = [cancel_requested EXCEPT ![r] = TRUE]
        /\ \/ UNCHANGED status
           \/ status' = [status EXCEPT ![r] = "canceled"]
    BY <1>7 DEF RequestCancel
  <2> QED
    BY <1>7, <2>1 DEF RequestCancel
<1>8. CASE ScheduleRetry(r)
  BY <1>8 DEF ScheduleRetry
<1>9. ASSUME NEW name \in EventName, AppendEvent(r, name) PROVE BlankUntilCreated'
  BY <1>9 DEF AppendEvent
<1>10. ASSUME NEW v \in Nat, MarkOutboxPublished(r, v) PROVE BlankUntilCreated'
  BY <1>10 DEF MarkOutboxPublished
<1>11. CASE LeaseExpires(r)
  BY <1>11 DEF LeaseExpires
<1>12. CASE RetryBecomesDue(r)
  BY <1>12 DEF RetryBecomesDue
<1> QED
  BY <1>1, <1>2, <1>3, <1>4, <1>5, <1>6, <1>7, <1>8, <1>9, <1>10, <1>11, <1>12
  DEF RunOp

\* ... and neither does any other.
LEMMA BlankStoreOp ==
  ASSUME StoreInv, BlankUntilCreated, StoreOp
  PROVE  BlankUntilCreated'
<1>1. ASSUME NEW r \in Runs, RunOp(r) PROVE BlankUntilCreated'
  BY <1>1, BlankRunOp
<1>2. ASSUME NEW a \in ApprovalIds, NEW d \in {"approved", "rejected"},
             DecideApproval(a, d)
      PROVE  BlankUntilCreated'
  BY <1>2 DEF DecideApproval, WellReferenced, StoreInv, StoreTypeOK,
     InsertDispatch, BlankUntilCreated, Exists
<1>3. ASSUME NEW S \in SUBSET Runs, RequeueExpiredLeases(S)
      PROVE  BlankUntilCreated'
  BY <1>3 DEF RequeueExpiredLeases, Requeue, StoreInv, StoreTypeOK, Expired,
     BlankUntilCreated, Exists
<1>4. ASSUME NEW S \in SUBSET Runs, RequeueDueRetries(S) PROVE BlankUntilCreated'
  BY <1>4 DEF RequeueDueRetries, Requeue, StoreInv, StoreTypeOK, DueRetries,
     BlankUntilCreated, Exists
<1> QED
  BY <1>1, <1>2, <1>3, <1>4 DEF StoreOp

\* A dictionary entry by its fields, and how the in-memory store changes it.
Entry(s, v, n, c, o, l, k, t) ==
  [status |-> s, version |-> v, attempt_count |-> n, checkpoint |-> c,
   lease_owner |-> o, lease_expires_at |-> l, cancel_requested |-> k,
   next_retry_at |-> t]

\* A new status comes with a new version.
LEMMA MovedEntry ==
  ASSUME NEW s, NEW v, NEW n, NEW c, NEW o, NEW l, NEW k, NEW t, NEW x
  PROVE  Memory!Moved(Entry(s, v, n, c, o, l, k, t), x) =
           Entry(x, v + 1, n, c, o, l, k, t)
<1> DEFINE e == Entry(s, v, n, c, o, l, k, t)
<1>1. Memory!Moved(e, x) = [[e EXCEPT !.version = e.version + 1]
                              EXCEPT !.status = x]
  BY DEF Memory!Moved
<1>2. e.version = v
  BY DEF Entry
<1>3. [e EXCEPT !.version = v + 1] = Entry(s, v + 1, n, c, o, l, k, t)
  BY DEF Entry
<1>4. [Entry(s, v + 1, n, c, o, l, k, t) EXCEPT !.status = x] =
        Entry(x, v + 1, n, c, o, l, k, t)
  BY DEF Entry
<1> QED
  BY <1>1, <1>2, <1>3, <1>4

Leased(e, o, l) == [e EXCEPT !.lease_owner = o, !.lease_expires_at = l]
Renewed(e, l) == [e EXCEPT !.lease_expires_at = l]
Advanced(e, c) == [e EXCEPT !.checkpoint = c]
Asked(e, k) == [e EXCEPT !.cancel_requested = k]
Rescheduled(e, t) == [e EXCEPT !.next_retry_at = t]
Counted(e) == [e EXCEPT !.attempt_count = @ + 1]

\* Writing both lease columns.
LEMMA LeasedEntry ==
  ASSUME NEW s, NEW v, NEW n, NEW c, NEW o, NEW l, NEW k, NEW t, NEW x, NEW y
  PROVE  Leased(Entry(s, v, n, c, o, l, k, t), x, y) =
           Entry(s, v, n, c, x, y, k, t)
<1> DEFINE e == Entry(s, v, n, c, o, l, k, t)
<1>1. [e EXCEPT !.lease_owner = x, !.lease_expires_at = y] =
        [[e EXCEPT !.lease_owner = x] EXCEPT !.lease_expires_at = y]
  OBVIOUS
<1>2. [e EXCEPT !.lease_owner = x] = Entry(s, v, n, c, x, l, k, t)
  BY DEF Entry
<1>3. [Entry(s, v, n, c, x, l, k, t) EXCEPT !.lease_expires_at = y] =
        Entry(s, v, n, c, x, y, k, t)
  BY DEF Entry
<1> QED
  BY <1>1, <1>2, <1>3 DEF Leased

\* _clear_lease is writing NoOwner and "none".
LEMMA UnleasedEntry ==
  ASSUME NEW s, NEW v, NEW n, NEW c, NEW o, NEW l, NEW k, NEW t
  PROVE  Memory!Unleased(Entry(s, v, n, c, o, l, k, t)) =
           Entry(s, v, n, c, NoOwner, "none", k, t)
<1>1. Leased(Entry(s, v, n, c, o, l, k, t), NoOwner, "none") =
        Entry(s, v, n, c, NoOwner, "none", k, t)
  BY LeasedEntry
<1> QED
  BY <1>1 DEF Memory!Unleased, Leased

\* Writing a single column.
LEMMA EntryUpdates ==
  ASSUME NEW s, NEW v, NEW n, NEW c, NEW o, NEW l, NEW k, NEW t, NEW x
  PROVE  LET e == Entry(s, v, n, c, o, l, k, t) IN
         /\ Renewed(e, x) = Entry(s, v, n, c, o, x, k, t)
         /\ Advanced(e, x) = Entry(s, v, n, x, o, l, k, t)
         /\ Asked(e, x) = Entry(s, v, n, c, o, l, x, t)
         /\ Rescheduled(e, x) = Entry(s, v, n, c, o, l, k, x)
<1> DEFINE e == Entry(s, v, n, c, o, l, k, t)
<1>1. /\ Renewed(e, x) = Entry(s, v, n, c, o, x, k, t)
      /\ Advanced(e, x) = Entry(s, v, n, x, o, l, k, t)
  BY DEF Entry, Renewed, Advanced
<1>2. Asked(e, x) = Entry(s, v, n, c, o, l, x, t)
  BY DEF Entry, Asked
<1>3. Rescheduled(e, x) = Entry(s, v, n, c, o, l, k, x)
  BY DEF Entry, Rescheduled
<1> QED
  BY <1>1, <1>2, <1>3

\* Counting an attempt.
LEMMA CountedEntry ==
  ASSUME NEW s, NEW v, NEW n, NEW c, NEW o, NEW l, NEW k, NEW t
  PROVE  Counted(Entry(s, v, n, c, o, l, k, t)) =
           Entry(s, v, n + 1, c, o, l, k, t)
  BY DEF Entry, Counted

\* The columns of one row.
LEMMA EntryFields ==
  ASSUME NEW s, NEW v, NEW n, NEW c, NEW o, NEW l, NEW k, NEW t
  PROVE  LET e == Entry(s, v, n, c, o, l, k, t) IN
         /\ e.status = s /\ e.version = v /\ e.checkpoint = c
         /\ e.lease_owner = o /\ e.lease_expires_at = l /\ e.next_retry_at = t
  BY DEF Entry

Row(r) == Entry(status[r], version[r], attempt_count[r], checkpoint[r],
                lease_owner[r], lease[r], cancel_requested[r], next_retry[r])

SameRow(q) ==
  /\ status'[q] = status[q] /\ version'[q] = version[q]
  /\ attempt_count'[q] = attempt_count[q] /\ checkpoint'[q] = checkpoint[q]
  /\ lease_owner'[q] = lease_owner[q] /\ lease'[q] = lease[q]
  /\ cancel_requested'[q] = cancel_requested[q] /\ next_retry'[q] = next_retry[q]

\* A dictionary entry is the row of its run.
LEMMA RowFields ==
  ASSUME NEW r \in Runs
  PROVE  /\ StoredRuns[r] = Row(r) /\ StoredRuns'[r] = Row(r)'
         /\ StoredRuns[r].status = status[r]
         /\ StoredRuns[r].lease_owner = lease_owner[r]
         /\ StoredRuns[r].lease_expires_at = lease[r]
         /\ StoredRuns[r].next_retry_at = next_retry[r]
<1>1. StoredRuns[r] = Row(r) /\ StoredRuns'[r] = Row(r)'
  BY DEF StoredRuns, Row, Entry
<1> QED
  BY <1>1, EntryFields DEF Row

\* A statement that writes one row replaces one dictionary entry.
LEMMA OneRow ==
  ASSUME NEW r \in Runs, NEW row, Row(r)' = row,
         \A q \in Runs : q # r => SameRow(q)
  PROVE  Memory!Put(r, row)
<1>1. StoredRuns = [q \in Runs |-> Row(q)] /\ StoredRuns' = [q \in Runs |-> Row(q)']
  BY DEF StoredRuns, Row, Entry
<1>2. ASSUME NEW q \in Runs, q # r PROVE Row(q)' = Row(q)
  BY <1>2 DEF SameRow, Row
<1> QED
  BY <1>1, <1>2 DEF Memory!Put

\* create_run_with_outbox: the same entry and the same record.
LEMMA CreateRunAgrees ==
  ASSUME StoreInv, BlankUntilCreated, NEW r \in Runs, CreateRun(r)
  PROVE  Memory!CreateRunWithOutbox(r)
<1> USE DEF StoreInv, StoreTypeOK, CreateRun, InsertDispatch, Exists
<1>1. ~Memory!Stored(r)
  BY RowFields DEF Memory!Stored
<1>2. Memory!Put(r, Memory!NewStoredRun)
  <2>1. Row(r)' = Memory!NewStoredRun
    BY DEF Row, Entry, Memory!NewStoredRun, BlankUntilCreated, WellReferenced,
       LeaseOnlyWhileRunning
  <2> QED
    BY <2>1, OneRow DEF SameRow
<1>3. Memory!AddDispatch({r})
  BY DispatchAdded DEF WellReferenced
<1>4. UNCHANGED <<steps, events, StoredApprovals>>
  BY DEF approvalVars, StoredApprovals
<1> QED
  BY <1>1, <1>2, <1>3, <1>4 DEF Memory!CreateRunWithOutbox

\* claim_run: a run without a live lease, in both stores.
LEMMA ClaimRunAgrees ==
  ASSUME StoreInv, NEW r \in Runs, NEW w \in WorkerIds, ClaimRun(r, w)
  PROVE  Memory!ClaimRun(r, w)
<1> USE DEF StoreInv, StoreTypeOK, ClaimRun, Claimable, NextVersion
<1>1. /\ StoredRuns[r].status \in {"queued", "retry_scheduled"}
      /\ StoredRuns[r].lease_expires_at # "live"
  BY RowFields
<1>2. Row(r)' = Leased(Memory!Moved(StoredRuns[r], "running"), w, "live")
  BY RowFields, MovedEntry, LeasedEntry DEF Row
<1>3. Memory!Put(r, Leased(Memory!Moved(StoredRuns[r], "running"), w, "live"))
  BY <1>2, OneRow DEF SameRow
<1>4. UNCHANGED <<steps, events, StoredApprovals, OutboxRecords>>
  BY DEF approvalVars, outboxVars, StoredApprovals, OutboxRecords
<1> QED
  BY <1>1, <1>3, <1>4 DEF Memory!ClaimRun, Leased

\* renew_lease.
LEMMA RenewLeaseAgrees ==
  ASSUME StoreInv, NEW r \in Runs, NEW w \in WorkerIds, RenewLease(r, w)
  PROVE  Memory!RenewLease(r, w)
<1> USE DEF StoreInv, StoreTypeOK, RenewLease
<1>1. StoredRuns[r].status = "running" /\ StoredRuns[r].lease_owner = w
  BY RowFields
<1>2. Row(r)' = Renewed(StoredRuns[r], "live")
  BY RowFields, EntryUpdates DEF Row
<1>3. Memory!Put(r, Renewed(StoredRuns[r], "live"))
  BY <1>2, OneRow DEF SameRow
<1>4. UNCHANGED <<steps, events, StoredApprovals, OutboxRecords>>
  BY DEF approvalVars, outboxVars, StoredApprovals, OutboxRecords
<1> QED
  BY <1>1, <1>3, <1>4 DEF Memory!RenewLease, Renewed

\* release_lease.
LEMMA ReleaseLeaseAgrees ==
  ASSUME StoreInv, NEW r \in Runs, NEW w \in WorkerIds, ReleaseLease(r, w)
  PROVE  Memory!ReleaseLease(r, w)
<1> USE DEF StoreInv, StoreTypeOK, ReleaseLease, ClearLease
<1>1. StoredRuns[r].lease_owner = w
  BY RowFields
<1>2. Row(r)' = Memory!Unleased(StoredRuns[r])
  BY RowFields, UnleasedEntry DEF Row
<1>3. Memory!Put(r, Memory!Unleased(StoredRuns[r]))
  BY <1>2, OneRow DEF SameRow
<1>4. UNCHANGED <<steps, events, StoredApprovals, OutboxRecords>>
  BY DEF approvalVars, outboxVars, StoredApprovals, OutboxRecords
<1> QED
  BY <1>1, <1>3, <1>4 DEF Memory!ReleaseLease

\* Only a step with a new key moves the run, in both stores.
LEMMA InsertStepAgrees ==
  ASSUME StoreInv, NEW r \in Runs, NEW key, NEW c, NEW target, Exists(r),
         key \notin steps[r], InsertStep(r, key, c, target)
  PROVE  Memory!SaveStep(r, key, c, target)
<1> USE DEF StoreInv, StoreTypeOK, InsertStep, ClearLease, NextVersion
<1> DEFINE saved == Advanced(Memory!Moved(StoredRuns[r], target), c)
           stored == IF target = "running" THEN saved ELSE Memory!Unleased(saved)
<1>1. Memory!Stored(r)
  BY RowFields DEF Exists, Memory!Stored
<1>2. saved = Entry(target, version[r] + 1, attempt_count[r], c, lease_owner[r],
                    lease[r], cancel_requested[r], next_retry[r])
  BY RowFields, MovedEntry, EntryUpdates DEF Row
<1>3. Row(r)' = stored
  <2> HIDE DEF saved
  <2>1. CASE target = "running"
    BY <1>2, <2>1 DEF Row
  <2>2. CASE target # "running"
    BY <1>2, <2>2, UnleasedEntry DEF Row
  <2> QED
    BY <2>1, <2>2
<1>4. Memory!Put(r, stored)
  <2>1. \A q \in Runs : q # r => SameRow(q)
    <3>1. CASE target = "running"
      BY <3>1 DEF SameRow
    <3>2. CASE target # "running"
      BY <3>2 DEF SameRow
    <3> QED
      BY <3>1, <3>2
  <2> HIDE DEF stored
  <2> QED
    BY <1>3, <2>1, OneRow
<1>5. UNCHANGED <<events, StoredApprovals, OutboxRecords>>
  BY DEF approvalVars, outboxVars, StoredApprovals, OutboxRecords
<1> QED
  BY <1>1, <1>4, <1>5 DEF Memory!SaveStep, Advanced

\* create_pending_approval agrees on running runs only.
LEMMA CreatePendingApprovalAgrees ==
  ASSUME StoreInv, NEW r \in Runs, NEW a \in ApprovalIds,
         CreatePendingApproval(r, a)
  PROVE  ApprovalOutOfPlace \/ Memory!CreatePendingApproval(r, a)
<1> USE DEF StoreInv, StoreTypeOK, CreatePendingApproval, ClearLease, NextVersion
<1>1. CASE status[r] # "running"
  BY <1>1, NoRunAssumption DEF ApprovalOutOfPlace
<1>2. CASE status[r] = "running"
  <2>1. StoredRuns[r].status = "running"
    BY <1>2, RowFields
  <2>2. StoredApprovals[a].run_id = NoRun
    BY DEF StoredApprovals
  <2>3. StoredApprovals' = [StoredApprovals EXCEPT
                              ![a] = [run_id |-> r, status |-> "pending"]]
    BY DEF StoredApprovals
  <2>4. Row(r)' = Memory!Unleased(Memory!Moved(StoredRuns[r], "waiting_approval"))
    BY <1>2, RowFields, MovedEntry, UnleasedEntry DEF Row
  <2>5. Memory!Put(r, Memory!Unleased(Memory!Moved(StoredRuns[r],
                                                    "waiting_approval")))
    BY <1>2, <2>4, OneRow DEF SameRow
  <2>6. UNCHANGED <<steps, events, OutboxRecords>>
    BY DEF outboxVars, OutboxRecords
  <2> QED
    BY <2>1, <2>2, <2>3, <2>5, <2>6 DEF Memory!CreatePendingApproval
<1> QED
  BY <1>1, <1>2

\* decide_approval: the record of the requeue is new to both outboxes.
LEMMA DecideApprovalAgrees ==
  ASSUME StoreInv, BlankUntilCreated, NEW a \in ApprovalIds, NEW d,
         DecideApproval(a, d)
  PROVE  Memory!DecideApproval(a, d)
<1> USE DEF StoreInv, StoreTypeOK
<1>1. PICK r \in Runs : r = approval_run[a]
  BY DEF WellReferenced, DecideApproval
<1>2. /\ approval_status[a] = "pending" /\ status[r] = "waiting_approval"
      /\ approval_status' = [approval_status EXCEPT ![a] = d]
      /\ status' = [status EXCEPT ![r] = "queued"]
      /\ version' = [version EXCEPT ![r] = @ + 1]
      /\ outbox' = [outbox EXCEPT ![r] = @ \cup {version[r] + 1}]
      /\ UNCHANGED <<attempt_count, checkpoint, lease_owner, lease, steps,
                     cancel_requested, next_retry, events, approval_run, published>>
  BY <1>1 DEF DecideApproval, NextVersion, InsertDispatch
<1>3. /\ StoredApprovals[a].run_id = r /\ StoredApprovals[a].status = "pending"
      /\ StoredApprovals' = [StoredApprovals EXCEPT ![a].status = d]
  BY <1>1, <1>2 DEF StoredApprovals
<1>4. StoredRuns[r].status = "waiting_approval"
  BY <1>1, <1>2, RowFields
<1>5. Row(r)' = Memory!Moved(StoredRuns[r], "queued")
  BY <1>2, RowFields, MovedEntry DEF Row
<1>6. Memory!Put(r, Memory!Moved(StoredRuns[r], "queued"))
  BY <1>1, <1>2, <1>5, OneRow DEF SameRow
<1>7. Memory!AddDispatch({r})
  <2>1. version[r] + 1 \notin outbox[r]
    BY DEF OutboxBelowVersion
  <2> QED
    BY <1>2, <2>1, DispatchAdded
<1> QED
  BY <1>2, <1>3, <1>4, <1>6, <1>7 DEF Memory!DecideApproval

\* A cancellation request sets a flag, and cancels a run nobody executes.
LEMMA AskedRow ==
  ASSUME NEW r \in Runs, NEW k
  PROVE  /\ Asked(StoredRuns[r], k) =
              Entry(status[r], version[r], attempt_count[r], checkpoint[r],
                    lease_owner[r], lease[r], k, next_retry[r])
         /\ Memory!Unleased(Memory!Moved(Asked(StoredRuns[r], k), "canceled")) =
              Entry("canceled", version[r] + 1, attempt_count[r], checkpoint[r],
                    NoOwner, "none", k, next_retry[r])
  BY RowFields, EntryUpdates, MovedEntry, UnleasedEntry DEF Row

\* request_cancel.
LEMMA RequestCancelAgrees ==
  ASSUME StoreInv, NEW r \in Runs, RequestCancel(r)
  PROVE  Memory!RequestCancel(r)
<1> USE DEF StoreInv, StoreTypeOK, RequestCancel, ClearLease, NextVersion
<1> DEFINE asked == Asked(StoredRuns[r], TRUE)
           stored == IF StoredRuns[r].status = "running"
                       THEN asked
                       ELSE Memory!Unleased(Memory!Moved(asked, "canceled"))
<1>1. /\ StoredRuns[r].status = status[r] /\ Memory!Stored(r)
      /\ status[r] \notin Terminal
  BY RowFields DEF Exists, Memory!Stored
<1>2. asked = Entry(status[r], version[r], attempt_count[r], checkpoint[r],
                    lease_owner[r], lease[r], TRUE, next_retry[r])
  BY AskedRow, Zenon
<1>3. Row(r)' = Entry(status'[r], version'[r], attempt_count[r], checkpoint[r],
                      lease_owner'[r], lease'[r], TRUE, next_retry[r])
  <2>1. cancel_requested'[r] = TRUE
    OBVIOUS
  <2>2. Row(r)' = Entry(status'[r], version'[r], attempt_count'[r],
                        checkpoint'[r], lease_owner'[r], lease'[r], TRUE,
                        next_retry'[r])
    BY <2>1, Zenon DEF Row
  <2>3. UNCHANGED <<attempt_count, checkpoint, next_retry>>
    OBVIOUS
  <2> QED
    BY <2>2, <2>3, Zenon
<1>4. Row(r)' = stored
  <2> HIDE DEF asked
  <2>1. CASE status[r] = "running"
    BY <1>1, <1>2, <1>3, <2>1
  <2>2. CASE status[r] # "running"
    <3>1. stored = Entry("canceled", version[r] + 1, attempt_count[r],
                         checkpoint[r], NoOwner, "none", TRUE, next_retry[r])
      BY <1>1, <2>2, AskedRow, Zenon DEF asked
    <3> HIDE DEF stored
    <3>2. /\ status'[r] = "canceled" /\ version'[r] = version[r] + 1
          /\ lease_owner'[r] = NoOwner /\ lease'[r] = "none"
      BY <2>2
    <3> QED
      BY <3>1, <3>2, <1>3, Zenon
  <2> QED
    BY <2>1, <2>2
<1>5. Memory!Put(r, stored)
  <2>1. \A q \in Runs : q # r => SameRow(q)
    <3>1. CASE status[r] = "running"
      BY <3>1 DEF SameRow
    <3>2. CASE status[r] # "running"
      BY <3>2 DEF SameRow
    <3> QED
      BY <3>1, <3>2
  <2> HIDE DEF stored
  <2> QED
    BY <1>4, <2>1, OneRow
<1>6. UNCHANGED <<steps, events, StoredApprovals, OutboxRecords>>
  BY DEF approvalVars, outboxVars, StoredApprovals, OutboxRecords
<1> QED
  BY <1>1, <1>5, <1>6 DEF Memory!RequestCancel, Asked, Memory!Terminal, Terminal

\* schedule_retry: PostgreSQL asks for a running run, memory does not.
LEMMA ScheduleRetryAgrees ==
  ASSUME StoreInv, NEW r \in Runs, ScheduleRetry(r)
  PROVE  Memory!ScheduleRetry(r)
<1> USE DEF StoreInv, StoreTypeOK, ScheduleRetry, ClearLease, NextVersion
<1> DEFINE stored == Rescheduled(Memory!Unleased(Memory!Moved(StoredRuns[r],
                                             "retry_scheduled")), "scheduled")
<1>1. Memory!Stored(r)
  BY RowFields DEF Memory!Stored
<1>2. Row(r)' = stored
  BY RowFields, MovedEntry, UnleasedEntry, EntryUpdates DEF Row
<1>3. Memory!Put(r, stored)
  <2> HIDE DEF stored
  <2> QED
    BY <1>2, OneRow DEF SameRow
<1>4. UNCHANGED <<steps, events, StoredApprovals, OutboxRecords>>
  BY DEF approvalVars, outboxVars, StoredApprovals, OutboxRecords
<1> QED
  BY <1>1, <1>3, <1>4 DEF Memory!ScheduleRetry, Rescheduled

\* A sweep replaces the entries of the runs it takes.
LEMMA ManyRows ==
  ASSUME NEW S \in SUBSET Runs, \A q \in Runs \ S : SameRow(q)
  PROVE  StoredRuns' = [q \in Runs |-> IF q \in S THEN Row(q)' ELSE StoredRuns[q]]
<1>1. \A q \in Runs : StoredRuns[q] = Row(q)
  BY RowFields
<1>2. StoredRuns' = [q \in Runs |-> Row(q)']
  BY DEF StoredRuns, Row, Entry
<1>3. ASSUME NEW q \in Runs \ S PROVE Row(q)' = StoredRuns[q]
  BY <1>1 DEF SameRow, Row
<1> QED
  BY <1>2, <1>3

\* Every requeued run gets a record under its new version.
LEMMA RequeueDispatches ==
  ASSUME StoreInv, BlankUntilCreated, NEW S \in SUBSET Runs, Requeue(S)
  PROVE  Memory!AddDispatch(S)
<1>1. /\ version' = [r \in Runs |-> IF r \in S THEN version[r] + 1 ELSE version[r]]
      /\ outbox' = [r \in Runs |-> IF r \in S THEN outbox[r] \cup {version[r] + 1}
                                              ELSE outbox[r]]
      /\ published' = published
  BY DEF Requeue
<1>2. \A r \in S : version'[r] \notin outbox[r]
  BY <1>1 DEF StoreInv, StoreTypeOK, OutboxBelowVersion
<1>3. \A r \in Runs : outbox'[r] = IF r \in S THEN outbox[r] \cup {version'[r]}
                                              ELSE outbox[r]
  BY <1>1
<1> QED
  BY <1>1, <1>2, <1>3, DispatchAdded

\* requeue_expired_leases.
LEMMA RequeueExpiredLeasesAgrees ==
  ASSUME StoreInv, BlankUntilCreated, NEW S \in SUBSET Runs,
         RequeueExpiredLeases(S)
  PROVE  Memory!RequeueExpiredLeases(S)
<1> DEFINE F(q) == Counted(Memory!Unleased(Memory!Moved(StoredRuns[q], "queued")))
<1>1. ASSUME NEW r \in S
      PROVE  /\ StoredRuns[r].status = "running"
             /\ StoredRuns[r].lease_expires_at = "expired"
  BY RowFields DEF RequeueExpiredLeases, Expired
<1>2. ASSUME NEW q \in S PROVE Row(q)' = F(q)
  <2>1. F(q) = Entry("queued", version[q] + 1, attempt_count[q] + 1,
                     checkpoint[q], NoOwner, "none", cancel_requested[q],
                     next_retry[q])
    <3>1. Memory!Unleased(Memory!Moved(StoredRuns[q], "queued")) =
            Entry("queued", version[q] + 1, attempt_count[q], checkpoint[q],
                  NoOwner, "none", cancel_requested[q], next_retry[q])
      BY RowFields, MovedEntry, UnleasedEntry DEF Row
    <3> QED
      BY <3>1, CountedEntry
  <2> HIDE DEF F
  <2>2. Row(q)' = Entry("queued", version[q] + 1, attempt_count[q] + 1,
                        checkpoint[q], NoOwner, "none", cancel_requested[q],
                        next_retry[q])
    BY DEF Row, RequeueExpiredLeases, Requeue
  <2> QED
    BY <2>1, <2>2
<1>3. ASSUME NEW q \in Runs \ S PROVE SameRow(q)
  BY DEF SameRow, RequeueExpiredLeases, Requeue
<1>4. StoredRuns' = [q \in Runs |-> IF q \in S THEN F(q) ELSE StoredRuns[q]]
  <2> HIDE DEF F
  <2> QED
    BY <1>2, <1>3, ManyRows
<1>5. Memory!AddDispatch(S)
  BY RequeueDispatches DEF RequeueExpiredLeases
<1>6. UNCHANGED <<steps, events, StoredApprovals>>
  BY DEF RequeueExpiredLeases, Requeue, approvalVars, StoredApprovals
<1> QED
  BY <1>1, <1>4, <1>5, <1>6
  DEF RequeueExpiredLeases, Memory!RequeueExpiredLeases, Counted

\* requeue_due_retries.
LEMMA RequeueDueRetriesAgrees ==
  ASSUME StoreInv, BlankUntilCreated, NEW S \in SUBSET Runs,
         RequeueDueRetries(S)
  PROVE  Memory!RequeueDueRetries(S)
<1> DEFINE F(q) == Rescheduled(Memory!Moved(StoredRuns[q], "queued"), "none")
<1>1. ASSUME NEW r \in S
      PROVE  /\ StoredRuns[r].status = "retry_scheduled"
             /\ StoredRuns[r].next_retry_at = "due"
  BY RowFields DEF RequeueDueRetries, DueRetries
<1>2. ASSUME NEW q \in S PROVE Row(q)' = F(q)
  BY RowFields, MovedEntry, EntryUpdates DEF Row, RequeueDueRetries, Requeue
<1>3. ASSUME NEW q \in Runs \ S PROVE SameRow(q)
  BY DEF SameRow, RequeueDueRetries, Requeue
<1>4. StoredRuns' = [q \in Runs |-> IF q \in S THEN F(q) ELSE StoredRuns[q]]
  <2> HIDE DEF F
  <2> QED
    BY <1>2, <1>3, ManyRows
<1>5. Memory!AddDispatch(S)
  BY RequeueDispatches DEF RequeueDueRetries
<1>6. UNCHANGED <<steps, events, StoredApprovals>>
  BY DEF RequeueDueRetries, Requeue, approvalVars, StoredApprovals
<1> QED
  BY <1>1, <1>4, <1>5, <1>6
  DEF RequeueDueRetries, Memory!RequeueDueRetries, Rescheduled

\* Publishing a record that is published changes nothing; any other
\* publication is one of the in-memory store.
LEMMA MarkOutboxPublishedAgrees ==
  ASSUME NEW r \in Runs, NEW v, StoreInv, MarkOutboxPublished(r, v)
  PROVE  \/ UNCHANGED Memory!memoryVars
         \/ \E k \in OutboxRecords : Memory!MarkOutboxPublished(k)
<1> DEFINE k == [run |-> r, version |-> v, published |-> FALSE]
           sent == [run |-> r, version |-> v, published |-> TRUE]
<1>0. UNCHANGED <<StoredRuns, steps, events, StoredApprovals>> /\ outbox' = outbox
  BY DEF MarkOutboxPublished, runVars, approvalVars, StoredRuns, StoredApprovals
<1>1. /\ v \in outbox[r]
      /\ published' = [published EXCEPT ![r] = @ \cup {v}]
      /\ published \in [Runs -> SUBSET Nat]
  BY DEF MarkOutboxPublished, StoreInv, StoreTypeOK
<1>2. CASE v \in published[r]
  <2>1. published' = published
    BY <1>1, <1>2
  <2> QED
    BY <1>0, <2>1 DEF OutboxRecords, Memory!memoryVars
<1>3. CASE v \notin published[r]
  <2>1. k = [run |-> r, version |-> v, published |-> v \in published[r]]
    <3>1. (v \in published[r]) = FALSE
      BY <1>3, SMT
    <3> QED
      BY <3>1, Zenon
  <2>2. sent = [run |-> r, version |-> v, published |-> v \in published'[r]]
    <3>1. (v \in published'[r]) = TRUE
      BY <1>1, SMT
    <3> QED
      BY <3>1, Zenon
  <2>3. k \in OutboxRecords
    BY <1>1, <2>1, RecordOf
  <2>4. [k EXCEPT !.published = TRUE] = sent
    BY PublishField, Zenon
  <2>5. k.published = FALSE
    OBVIOUS
  <2>6. \A q \in Runs : \A u \in outbox[q] :
          (q # r \/ u # v) => (u \in published'[q] <=> u \in published[q])
    BY <1>1
  <2>7. OutboxRecords' = (OutboxRecords \ {k}) \cup {sent}
    <3> HIDE DEF k, sent
    <3>1. ASSUME NEW d, d \in OutboxRecords'
          PROVE  d \in (OutboxRecords \ {k}) \cup {sent}
      <4>1. PICK q \in Runs : \E u \in outbox'[q] :
              d = [run |-> q, version |-> u, published |-> u \in published'[q]]
        BY <3>1, RecordOfNext
      <4>2. PICK u \in outbox'[q] :
              d = [run |-> q, version |-> u, published |-> u \in published'[q]]
        BY <4>1
      <4>3. CASE q = r /\ u = v
        BY <4>2, <4>3, <2>2, Zenon
      <4>4. CASE q # r \/ u # v
        <5>1. d = [run |-> q, version |-> u, published |-> u \in published[q]]
          <6>1. u \in outbox[q]
            BY <1>0
          <6>2. (u \in published'[q]) = (u \in published[q])
            BY <4>4, <6>1, <2>6, SMT
          <6> QED
            BY <4>2, <6>2, Zenon
        <5>2. d \in OutboxRecords
          BY <1>0, <5>1, RecordOf
        <5>3. d # k
          BY <5>1, <4>4 DEF k
        <5> QED
          BY <5>2, <5>3
      <4> QED
        BY <4>3, <4>4
    <3>2. ASSUME NEW d, d \in OutboxRecords, d # k PROVE d \in OutboxRecords'
      <4>1. PICK q \in Runs : \E u \in outbox[q] :
              d = [run |-> q, version |-> u, published |-> u \in published[q]]
        BY <3>2, RecordOf
      <4>2. PICK u \in outbox[q] :
              d = [run |-> q, version |-> u, published |-> u \in published[q]]
        BY <4>1
      <4>3. q # r \/ u # v
        BY <4>2, <3>2, <2>1, Zenon
      <4>4. d = [run |-> q, version |-> u, published |-> u \in published'[q]]
        <5>1. (u \in published'[q]) = (u \in published[q])
          BY <4>3, <2>6, SMT
        <5> QED
          BY <4>2, <5>1, Zenon
      <4> QED
        BY <1>0, <4>4, RecordOfNext
    <3>3. sent \in OutboxRecords'
      BY <1>0, <1>1, <2>2, RecordOfNext
    <3> QED
      BY <3>1, <3>2, <3>3
  <2>8. Memory!MarkOutboxPublished(k)
    <3> HIDE DEF k, sent
    <3> QED
      BY <1>0, <2>3, <2>4, <2>5, <2>7 DEF Memory!MarkOutboxPublished
  <2> QED
    BY <2>3, <2>8
<1> QED
  BY <1>2, <1>3

\* The clock is the same for both.
LEMMA TimePassesAgrees ==
  ASSUME StoreInv, NEW r \in Runs, LeaseExpires(r) \/ RetryBecomesDue(r)
  PROVE  Memory!TimePasses(r)
<1> USE DEF StoreInv, StoreTypeOK
<1>1. UNCHANGED <<steps, events, StoredApprovals, OutboxRecords>>
  BY DEF LeaseExpires, RetryBecomesDue, approvalVars, outboxVars,
     StoredApprovals, OutboxRecords
<1>2. CASE LeaseExpires(r)
  <2>1. Row(r)' = Renewed(StoredRuns[r], "expired")
    BY <1>2, RowFields, EntryUpdates DEF Row, LeaseExpires
  <2>2. Memory!Put(r, Renewed(StoredRuns[r], "expired"))
    BY <1>2, <2>1, OneRow DEF SameRow, LeaseExpires
  <2>3. StoredRuns[r].lease_expires_at = "live"
    BY <1>2, RowFields DEF LeaseExpires
  <2> QED
    BY <1>1, <2>2, <2>3 DEF Memory!TimePasses, Renewed
<1>3. CASE RetryBecomesDue(r)
  <2>1. Row(r)' = Rescheduled(StoredRuns[r], "due")
    BY <1>3, RowFields, EntryUpdates DEF Row, RetryBecomesDue
  <2>2. Memory!Put(r, Rescheduled(StoredRuns[r], "due"))
    BY <1>3, <2>1, OneRow DEF SameRow, RetryBecomesDue
  <2>3. StoredRuns[r].next_retry_at = "scheduled"
    BY <1>3, RowFields DEF RetryBecomesDue
  <2> QED
    BY <1>1, <2>2, <2>3 DEF Memory!TimePasses, Rescheduled
<1> QED
  BY <1>2, <1>3

MemoryStep == [ApprovalOutOfPlace \/ Memory!Next]_Memory!memoryVars

\* A saved step is a step of the engine in both stores, or already saved.
LEMMA SaveStepAgrees ==
  ASSUME StoreInv, NEW r \in Runs, NEW o \in Outcomes(Current(r)),
         SaveStep(r, StepKey(Current(r)), o.checkpoint, TargetStatus(o))
  PROVE  MemoryStep
<1> DEFINE key == StepKey(Current(r))
<1>1. CASE key \in steps[r]
  <2>1. UNCHANGED storeVars
    BY <1>1 DEF SaveStep
  <2> QED
    BY <2>1 DEF MemoryStep, Memory!memoryVars, StoredRuns, StoredApprovals,
       OutboxRecords, storeVars, runVars, approvalVars, outboxVars
<1>2. CASE key \notin steps[r]
  <2>1. Memory!SaveStep(r, key, o.checkpoint, TargetStatus(o))
    BY <1>2, InsertStepAgrees DEF SaveStep
  <2>2. /\ o \in Memory!Outcomes(Memory!CurrentCheckpoint(r))
        /\ Memory!SaveStep(r, Memory!StepKey(Memory!CurrentCheckpoint(r)),
                           o.checkpoint, Memory!TargetStatus(o))
    BY <2>1, SameEngine
  <2> QED
    BY <2>2 DEF MemoryStep, Memory!Next
<1> QED
  BY <1>1, <1>2

\* Every call that concerns one run.
LEMMA CallerAgrees ==
  ASSUME StoreInv, BlankUntilCreated, NEW r \in Runs, Caller(r)
  PROVE  MemoryStep
<1>1. CASE CreateRun(r)
  BY <1>1, CreateRunAgrees DEF MemoryStep, Memory!Next
<1>2. ASSUME NEW w \in WorkerIds,
             ClaimRun(r, w) \/ RenewLease(r, w) \/ ReleaseLease(r, w)
      PROVE  MemoryStep
  BY <1>2, ClaimRunAgrees, RenewLeaseAgrees, ReleaseLeaseAgrees
  DEF MemoryStep, Memory!Next
<1>3. ASSUME NEW a \in ApprovalIds, CreatePendingApproval(r, a)
      PROVE  MemoryStep
  BY <1>3, CreatePendingApprovalAgrees DEF MemoryStep, Memory!Next
<1>4. CASE RequestCancel(r)
  BY <1>4, RequestCancelAgrees DEF MemoryStep, Memory!Next
<1>5. CASE LeaseExpires(r) \/ RetryBecomesDue(r)
  BY <1>5, TimePassesAgrees DEF MemoryStep, Memory!Next
<1>6. ASSUME NEW v \in outbox[r], MarkOutboxPublished(r, v) PROVE MemoryStep
  BY <1>6, MarkOutboxPublishedAgrees DEF MemoryStep, Memory!Next
<1> QED
  BY <1>1, <1>2, <1>3, <1>4, <1>5, <1>6, SaveStepAgrees DEF Caller

\* Every step of the callers on the tables is one on the dictionaries.
LEMMA NextAgrees ==
  ASSUME StoreInv, BlankUntilCreated, Next
  PROVE  MemoryStep
<1>1. ASSUME NEW a \in ApprovalIds, NEW d \in {"approved", "rejected"},
             DecideApproval(a, d)
      PROVE  MemoryStep
  BY <1>1, DecideApprovalAgrees DEF MemoryStep, Memory!Next
<1>2. ASSUME NEW S \in SUBSET Runs, RequeueExpiredLeases(S) PROVE MemoryStep
  BY <1>2, RequeueExpiredLeasesAgrees DEF MemoryStep, Memory!Next
<1>3. ASSUME NEW S \in SUBSET Runs, RequeueDueRetries(S) PROVE MemoryStep
  BY <1>3, RequeueDueRetriesAgrees DEF MemoryStep, Memory!Next
<1>4. ASSUME NEW r \in Runs, ScheduleRetry(r) PROVE MemoryStep
  BY <1>4, ScheduleRetryAgrees DEF MemoryStep, Memory!Next
<1>5. CASE SweepLeases
  BY <1>5, <1>2 DEF SweepLeases, Expired
<1>6. CASE SweepRetries
  BY <1>6, <1>3 DEF SweepRetries, DueRetries
<1> QED
  BY <1>1, <1>4, <1>5, <1>6, CallerAgrees DEF Next, Decide, Retry

\* The empty tables are the empty dictionaries.
LEMMA InitAgrees == Init => Memory!Init
<1> SUFFICES ASSUME Init PROVE Memory!Init
  OBVIOUS
<1> USE DEF Init, StoreInit
<1>1. StoredRuns = [r \in Runs |-> [Memory!NewStoredRun EXCEPT !.status = "absent"]]
  BY DEF StoredRuns, Memory!NewStoredRun
<1>2. StoredApprovals = [a \in ApprovalIds |-> [run_id |-> NoRun, status |-> "unused"]]
  BY DEF StoredApprovals
<1>3. OutboxRecords = {}
  BY DEF OutboxRecords
<1> QED
  BY <1>1, <1>2, <1>3 DEF Memory!Init

\* The PostgreSQL store, driven through its whole interface, does nothing the
\* in-memory store could not do, but for approvals of runs that do not run.
THEOREM ImplementsMemoryStore == Spec => MemoryStoreAgrees
<1>1. StoreInv /\ BlankUntilCreated /\ [Next]_vars => BlankUntilCreated'
  <2>1. UNCHANGED vars => (BlankUntilCreated <=> BlankUntilCreated')
    BY DEF vars, storeVars, runVars, outboxVars, BlankUntilCreated, Exists
  <2> QED
    BY <2>1, NextIsStoreOp, BlankStoreOp
<1>2. StoreInv /\ BlankUntilCreated /\ [Next]_vars => MemoryStep
  <2>1. UNCHANGED vars => UNCHANGED Memory!memoryVars
    BY DEF vars, Memory!memoryVars, StoredRuns, StoredApprovals,
       OutboxRecords, storeVars, runVars, approvalVars, outboxVars
  <2> QED
    BY <2>1, NextAgrees DEF MemoryStep
<1>3. Init => BlankUntilCreated
  BY BlankInit DEF Init
<1> QED
  BY <1>1, <1>2, <1>3, InitAgrees, StoreInvariant, PTL
  DEF Spec, MemoryStoreAgrees, MemoryStep
=============================================================================
