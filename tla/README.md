# Multi-tool agent: a verification project

TLA+ models of the agent backend in `app/`, the TLC runs that check them on
small instances, and TLAPS proofs of what holds on every instance.  File and
line references are to the repository's `app/` directory unless they start
with `docs/`.

## 1. The system

The program answers chat messages with a plan / tool / answer loop.  It does so
on two paths that share the engine:

* the **durable path** (`api/routes/async_runs.py`): a run is a row in
  PostgreSQL, a dispatch message in an outbox table and a job in ARQ on Redis;
  worker processes execute it one saved step at a time;
* the **in-process path** (`api/routes/chat.py`): one request streams the whole
  run from SQLite-backed services, pauses for approval and is resumed by a
  second request.

| Component | State | Operations | Interacts with | What is hard | What makes it correct |
|---|---|---|---|---|---|
| Agent engine `agent/runtime.py` | none: a checkpoint goes in and comes out | `advance` (plan, tool, answer), `stream`, `resume` | model gateway, tool executor | early returns in a fixed order, a hand-cleared approval flag, the step budget | a step either closes the run or moves its key forward; no approval tool runs undecided |
| Run lifecycle `agent/state_machine.py` | none | `transition_run` (no callers) | nobody | the table and the stores may disagree | the stores move runs along the table |
| PostgreSQL run store `persistence/postgres_run_store.py` | `agent_runs`, `run_steps`, `run_events`, `run_approvals`, `outbox_events` | claim, renew, release, save step, approvals, cancel, retry, two sweeps, events, outbox | all of the durable path | conditional updates that race; one key fences two writers | leases, versions, statuses and dispatch records agree |
| Run orchestrator `services/run_orchestrator.py` | local: the checkpoint it read, the outcome | `claim`, `execute_next_step`, `run_to_boundary` | store, engine, queue | long awaits between read and save; crashes; a second worker | the run is a sequential log of steps |
| ARQ worker `worker.py` | job slots | `execute_run`, cron `dispatch_outbox`, cron `recover_runs` | Redis, orchestrator | timeouts, redelivery, overlapping cron jobs | every accepted run settles |
| Outbox dispatcher, queue `services/outbox_service.py`, `queue/` | a list of records; Redis jobs and results | `dispatch_once`, `enqueue_run` | store, Redis | dying between enqueue and mark; deduplication by job id; Redis loss | every queued run is eventually delivered |
| Recovery sweep `services/recovery_service.py` | none | two sweeps | store | racing a worker that is only slow | an abandoned run is requeued |
| Async run API `services/async_run_service.py` | none | create, cancel, decide, stream events | store | a cancel or decision at any moment | decisions count once |
| In-memory run store `persistence/run_store.py` | five dictionaries behind one lock | as the PostgreSQL store | tests of the services | written a second time by hand | each step of the real store is a step of it |
| Event stream `services/event_stream_service.py`, `queue/redis_event_notifier.py` | last sequence sent | replay, wait, stop | store, Redis pub/sub | events appended after the last replay | no gap, no duplicate, everything delivered |
| In-process chat `services/chat_service.py`, `services/approval_service.py`, `persistence/run_repository.py`, `persistence/message_repository.py` | SQLite rows of runs, events and messages; local sequence numbers | `stream_chat`, `handle_decision`, `claim_pending_approval`, `append_event` | engine, event loop | two handlers write to one log with numbers of their own; failure after the claim; a resume loop that awaits nothing | an approval counts once, for the call it was given for; the end is last; one answer |
| Knowledge stores `rag/store.py`, `persistence/knowledge_repository.py` | tables (SQLite, PostgreSQL) or five dictionaries | `add_document`, labels, status, seven reads | document services, retrieval | replacing a document in three different ways | the three hold and return the same |
| Vector stores `rag/vector_store.py` | a dictionary, a collection, or both; the flags `_collection_ready`, `_primary_available` | `upsert`, `delete`, `replace_all`, `search`, `count` | Qdrant | requests that raise after they took effect; restoring a snapshot | a replacement that fails once changes nothing |
| Documents `services/document_service.py`, `services/reindex_job_service.py` | handlers and threads; `reindex_jobs` | create, reindex with or without clearing, roll back | both stores above | two stores without a transaction; a job next to uploads and other jobs; restarts | what is "ready" is indexed, what failed left nothing |
| Chunking `rag/chunking.py`, `rag/hierarchical_chunking.py` | none | split into blocks, cut what is too large | document service | overlaps, headings, blanks at the edges | no text lost, sizes kept, offsets exact |
| Retrieval `rag/retriever.py`, `rag/advanced_retriever.py`, `rag/parent_aggregation.py` | `_bm25_index`, `_bm25_fingerprint`, `_last_embedding_signature` | search, fuse ranks, aggregate parents | both stores | searches in threads share three attributes without a lock | vectors of one embedder are compared, evidence once, best first |
| Tools `tools/`, model gateway `core/llm_gateway.py`, file parsing `services/document_file_parser.py`, HTTP, UI, evaluation | registry, settings | validate, call, parse, render | engine, services | I/O | not modelled, see section 7 |

## 2. The modules

| Module | Models | Kind |
|---|---|---|
| `AgentRuntime` | the engine: `Outcomes(c)` is the set of results `advance` may return for a checkpoint `c`, `StepKey(c)` the idempotency key of the orchestrator | operators |
| `RunLifecycle` | the declared statuses and transition table | operators |
| `RunStore` | the five tables and one action per method of `PostgresRunStore` | state, actions, promises |
| `RunStoreClient`, `MCRunStore` | callers that use the whole store interface in any order | specification |
| `StepLog` | what the platform promises: a sequential log of steps per run | abstract specification |
| `DurableRuns`, `MCDurableRuns` | API, dispatch jobs, queue, workers, sweep, faults, composed over `RunStore` | specification |
| `EventFeed` | what streaming promises: a log that grows and readers that receive it in order | abstract specification |
| `EventStream`, `MCEventStream` | the event stream of one run: writers, the Redis channel, clients that reconnect | specification |
| `MemoryRunStore` | the in-memory run store; `RunStoreClient` maps the tables to its dictionaries | specification that `RunStoreClient` implements |
| `ChatRun`, `MCChatRun` | chat and approval handlers on one event loop, over the SQLite log of a run | specification |
| `KnowledgeStore` | the three knowledge stores side by side, one operator per statement | state, operators, promise |
| `VectorStore` | the three vector stores; an operation is the set of its outcomes | operators |
| `DocumentIndex`, `MCDocumentIndex` | uploads, reindex jobs, searches, failures and restarts, composed over the two modules above | specification |
| `Chunking`, `MCChunking` | both chunkers, one loop iteration per action | specification |
| `Retrieval`, `MCRetrieval` | searches in threads next to an upload or a reindex job | specification |
| `AgentRuntimeProofs`, `RunStoreProofs`, `RunStoreClientProofs`, `DurableRunsProofs`, `EventStreamProofs`, `ChatRunProofs`, `DocumentIndexProofs`, `RagProofs` | theorems | proofs |

### How state and actions correspond to the code

`RunStore` keeps one variable per column the code's control flow reads: `status`,
`version`, `attempt_count`, `checkpoint`, `lease_owner`, `lease`
(`lease_expires_at` as none / live / expired), `cancel_requested`, `next_retry`
of `agent_runs`; the keys of `run_steps`; the types of `run_events` in order;
run and status of `run_approvals`; and of `outbox_events` the versions that have
a record (`outbox`) and those with `published_at` set (`published`), because a
deduplication key is `dispatch:<run>:<version>`.  A store method runs in one
transaction and is one action; a `WHERE` clause of a conditional update is its
guard.  The two sweeps lock the rows they select with `SKIP LOCKED` and a
`LIMIT`, so they requeue any non-empty subset of the eligible runs.

`DurableRuns` splits the worker between its awaits.  `pc[w]` is where the job in
slot `w` stands:

| `pc` | next action | code |
|---|---|---|
| `idle` | `StartJob` | ARQ takes a job (`worker.py:59-67`) |
| `claim` | `Claim`, `ClaimRefused` | `run_orchestrator.py:37-43, 114` |
| `load` | `Load` | `get_run`, lines 46-51 |
| `check` | `CheckStep` | `get_completed_step`, lines 52-63 |
| `advance` | `Advance` | `runtime.advance`, line 70 |
| `save` | `Save` | lines 71-91 |
| `emit` | `Emit`, `NextStep`, `Boundary` | lines 103-119 |

Every other actor (API, dispatch jobs, sweep, clock, faults, other workers) may
act between any two of them.  The steps a worker's slot may suffer are
`WorkerCrash` (the process dies; ARQ delivers the job again) and `JobRaises` (an
exception or `job_timeout`; ARQ drops the job and keeps its result).

`EventStream` is about one run and takes its writers as `DurableRuns` has them:
a save commits the status, the events of the step are appended one by one
afterwards, and each append is followed by a notice on the run's channel.  A
stream is one generator; `pc[c]` is where the stream of client `c` stands:

| `pc` | next action | `services/event_stream_service.py` |
|---|---|---|
| `off`, `ended` | `Connect` | a request with `Last-Event-ID` (`async_runs.py:88-113`) |
| `replay` | `Replay` | `list_events` of at most `Page` events; the cursor moves, lines 24-33 |
| `send` | `Send`, then `CheckStatus` | yield one event, lines 35-36, 42-43, 50-51; `get_run`, lines 37-39, 45-47 |
| `subscribe` | `Subscribe` | line 41; the next replay is the one of line 42 |
| `wait` | `Wait` | a notice or the keepalive, lines 48-49 |

`Disconnect` may come between any two of them.  `subscribed[c]` tells the first
replay from those inside the subscription.  `seen[c]` is a history variable: the
size of the log at the last read.

`ChatRun` is about one server process with one event loop: an action is what a
handler does from one await to the next, because the repository calls between
are synchronous.

| state | code |
|---|---|
| `row`, `events`, `messages` | tables `runs`, `run_events` (position = sequence number), `messages` |
| `chat[r].sequence` | the handler's own counter in `chat_service.py`; `payloads` is what the outcome of the last step still owes |
| `decider[d]` | one request to the approval endpoint, its counter and the checkpoint `resume()` holds |
| `loop` | the handler that keeps the event loop: `resume()` asks for an approval without awaiting and takes the same step again |
| `ran` | the effects of the tools outside the program |

`StartChat`, `ChatPayload`, `ChatAdvance`, `ChatFails`, `ChatReturns` and
`Disconnect` are the life of `stream_chat`; `Decide`, `ResumeAdvance` and
`ResumeRaises` that of `handle_decision`; `Restart` ends every handler and keeps
the tables.  `SequenceFree` is the unique index of `run_events`: an `INSERT` at a
used number raises.

`DocumentIndex` names a chunk by document, build and place, since chunk ids are
fresh at every build.  `upload[d].phase` and `job[j].phase` say which call comes
next; one action is one call to a store, and a call takes one outcome of
`VectorStore`:

| phase | action | code |
|---|---|---|
| `none` | `StartUpload` | `create_document` up to `add_document`, and the embeddings |
| `upserting`, `labelling`, `marking` | `UpsertUpload`, `LabelUpload`, `MarkReady` | the rest of the `try`; each call may raise into the `except` |
| `deleting`, `unlabelling`, `failing` | `RollBackVectors`, `UnlabelUpload`, `MarkFailed` | the `except` branches |
| job: `idle`, `queued` | `CreateJob`, `RunJob` | `create_job`, the background thread |
| job: `listing` | `ListForJob` | `reindex_documents`: documents, new chunks, embeddings |
| job: `replacing` or `upserting` | `ReplaceForJob`, `UpsertForJob` | with and without `clear_vector_store` |
| job: `storing`, `marking` | `StoreForJob`, `MarkForJob` | `add_document` and the last two loops |

`taken` and `missed` are history variables: the chunks whose vector a
`replace_all` or the end of the process took, and those whose vector a search
does not look at because the primary store did not take it.  `AddDocument` writes
a document in the three ways of the three classes (`INSERT OR REPLACE` with
cascades, `ON CONFLICT DO UPDATE` with deletes, five dictionaries), so that
`SameAnswers` compares them after any history.  It compares reads as sets: the
order of `get_chunks`, and of documents of one `created_at`, is not part of it.

`Chunking` keeps text as a sequence of character classes with their places;
`level` is the call that runs, `units` the paragraphs left to place, `parts` the
current block, `cut` the paragraph that is cut by size.  `PlaceUnit`, `CutPiece`
and `FinishSplit` are the loops of `split_parent_blocks`, `split_child_chunks`
and `chunk_text`.  What finds paragraphs and headings and joins parts goes through
a text or a list once: `Scan` says how, and `ParagraphAt`, `WithHeading`, `PieceAt`
and `PartAt` what is found at a place and where the scan goes on.

`Retrieval` has one action per access to what threads share.  `search[s].pc`
goes through embedding (`embed`, `sign`), vectors (`match`, `filter`), words
(`list`, `build`, `mark`, `find`) and aggregation (`gather`, `parent`, `rank`);
`writer` is the upload or the reindex job next to it.  `mixed` and `raced` are
history variables: whether an embedding call came between another one and the
reading of its signature, and whether the index was written while another
thread was in `_get_bm25_index`.

### Abstractions

* Events are numbered; what they say is in `DurableRuns`.  `EventStream` does not
  tell queued from running, and a save with a used key, which changes no status
  but still announces, is a save with the status left alone.

* Message texts, tool arguments, tool results and draft answers are left out;
  the model and the tools may return anything, which is the nondeterminism of
  `PlanOutcomes` and `ExecuteTool`.
* Time: a lease is live until `LeaseLapses`, which may come at any moment: the
  code never renews a lease (60 s) and lets a job run for 120 s.  `outlived` is a
  history variable: the runs whose lease ran out under a job that was executing
  them.  `planned` is another: how often the planner was asked in a run.
* ARQ: a job is known by its id while it is queued, running, or has a kept
  result.  The model keeps results for ever (ARQ: one hour) and redelivers a
  crashed job without counting (ARQ: five tries).  After `QueueLoss` a job id in
  progress may be taken again, but not by a second slot while the first runs.
* A worker that lost its run may find its key already saved after the run is
  completed; it then loops over `load` and `check` until `job_timeout`.
  `RunnableIsFresh` says that this happens to jobs of outlived runs only.
* No method of the durable path creates an approval row (see section 6), so
  `DecideApproval`, lease renewal and release, and retries are driven by
  `RunStoreClient` only.

* `ChatRun`: the model and the tools give any outcome of the engine; tools do not
  raise, because `ToolExecutor` turns their errors into `tool.failed`.  A handler
  that never stops asking stops at `MaxEvents`, so that the run stays finite.
* `DocumentIndex`: there is one upload at a time, because the upload routes run
  on the event loop from beginning to end, and no search meanwhile.  Deleting
  documents is not an operation of this program.  Every call to a store may
  raise.  A write to the database that raises was not committed; a request to
  Qdrant that raises took effect whole or not at all.
* `Chunking`: characters are `word`, `hash`, `space` and `break`; words are not
  spelt.  Overlaps are clamped as the code does.
* `Retrieval`: similarity and BM25 scores are arbitrary orders of what may be
  found.  The order of the set `candidate_ids`, which only decides between equal
  scores, is one fixed order.  `parent_candidate_limit` (20) is above every
  instance; it could only leave out hits at the end before a reranker sees them.  The strategies "lexical" and "vector", labels of older versions, and
  a second writer are left out.

### Bounds

`MaxFaults`, `MaxRecoveries` (of one run by the sweep) and `MaxRetries` bound
the counters and are named in the guards they restrict; `MaxToolSteps` is the
setting itself.  Two workers are enough for every race between two executions
of one run, and one recovery for a stale worker; runs share only slots and dispatch
jobs, so one is enough.  With a step limit of 1 a run has up to three steps (plan,
tool, answer), enough for a plan that is lost and asked for again; `durable_live`
and the theorems have larger limits.  `durable_live` has one slot: as long as no
lease runs out under a job, a second one could only find the run taken, while one
slot makes every further job of the run wait for the first.  One
tool with and one without approval reach every early return of
`_advance_tool` together with the unknown and the missing tool name.
In `EventStream`, `MaxEvents` is two pages, so that a replay is cut by its limit,
and `MaxDrops` one broken connection; streams share nothing but the log, so one
client is enough.  In `MCChatRun` there are three approval requests for one run,
two of which can race for one approval while the third decides the next one,
two restarts, and a step limit of 2; with 20 events the limit `MaxEvents` is
met only by the handler that never stops.  `MCDocumentIndex` has two documents,
two jobs of either kind, and two faults: one call that raises and one whose repair
raises as well, or a fault and a restart.  A document has one chunk there.
Uploads of two chunks next to a job are in `ready_lost`, without faults; the
rollback of an upload that raised between two of its chunks is covered by the
theorems only, which have any number of chunks.  `MCChunking` takes every text of up to six characters, enough for two paragraphs in one
block, a heading, a paragraph that is cut twice, and overlaps up to the point
where they are clamped.  `MCRetrieval` has two searches, one writer and two
builds of two chunks, of which the first has a parent block; `WordHits` bounds
how many chunks a hybrid search finds by words, which the code does not
(`rag/retriever.py:60` ranks all that match).  To keep it small, a search is followed to its answer only
when the other thread does not search (`Alone`); otherwise its accesses to what
searches change are kept and its answer is dropped.

## 3. The runs

| Run | Question | Instance |
|---|---|---|
| `store` | Do leases, versions, statuses and dispatch records agree under any sequence of store operations? | 1 run, 2 workers, 1 approval, 1 recovery, 1 retry |
| `durable_runs` | Under leases that run out, crashes, exceptions and Redis loss: is the log sequential, in order and within the step budget, and what holds of a run until its lease runs out under a job? | 1 run, 2 workers, limit 1, 1 fault of five kinds, 1 recovery |
| `durable_live` | Does every run settle and every job end after a crash, an exception or a dispatch job that stops, while dispatch jobs overlap? | 1 run, 1 worker slot, 2 dispatch jobs, limit 2, 1 fault |
| `event_stream` | Does a client get every event once and in order, and does its stream end? | 1 client, 2 writers, 4 events, page 2, 1 broken connection |
| `chat` | Do log, row, messages and approvals of an in-process run agree whoever writes to it, and do handlers end? | 1 run, 3 approval requests, limit 2, 2 restarts, 20 events |
| `documents` | Are ready documents indexed, do failed uploads leave nothing, do the three knowledge stores agree? | 2 documents of 1 chunk, 2 jobs, 2 faults, 3 backends, hierarchical mode |
| `chunking` | Do chunks lose and repeat nothing, keep their size and say where they come from? | every text of up to 6 characters, both modes, 5 settings |
| `retrieval` | Which searches are right although cache and signature are shared without a lock? | 2 searches, 1 upload or reindex job, 2 builds, 2 chunks |
| `second_approval` | Does a resumed run pause for its second approval? (violated) | as `chat` |
| `stream_truncated` | Does a followed stream reach the end of the log? (violated) | 1 client, 1 writer, 4 events on one page |
| `slow_worker` | Is a completed step never executed again? (violated) | as `durable_runs` |
| `ready_lost` | Does a ready document have its vectors when nothing is under way? (violated) | 2 documents of 2 chunks, 1 job, no fault |

`CHECK_DEADLOCK FALSE` everywhere but in `event_stream` and `retrieval`: the
platform, a chat run, an index and a split stop legitimately once there is
nothing left to do, whereas a client or a search can always act.  Each module
has its `TypeOK`; where a theorem states it, no run repeats it.

**What they show.**  The main result is `StepLogSpec`: however late, duplicated
or crashed the workers are, the tables implement `StepLog`, a sequential log in
which each step starts from the checkpoint its predecessor left.  `save_step`
tests neither lease nor version; the unique key alone is the fence, and it
suffices because a step that does not close the run always moves the key
(`OutcomeAdvances`).  `CompletedIsFinal` follows the same way, whereas CANCELED
is not final (section 6).  `FeedSpec` is the same kind of result for streaming:
pages, reconnects and lost notices add nothing to and take nothing from the feed.

`PlanBudget` bounds plans twice.  At most `max_tool_steps` plans are saved,
whatever happens.  The planner may be asked more often, because a plan that is lost
in a crash before its save is asked for again: once more for each recovery, as long
as no lease of the run ran out under a job; a run that was outlived has no bound,
since every worker that lost it may have asked.

Several properties except the runs in `outlived` in the same way (`SingleExecutor`,
`SavedStepNotRepeated`, `AnswerOnce`, `NoneAbandoned`, `LifecycleWithRecovery`,
and the liveness properties).  They show that crashes, exceptions, redelivery and
duplicate messages do no harm to a run by themselves; they say nothing of the
worker that is slower than its lease, whose harm is in section 6.

`MemoryStoreAgrees` is a refinement as well: what the PostgreSQL store does to its
tables is a step of the dictionaries the tests run on.  It goes one way.  What only
the in-memory store does (`schedule_retry` on a run that is not running) and what
calls return are not compared, so a test that relies on either shows nothing of
the real store.

In `ChatRun` the unique index of `run_events` is the fence.  A chat handler whose
number is used raises and breaks its stream, also when it wanted to report an
error; that is what keeps `run.completed` last and the answer single when a
decision overtakes the handler that still owes `run.waiting_approval`.
`BudgetPerDecision` says how far the step limit reaches, since a decision starts
a new checkpoint.

`ReadyIsIndexed` has no assumption about which jobs and uploads overlap or which
calls raise.  It says who can leave a ready document without a vector: a
`replace_all` that did not know of it or that failed twice, the end of the process
(for the default store in memory, of every document), and, for what a search looks
at, a primary store that missed the write.  No rollback, retry or failed upload
can.  That those three happen, and that the status does not tell, is section 6.

In `Retrieval` the exceptions are the history variables: `FreshIndex` holds while no two
threads are in `_get_bm25_index` at once, `NoForeignScores` while no embedding
call comes between another and the reading of its signature.

**Fairness.**  `FairSpec` of `DurableRuns` assumes that ARQ keeps polling its
queue and running its two cron jobs, that an executing job gets to its next
await, and that time passes.  Nothing makes a fault, a creation or a cancellation
happen.  The liveness properties are checked without the faults `queue_loss` and
`claim_error`; both of those break `EveryRunSettles` (section 6).  The fair specification of `EventStream` assumes
that a generator that is iterated gets to its next yield (`Wait` always can,
because of the 15 s timeout) and that a client whose stream is gone opens it
again, as an `EventSource` does; writers owe nothing.  `FairSpec` of `ChatRun`
assumes that the event loop runs every task that is ready, and that the model
and the tools answer or raise, as both have timeouts; nobody owes a decision.
`HandlersEnd` still has to except the handler that keeps the loop.

## 4. Hazards

`PROJECT.json` lists them at their lines.  The ones the model is built around:
a checkpoint that is stale when its step is saved; two workers on one run; a
crash between the effect of a tool and its save; a message lost, sent twice or
swallowed by deduplication; a cancellation or decision at any moment; a step
key that is reused without moving on; two handlers that number one log; an
approval claimed by a handler that then fails; two stores written one after the
other, and undone one after the other; an index replaced while others write;
attributes that threads share without a lock.

## 5. Proofs

All theorems hold for every set of runs, workers, dispatch jobs, tools and
approvals, every step limit and every number of faults; for streams, every set of
clients and writers, every page size and number of broken connections; for the
in-process path, every number of runs, requests and restarts; for the index,
every number of documents, chunks, jobs and faults; for chunks, every document,
every size and every overlap; for searches, every number of threads, every size of a build and every limit on matches, evidence and hits.
They rest on the named
`ASSUME`s of the modules (the "no value" constants are not values, the limits
are numbers) and on nothing else.

| module | what it proves |
|---|---|
| `AgentRuntimeProofs` | facts about one step of the engine: outcomes are typed (`OutcomeType`), a step closes its run or moves its key up (`OutcomeAdvances`), which checkpoints pause and which complete (`OutcomeFacts`), a tool that needs approval runs only after "approved" (`RanWasApproved`) |
| `RunStoreProofs` | `StoreInv` is preserved by every operation of the store, and what no operation does |
| `RunStoreClientProofs` | the store's promises, for callers that use any operation at any time, and that the PostgreSQL store implements the in-memory one |
| `DurableRunsProofs` | the promises of the platform, the refinement of `StepLog`, what `StepLog` itself promises, and how often the planner is asked |
| `EventStreamProofs` | no stream misses a wake-up, and streams implement the feed |
| `ChatRunProofs` | log, row, messages, tools and decisions of an in-process run agree |
| `DocumentIndexProofs` | the three knowledge stores agree; failed uploads leave nothing; ready documents stay indexed |
| `RagProofs` | cutting a document keeps every word, every size and every offset, and ends; a search uses a current index, compares vectors of one embedder, counts evidence once and ranks the best first, next to other searches and a writer |

**The argument of `DurableRunsProofs`.** None of the platform's invariants is
inductive by itself; `PlatformInv` is. It has four parts.

1. `TypeInv`: types, `StoreInv`, and that a finished step is an outcome of the
   base it was computed from. Every step of the platform is an operation of the
   store or leaves the tables alone (`NextIsStoreOp`), so the store's invariant is
   used as a lemma and not proved twice.
2. `LogInv`: no saved key has a higher rank than the key of the current
   checkpoint, and that key is itself saved only if the run has been closed. This
   is where the engine matters: a step that leaves the run RUNNING raises the rank
   (`OutcomeAdvances`), so its new key is fresh; a step that pauses or completes
   keeps the checkpoint, so its key is taken from then on.
3. `BaseInv`: a worker that has read a checkpoint has the current one or finds its
   key taken. `StoreEffect` follows: as far as checkpoints and keys go, a step of
   the whole system is quiet or enters one engine step on top of the current
   checkpoint. That is the refinement of `StepLog`, and it needs no lease. The part
   about pausing checkpoints is needed by the announcements: a worker that lost the
   race still announces the pause, which is true because only a pause can have been
   saved under that key.
4. `UnsentInv` and `EventInv`: unsent events are announcements of the worker's own
   outcome, and what is in the event log has happened.

**Until a lease runs out under a job.** `LeaseInv` adds, for every run that is not
`outlived`, that an executing job holds the live lease of the RUNNING run until its
own save closes the run (`HoldsRun`), that nobody replaces the checkpoint behind
its back (`HasCurrent`) and that a RUNNING run always has a lease (`RunInv`). The
step that matters is `LeaseLapses`: either no job executes the run, and `HoldsRun`
has nothing to say, or the run joins `outlived` with that very step. From it follow
`OneExecutor`, `SavedStepRunsOnce`, `NoRunAbandoned`, `RunsFollowLifecycle` and the
second part of `RunnableStaysFresh`.
`AnsweredAtMostOnce` needs one thing more (`AnswerInv`): a job that has the
completion still to announce is the only one executing its run and finds it
unannounced.  It holds at the save, since the run is RUNNING until then and what
is announced has happened, and the announcement is the last event of its step.
`PlannerBudgeted` counts: `PlanInv` says that every plan that was asked for is
behind the checkpoint, is open in the hands of the one job that executes the run,
or was given up with an attempt; the sweep, which raises `attempt_count`, is the
only way to a second job.

**The PostgreSQL store implements the in-memory one** (`ImplementsMemoryStore`,
the property `MemoryStoreAgrees`).  There is one lemma per operation: its guard on
the columns is the guard on the dictionary entry, and a row written is an entry
replaced (`OneRow`, `ManyRows`).  The outbox is what takes an argument.  Both
stores skip a record whose key is in use, and it is proved that neither ever does:
the version of a requeue is new to the outbox, and so is its key, unpublished, to
the dictionary (`DispatchAdded`).  That needs `OutboxBelowVersion`, that only
records in the outbox are published, and that a run without a row has the values
of a new one (`BlankUntilCreated`).

**The argument of `EventStreamProofs`.** `StreamInv` says of each client that what
it has is the first events in order (`Prefix`), that the buffer continues exactly
there and ends at the cursor, within the log (`Ahead`), and that whatever was
committed after a subscribed stream's last read is still to be announced to it
(`Awake`).  A new connection keeps `Ahead` because the last event the client has
is, by `Prefix`, numbered by how many it has.  `Send` is then a step of the feed,
and `StreamsImplementFeed` is its safety part, `FeedSpec` without fairness.

**The argument of `ChatRunProofs`.**  `ChatInv` says who may write to a run.  The
chat handler may while its own number is the next free one (`Writes`).  A decision
takes two numbers at once, so from then on the chat handler's number is used: it
can only raise.  At most one decider resumes a run, and only while the chat
handler does not write, because the approval that lets it in is claimed when the
row says "pending", and only a writer can ask for another one.  With one writer,
the row is what the log says (`RowOk`), the end is last (`LogOk`), and decisions,
requests, approvals, executed tools and answers are counted against each other
(`CountsOk`): an approved tool that runs uses up the one approval its decider
holds (`Entitled`), and each outcome spends one step of a budget that every
decision renews.

**The argument of `DocumentIndexProofs`.**  It has two invariants.  In `BaseInv`
the dictionaries of the in-memory store are views of the tables (`Agree`), so the
reads are equal; a collection that does not exist holds no points; and an upload
that has rolled back has neither labels nor vectors left unless it knows of a
leftover (`CleanOk`), from the moment of the delete on, since a later call may
raise as well.  The part about the vector stores is proved as lemmas about each
operation's set of outcomes (`Upserted`, `Deleted`, `Replaced`, `Looked`).
`KeepInv` is about what is indexed.  `Held` is what the property says of one chunk,
and no step of anybody takes it from a chunk it does not itself roll back
(`HeldSame`, `HeldUpsert` and their like): what leaves the vector store joins
`taken` or belongs to an upload that is not ready.  `UploadKept` and `JobKept` say
which vectors an upload and a job have written so far, `DocKept` that a stored
chunk of a job, and of an upload that is ready, is held.  What connects them is
that a job stores its chunks only after it has written their vectors, and that a
document an upload is still working on is "pending" or has been replaced by a job
altogether (`NoUpload`), so that the rollback deletes nothing that is ready.

**The argument of `RagProofs`, cutting a document.**  `SplitInv` follows the ink
(the characters that are not blank) through the calls.

1. *What is held.*  The chunks, the blocks of the call, its current parts, the
   rest of the paragraph being cut, the paragraphs not placed and the parents not
   split together hold all the ink of the document (`SplitHolds`).  Without an
   overlap they hold it in this order, each before the next (`SplitOrder`), so
   that none has what another one has.  `WordsKept` is both, where nothing but
   chunks is left.
2. *How much.*  The current parts, joined, and each block fit the size of the
   call (`SplitSizes`).  The sum that `_joined_length` takes is the length of what
   `flush_current` makes: both are `Joined`, two breaks between any two parts.
3. *Where.*  `SplitPlaces`, for documents whose paragraphs are two characters
   apart: every text of `units`, `parts`, `blocks`, `parents` and `waiting` stands
   in the document where its offsets say, counted from `base`, and the next one
   two characters on.  A break that joins two parts then stands where the document
   has a line break.  A child inherits this from its parent because blank lines
   in the text of a parent are two breaks as well (`Apart`), so that
   `_paragraph_units` finds in it what the document had.
4. *The end.*  `SplittingEnds` needs `SplitTyped` only: the cursor is within the
   paragraph being cut.  It moves on whatever the overlap because of
   `max(end - overlap, cursor + 1)`; each call has fewer levels or fewer parents
   left than the last one.

What a scan finds is proved without induction over lists: `Downwards` says that a
set of places which holds the end, and each place whose next one it holds, has
all of them, by its greatest missing one (`LeastNat`, from the library's `WFMin`).

**The argument of `RagProofs`, searching.**  `RetrievalInv` is the conjunction of what
threads may rely on.

1. *The index.*  `FreshIndex` is far from inductive: an index that is current
   must not be current by chance.  `IndexInv` says that whatever is remembered
   was once all that the store had, and the store changes once, so a memory is
   nothing, the old build or what is there now; that between the two writes of a
   rebuild the fingerprint still is another one than that of the store; and that
   a thread that has read older chunks finds the fingerprint older as well.
2. *The labels.*  `LabelInv` follows the embedder that computed a vector from the
   call (`last`) to the signature, to the label and to the search that compares
   it.  The step that could hurt a search already in `filter` is a vector that
   is put in place of another; there the chunk has never had a label
   (`Unlabelled`), so no search has let it through.
3. *The evidence.*  A chunk goes under its parent block if the store has the
   block when it is looked for.  `ParentHits` says that a chunk standing for
   itself, although its build has blocks, has lost them for good, and
   `StoreChanges` that this, with `SeenInv` (nothing of the new build is
   remembered before it is stored), survives every step of the writer.
4. *The order.*  `DiscoveryInv` is the reason why rounding does no harm to
   `parent_child`: hits are found in the order of their vector ranks, then of
   their word ranks, and a stable sort keeps that order among equal scores, with
   `FusedOrder` (a score does not fall when a rank improves) for every limit.  In
   a hybrid search equal scores come in the order of a set.  It is proved that six
   digits tell 30/100 of two reciprocal ranks apart up to rank 488 (`FarRank`), so
   that only hits with a rank beyond it may swap.  A search by words ranks every
   chunk it finds, so such ranks do occur in a larger knowledge base.

Sorting is proved without recursive operators: `OrderExists` shows by descent on
the number of hits (`LeastNat`, from the library's `WFMin`) that a permutation in
descending order exists, which is what `Sorted` chooses.

**Only model-checked:** liveness (`EveryRunSettles`, `EveryJobEnds`,
`FinishedStreamEnds`, `HandlersEnd`, the fairness of `FeedSpec`), which is out of
the prover's reach; and that the violated properties of section 6 are violated.

## 6. Where the code and its documents disagree

Four are refuted by a run of their own; the quotations are in `PROJECT.json`.

* `second_approval`: when a resumed run plans a second tool that needs approval,
  `resume()` (`agent/runtime.py:260`) asks for it, awaits nothing and takes the
  same step again; events are appended without end and no other request is
  served.  The README says that high-risk tools "still pause for approval".
* `stream_truncated`: COMPLETED is committed before the last events are appended,
  and a stream returns on COMPLETED without another replay.  A stream that looks
  in between ends without the answer.  A client of the run API gets it when it
  connects again (`FeedSpec`); the chat facade follows one stream only.
* `slow_worker`: the idempotency key is looked up before the step and not again
  (`services/run_orchestrator.py:54`), a lease lasts 60 s and a job 120 s, so two
  workers may execute the same step although only one saves it.  The design (line
  182) says that a completed step is "reused rather than executed again".
* `ready_lost`: a clearing job lists the documents and replaces the whole index
  much later (`services/document_service.py:107`, `128`).  An upload that ends in
  between loses its vectors, and its document stays "ready"; so does one that a
  second clearing job works on.  `docs/internship-project-prep.md:55` calls that
  the inconsistent state the rollback is there to avoid.

More were met while modelling and have no run of their own.  "The design" is
`docs/superpowers/specs/2026-07-12-agent-execution-platform-design.md`.

*On the durable path:*

* A slow worker's save overwrites CANCELED (`persistence/postgres_run_store.py:221`
  tests no status), although the design (line 130) calls CANCELED terminal.
* A worker starts steps of a run whose cancellation it could have seen
  (`services/run_orchestrator.py:46` reads the run and not the column); the design
  (line 130) has workers check between steps.
* The run pauses (`services/run_orchestrator.py:72`) without an approval row, so
  nobody can decide it; the design (line 120) requeues it on the decision.  Were
  a row created, `decide_approval` records the decision on the row but not in
  the checkpoint, and the step's key is used: the resumed job would find its key
  saved and loop.
* A save that comes after the sweep requeued the run leaves it RUNNING with a
  NULL lease (line 230), which `lease_expires_at < now` (line 407) never selects;
  the design (line 269) says eligible runs recover.
* A message Redis loses after its record was marked is never sent again: no sweep
  looks at queued runs (`services/outbox_service.py:14`; the design, line 319,
  counts on "periodic recovery scans").
* A job whose claim raises is dropped by ARQ and leaves the run queued (the fault
  `claim_error`).
* Nothing compares `attempt_count` with `max_attempts`; the design (line 198)
  allows three recoveries.
* The stream of a run that waits for approval, the facade's too, sends keepalives
  for ever.
* The sweep moves RUNNING runs to QUEUED, which `ALLOWED_TRANSITIONS` does not
  list (`LifecycleWithRecovery` states what does hold).
* Of two workers that lost a race both may announce the answer (`AnswerOnce`
  excepts runs in `outlived`).

*In process:*

* `resume()` begins with a new checkpoint, so `MAX_TOOL_STEPS` rounds (README.md:321)
  are counted from one again after every decision.
* A restart empties the vector store in memory, which is the default next to a
  SQLite file (`core/config.py:32`, `35`), and the fallback of the dual store.  The
  documents stay "ready" and nothing rebuilds the index (`taken`).
* `replace_all` deletes before it writes; when that fails and the restore fails as
  well (`rag/vector_store.py:150`), the vectors of ready documents are gone, while
  the job is "failed" and the documents are as they were.  The same holds when
  `add_document` raises after `replace_all`: the documents not yet stored keep
  their old chunks without vectors (`services/document_service.py:136`).
* After a failed write to the primary vector store, the next one that succeeds
  makes it the one that is searched again, without what it missed
  (`rag/vector_store.py:361`).  The vectors are then in the fallback only (`missed`).
* Two threads in `_get_bm25_index` (`rag/advanced_retriever.py:132`) may leave a
  stale index under a current fingerprint.
* Two looks at the store: a chunk read by `get_chunk` whose document is replaced
  by a reindex job before `get_parent_block` (`rag/parent_aggregation.py:115`)
  stands for itself behind a hit of its parent block; both show it, one of them
  from a build that is gone (`EvidenceOnce` excepts chunks the store has lost).
* Scores are rounded to six digits before they are compared
  (`rag/retriever.py:131`): from rank 489 on a hybrid search may order hits that
  differ in rank either way (`BestRankedFirst`).
* Paragraphs are joined with two line breaks whatever stood between them
  (`rag/hierarchical_chunking.py:60`), so behind a wider gap the offsets of a block
  do not fit its text (`OffsetsExact` is about gaps of two characters).
* The signature is read after the embedding call (`services/document_service.py:67`);
  a search in another thread in between gives the chunks the label of another
  embedder, against README.md:188.

## 7. Plan, and what is not modelled

Modelled in this order: engine, store, durable platform and their step log; the
event stream and its feed; the in-process path; the index; the in-memory run
store; chunking and retrieval; and the theorems of section 5, which by now state every
safety invariant and action property that a run checks.  What would come
next: validation and dispatch of tool calls, and the order in which the model
gateway tries its providers.

Not modelled:

* **Retry policy** (`agent/retry_policy.py`): a pure function that no code calls.
* **Tools and MCP adapter**: to the engine a call is an outcome of
  `_advance_tool`, which `AgentRuntime` models with all its early returns; the
  tools' own work is text processing and I/O.
* **Language model gateway**: its answers are the nondeterminism of
  `PlanOutcomes`; prompts and parsing of answers have no state.
* **File parsing, OCR, export**: text and image processing.
* **HTTP server, configuration, observability, browser UI, evaluation runner**:
  wiring, logging, rendering and offline measurement.
* **Parts of modelled components**: request validation and the wire format of the
  run API; the single-signal retrieval strategies, tokenizing, BM25 scores and
  embeddings, which are numerics; `clear()` of the stores, which serves tests.
