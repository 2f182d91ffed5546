---------------------------- MODULE DocumentIndex ----------------------------
(***************************************************************************)
(* Uploads and reindex jobs (app/services/document_service.py,             *)
(* reindex_job_service.py, app/api/routes/documents.py) over the knowledge *)
(* store and the vector store, which no transaction spans.                 *)
(*                                                                         *)
(* The upload routes run their handler on the event loop from beginning to *)
(* end: there is one upload at a time, and no search during an upload.     *)
(* A reindex job runs in a background thread, next to everything else.     *)
(* One action is one call to a store; calls of other threads come between. *)
(* Any call may raise.  A write to the knowledge store or to reindex_jobs  *)
(* that raises was not committed.                                          *)
(***************************************************************************)
EXTENDS KnowledgeStore

CONSTANTS
  Jobs,        \* reindex jobs
  Upload,      \* the build an upload makes
  MaxFaults    \* bound: calls that raise and restarts of the process

ASSUME BuildsAssumption == Builds = Jobs \cup {Upload} /\ Upload \notin Jobs
ASSUME FaultBoundAssumption == MaxFaults \in Nat

VARIABLES
  vectors,  \* the vector store
  upload,   \* the upload handler of each document
  job,      \* table reindex_jobs and the thread of each job
  taken,    \* history: chunks whose vector replace_all or a restart took
  missed,   \* history: chunks whose vector a search does not look at
            \* because the primary store did not take it
  faults    \* calls that raised and restarts of the process so far

V == INSTANCE VectorStore WITH Points <- ChunkId

historyVars == <<taken, missed>>
vars == <<knowledgeVars, vectors, upload, job, historyVars, faults>>

UploadState ==
  [phase : {"none", "upserting", "labelling", "marking",
            "deleting", "unlabelling", "failing", "returned", "raised", "gone"},
   chunk : 1..ChunksPerDocument, leftover : BOOLEAN]

JobState ==
  [status : {"none", "queued", "running", "completed", "failed"},
   phase : {"idle", "queued", "listing", "replacing", "upserting",
            "storing", "marking", "ended", "gone"},
   clear : BOOLEAN, documents : SUBSET Documents,
   todo : SUBSET Documents, points : SUBSET ChunkId]

TypeOK ==
  /\ KnowledgeTypeOK
  /\ vectors \in V!VectorState
  /\ upload \in [Documents -> UploadState]
  /\ job \in [Jobs -> JobState]
  /\ taken \subseteq ChunkId /\ missed \subseteq ChunkId
  /\ faults \in 0..MaxFaults

Init ==
  /\ KnowledgeInit
  /\ vectors \in {V!EmptyStore(b) : b \in V!Backend}
  /\ upload = [d \in Documents |->
       [phase |-> "none", chunk |-> 1, leftover |-> FALSE]]
  /\ job \in [Jobs -> [status : {"none"}, phase : {"idle"}, clear : BOOLEAN,
                       documents : {{}}, todo : {{}}, points : {{}}]]
  /\ taken = {} /\ missed = {}
  /\ faults = 0

Uploading == {d \in Documents :
                upload[d].phase \notin {"none", "returned", "raised", "gone"}}
Running == {j \in Jobs : job[j].phase \notin {"idle", "queued", "ended", "gone"}}

\* An operation of the vector store with one of its outcomes.
VectorCall(outcomes, Ok, Raises) ==
  \E o \in outcomes :
    /\ faults + o.faults <= MaxFaults
    /\ faults' = faults + o.faults
    /\ vectors' = o.store
    /\ IF o.raised THEN Raises ELSE Ok

Fault == faults < MaxFaults /\ faults' = faults + 1

\* A call that goes well, or raises.
MayRaise(Ok, Raises) == (Ok /\ UNCHANGED faults) \/ (Raises /\ Fault)

\* History: what the step takes from the vector store, and the chunks of S it
\* was to write that a search does not look at.
Takes == taken' = taken \cup (V!Vectors(vectors) \ V!Vectors(vectors'))
Misses(S) == missed' = missed \cup (S \ V!Searched(vectors'))

-----------------------------------------------------------------------------
(* DocumentService.create_document *)

UploadGoesTo(d, phase) == upload' = [upload EXCEPT ![d].phase = phase]

\* The chunks are cut and stored with the document, which is "pending";
\* embed_passages, which reads no store, raises inside the try.
StartUpload(d) ==
  /\ upload[d].phase = "none" /\ Uploading = {}
  /\ \A e \in Documents : e < d => upload[e].phase # "none"
  /\ \/ /\ AddDocument(d, "pending", "none", Upload)
        /\ MayRaise(UploadGoesTo(d, "upserting"), UploadGoesTo(d, "deleting"))
     \/ UploadGoesTo(d, "raised") /\ Fault /\ UNCHANGED knowledgeVars
  /\ UNCHANGED <<vectors, job, historyVars>>

UploadChunk(d) ==
  [document |-> d, build |-> Upload, index |-> upload[d].chunk]

UpsertUpload(d) ==
  /\ upload[d].phase = "upserting"
  /\ VectorCall(V!Upsert(vectors, UploadChunk(d)),
                UploadGoesTo(d, "labelling"), UploadGoesTo(d, "deleting"))
  /\ Misses({UploadChunk(d)})
  /\ UNCHANGED <<knowledgeVars, job, taken>>

\* set_chunk_embedding_provider, inside the try.
LabelUpload(d) ==
  /\ upload[d].phase = "labelling"
  /\ MayRaise(
       /\ SetChunkLabels({UploadChunk(d)}, "signature")
       /\ upload' =
            IF upload[d].chunk = ChunksPerDocument
              THEN [upload EXCEPT ![d].phase = "marking"]
              ELSE [upload EXCEPT ![d].phase = "upserting", ![d].chunk = @ + 1],
       UploadGoesTo(d, "deleting") /\ UNCHANGED knowledgeVars)
  /\ UNCHANGED <<vectors, job, historyVars>>

\* set_document_index_status, inside the try.
MarkReady(d) ==
  /\ upload[d].phase = "marking"
  /\ MayRaise(SetIndexStatus(d, "ready") /\ UploadGoesTo(d, "returned"),
              UploadGoesTo(d, "deleting") /\ UNCHANGED knowledgeVars)
  /\ UNCHANGED <<vectors, job, historyVars>>

\* Mutant of RollBackVectors: what was written stays in the index.
RollBackVectors_Skipped(d) ==
  /\ upload[d].phase = "deleting"
  /\ UploadGoesTo(d, "unlabelling")
  /\ UNCHANGED <<knowledgeVars, vectors, job, historyVars, faults>>

\* _rollback_chunk_vectors: an error is logged and forgotten, and the dual
\* store swallows one of its primary store.
RollBackVectors(d) ==
  /\ upload[d].phase = "deleting"
  /\ VectorCall(V!Delete(vectors, ChunksOf(d, Upload)),
       upload' = [upload EXCEPT ![d].phase = "unlabelling",
                                ![d].leftover = ~vectors'.available],
       upload' = [upload EXCEPT ![d].phase = "unlabelling",
                                ![d].leftover = TRUE])
  /\ UNCHANGED <<knowledgeVars, job, historyVars>>

\* An error on the way through the chunks leaves the handler.
UnlabelUpload(d) ==
  /\ upload[d].phase = "unlabelling"
  /\ MayRaise(
       SetChunkLabels(ChunksOf(d, Upload), "none") /\ UploadGoesTo(d, "failing"),
       /\ \E k \in 1..ChunksPerDocument :
            SetChunkLabels({c \in ChunksOf(d, Upload) : c.index < k}, "none")
       /\ UploadGoesTo(d, "raised"))
  /\ UNCHANGED <<vectors, job, historyVars>>

\* Mutant of MarkFailed: the error path marks the document ready.
MarkFailed_Ready(d) ==
  /\ upload[d].phase = "failing"
  /\ SetIndexStatus(d, "ready")
  /\ UploadGoesTo(d, "returned")
  /\ UNCHANGED <<vectors, job, historyVars, faults>>

MarkFailed(d) ==
  /\ upload[d].phase = "failing"
  /\ MayRaise(SetIndexStatus(d, "failed") /\ UploadGoesTo(d, "returned"),
              UploadGoesTo(d, "raised") /\ UNCHANGED knowledgeVars)
  /\ UNCHANGED <<vectors, job, historyVars>>

UploadStep(d) ==
  \/ UpsertUpload(d) \/ LabelUpload(d) \/ MarkReady(d)
  \/ RollBackVectors(d) \/ UnlabelUpload(d) \/ MarkFailed(d)

-----------------------------------------------------------------------------
(* ReindexJobService and DocumentService.reindex_documents *)

\* list_documents sorts by created_at, newest first.
Newest(S) == CHOOSE d \in S : \A e \in S : e <= d

FirstChunk(S) ==
  CHOOSE c \in S : \A e \in S :
    IF e.document = c.document THEN c.index <= e.index
                               ELSE e.document < c.document

JobGoesTo(j, phase) == job' = [job EXCEPT ![j].phase = phase]

\* The exception reaches run_job, whose own update may raise.
JobFails(j) ==
  \E status \in {"failed", "running"} :
    job' = [job EXCEPT ![j].phase = "ended", ![j].status = status]

JobCompletes(j) ==
  job' = [job EXCEPT ![j].phase = "ended", ![j].status = "completed"]

\* create_job; the thread starts after the response is sent.
CreateJob(j) ==
  /\ job[j].phase = "idle" /\ Uploading = {}
  /\ job' = [job EXCEPT ![j].phase = "queued", ![j].status = "queued"]
  /\ UNCHANGED <<knowledgeVars, vectors, upload, historyVars, faults>>

\* The first update is outside the try.
RunJob(j) ==
  /\ job[j].phase = "queued"
  /\ MayRaise(
       job' = [job EXCEPT ![j].phase = "listing", ![j].status = "running"],
       JobGoesTo(j, "gone"))
  /\ UNCHANGED <<knowledgeVars, vectors, upload, historyVars>>

\* list_documents, the new chunks of every document listed and their
\* embeddings.  Without chunks there is nothing to do.
ListForJob(j) ==
  /\ job[j].phase = "listing"
  /\ MayRaise(
       IF ListDocuments = {}
         THEN JobCompletes(j)
         ELSE job' = [job EXCEPT
                ![j].phase = IF job[j].clear THEN "replacing" ELSE "upserting",
                ![j].documents = ListDocuments,
                ![j].points = UNION {ChunksOf(d, j) : d \in ListDocuments}],
       JobFails(j))
  /\ UNCHANGED <<knowledgeVars, vectors, upload, historyVars>>

StartStoring(j) ==
  job' = [job EXCEPT ![j].phase = "storing", ![j].todo = job[j].documents]

\* Whatever the listing did not know of goes as well.
ReplaceForJob(j) ==
  /\ job[j].phase = "replacing"
  /\ VectorCall(V!ReplaceAll(vectors, job[j].points),
       StartStoring(j), JobFails(j))
  /\ Takes /\ Misses(job[j].points)
  /\ UNCHANGED <<knowledgeVars, upload>>

\* The other mode adds the new vectors one by one; the old ones stay.
UpsertForJob(j) ==
  /\ job[j].phase = "upserting"
  /\ LET c == FirstChunk(job[j].points) IN
       /\ VectorCall(V!Upsert(vectors, c),
            IF job[j].points = {c}
              THEN job' = [job EXCEPT ![j].phase = "storing", ![j].points = {},
                                      ![j].todo = job[j].documents]
              ELSE job' = [job EXCEPT ![j].points = @ \ {c}],
            JobFails(j))
       /\ Misses({c})
  /\ UNCHANGED <<knowledgeVars, upload, taken>>

\* add_document with the new, labelled chunks; the document is "ready".
StoreForJob(j) ==
  /\ job[j].phase = "storing"
  /\ LET d == Newest(job[j].todo) IN
       MayRaise(
         /\ AddDocument(d, "ready", "signature", j)
         /\ job' = [job EXCEPT
              ![j].phase = IF job[j].todo = {d} THEN "marking" ELSE @,
              ![j].todo = IF job[j].todo = {d} THEN job[j].documents ELSE @ \ {d}],
         JobFails(j) /\ UNCHANGED knowledgeVars)
  /\ UNCHANGED <<vectors, upload, historyVars>>

\* The last two loops: the labels are set already, the status is set again.
MarkForJob(j) ==
  /\ job[j].phase = "marking"
  /\ LET d == Newest(job[j].todo) IN
       MayRaise(
         /\ SetIndexStatus(d, "ready")
         /\ IF job[j].todo = {d} THEN JobCompletes(j)
                                 ELSE job' = [job EXCEPT ![j].todo = @ \ {d}],
         JobFails(j) /\ UNCHANGED knowledgeVars)
  /\ UNCHANGED <<vectors, upload, historyVars>>

JobStep(j) ==
  \/ RunJob(j) \/ ListForJob(j) \/ ReplaceForJob(j)
  \/ UpsertForJob(j) \/ StoreForJob(j) \/ MarkForJob(j)

-----------------------------------------------------------------------------
\* A search on the event loop; it may find out that the collection is gone
\* or that the server does not answer.
Search ==
  /\ Uploading = {}
  /\ VectorCall(V!Look(vectors), TRUE, TRUE)
  /\ UNCHANGED <<knowledgeVars, upload, job, historyVars>>

\* The server process ends and comes back with empty dictionaries, among them
\* the whole of the vector store "memory", next to the tables on disk.
Restart ==
  /\ Fault
  /\ vectors' = V!Reopened(vectors)
  /\ upload' = [d \in Documents |->
       IF d \in Uploading THEN [upload[d] EXCEPT !.phase = "gone"] ELSE upload[d]]
  /\ job' = [j \in Jobs |->
       IF j \in Running \/ job[j].phase = "queued"
         THEN [job[j] EXCEPT !.phase = "gone"] ELSE job[j]]
  /\ Takes
  /\ UNCHANGED <<knowledgeVars, missed>>

Next ==
  \/ \E d \in Documents : StartUpload(d) \/ UploadStep(d)
  \/ \E j \in Jobs : CreateJob(j) \/ JobStep(j)
  \/ Search
  \/ Restart

Spec == Init /\ [][Next]_vars

-----------------------------------------------------------------------------
\* The vector of a chunk was written; it is there, and a search looks at it.
\* Or replace_all or a restart took it, or the primary store missed it.
Held(c) ==
  \/ c \in taken
  \/ c \in V!Vectors(vectors) /\ c \in V!Searched(vectors) \cup missed

\* Whatever raises and whichever jobs and uploads overlap, a document is
\* "ready" only once the vectors of all the chunks it now has were written,
\* and no rollback, failed request or retry takes one of them away again:
\* that is left to a later replace_all and to the end of the process.
ReadyIsIndexed ==
  \A d \in Documents :
    StatusOf(d) = "ready" => \A c \in GetDocumentChunks(d) : Held(c)

\* docs/internship-project-prep.md:55 on what the rollback avoids: "the
\* database says ready, but the vector store has no such vectors".  It is
\* claimed here of the moments when nothing is under way.
ReadyHasVectors ==
  (Uploading = {} /\ Running = {}) =>
    \A d \in Documents :
      StatusOf(d) = "ready" => GetDocumentChunks(d) \subseteq V!Vectors(vectors)

\* An upload that failed, at whatever call, leaves no label behind, and no
\* vector unless the delete of the rollback failed as well, which the dual
\* store does not tell.
FailedLeavesNothing ==
  \A d \in Documents :
    (StatusOf(d) = "failed" /\ upload[d].phase = "returned") =>
      \A c \in ChunksOf(d, Upload) :
        /\ LabelOf(c) # "signature"
        /\ c \in V!Vectors(vectors) => upload[d].leftover
=============================================================================
