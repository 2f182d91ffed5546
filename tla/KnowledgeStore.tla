--------------------------- MODULE KnowledgeStore ---------------------------
(***************************************************************************)
(* The knowledge store: documents, their chunks and their parent blocks    *)
(* (app/rag/store.py, app/persistence/knowledge_repository.py).            *)
(*                                                                         *)
(* Three classes implement one interface.  SqliteKnowledgeStore and        *)
(* PostgresKnowledgeStore keep three tables, InMemoryKnowledgeStore five   *)
(* dictionaries, of which two hold the same objects under other keys.  The *)
(* settings choose one of them; here every write goes to all three, so     *)
(* that their answers can be compared after any sequence of calls.         *)
(*                                                                         *)
(* A chunk is named by its document, by the index build that cut it (the   *)
(* upload or a reindex job: chunk ids are fresh each time) and its place.  *)
(* Titles, texts, tokens and offsets are abstracted.                       *)
(***************************************************************************)
EXTENDS Integers, FiniteSets

CONSTANTS
  MaxDocuments,      \* bound: documents, numbered in order of creation
  Builds,            \* who cuts a document into chunks: an upload or a job
  ChunksPerDocument, \* chunks of one document
  Hierarchical       \* settings.rag_indexing_mode is "hierarchical"

ASSUME MaxDocumentsAssumption == MaxDocuments \in Nat
ASSUME ChunksAssumption == ChunksPerDocument \in Nat \ {0}
ASSUME HierarchicalAssumption == Hierarchical \in BOOLEAN

Documents == 1..MaxDocuments
ChunkId == [document : Documents, build : Builds, index : 1..ChunksPerDocument]
ParentId == [document : Documents, build : Builds]

\* _build_index_records: the chunks and the parent blocks of one build.
ChunksOf(d, b) == {c \in ChunkId : c.document = d /\ c.build = b}
ParentsOf(d, b) == IF Hierarchical THEN {[document |-> d, build |-> b]} ELSE {}

\* ChunkRecord.parent_id
HasParent(c, p) ==
  Hierarchical /\ c.document = p.document /\ c.build = p.build

\* knowledge_documents.index_status and knowledge_chunks.embedding_provider;
\* "absent" where there is no row.
IndexStatus == {"absent", "pending", "ready", "failed"}
Label == {"absent", "none", "signature"}

VARIABLES sqlite, postgres, memory

knowledgeVars == <<sqlite, postgres, memory>>

Tables ==
  [documents : [Documents -> IndexStatus], chunks : [ChunkId -> Label],
   parents : SUBSET ParentId]

\* A chunk is one object in two dictionaries: label is its attribute.
Dictionaries ==
  [documents : [Documents -> IndexStatus],
   chunks_by_document : [Documents -> SUBSET ChunkId],
   chunks_by_id : SUBSET ChunkId, label : [ChunkId -> Label],
   parents_by_document : [Documents -> SUBSET ParentId],
   parents_by_id : SUBSET ParentId]

KnowledgeTypeOK ==
  /\ sqlite \in Tables /\ postgres \in Tables
  /\ memory \in Dictionaries

EmptyTables ==
  [documents |-> [d \in Documents |-> "absent"],
   chunks |-> [c \in ChunkId |-> "absent"], parents |-> {}]

EmptyDictionaries ==
  [documents |-> [d \in Documents |-> "absent"],
   chunks_by_document |-> [d \in Documents |-> {}], chunks_by_id |-> {},
   label |-> [c \in ChunkId |-> "absent"],
   parents_by_document |-> [d \in Documents |-> {}], parents_by_id |-> {}]

KnowledgeInit ==
  /\ sqlite = EmptyTables /\ postgres = EmptyTables
  /\ memory = EmptyDictionaries

-----------------------------------------------------------------------------
(* add_document, one transaction; n is what is written:                    *)
(*   [document, status, label, chunks, parents]                            *)

NewRecords(d, status, label, b) ==
  [document |-> d, status |-> status, label |-> label,
   chunks |-> ChunksOf(d, b), parents |-> ParentsOf(d, b)]

\* DELETE ... WHERE document_id = ? on both tables.
DeleteRowsOf(t, d) ==
  [t EXCEPT !.chunks = [c \in ChunkId |->
                          IF c.document = d THEN "absent" ELSE t.chunks[c]],
            !.parents = {p \in @ : p.document # d}]

InsertRows(t, n) ==
  [t EXCEPT !.chunks = [c \in ChunkId |->
                          IF c \in n.chunks THEN n.label ELSE t.chunks[c]],
            !.parents = @ \cup n.parents]

\* ON DELETE CASCADE of the two foreign keys.
DeleteDocumentRow(t, d) ==
  DeleteRowsOf([t EXCEPT !.documents[d] = "absent"], d)

\* INSERT OR REPLACE deletes the old row first.
SqliteAddDocument(t, n) ==
  LET replaced == [DeleteDocumentRow(t, n.document)
                     EXCEPT !.documents[n.document] = n.status]
  IN InsertRows(DeleteRowsOf(replaced, n.document), n)

\* Mutant of PostgresAddDocument: the delete statements are missing.
PostgresAddDocument_NoDelete(t, n) ==
  InsertRows([t EXCEPT !.documents[n.document] = n.status], n)

\* ON CONFLICT DO UPDATE keeps the old row and what refers to it.
PostgresAddDocument(t, n) ==
  LET updated == [t EXCEPT !.documents[n.document] = n.status]
  IN InsertRows(DeleteRowsOf(updated, n.document), n)

\* What the document had is popped by id, then the new records are entered.
MemoryAddDocument(m, n) ==
  LET oldChunks == m.chunks_by_document[n.document]
      oldParents == m.parents_by_document[n.document]
  IN [documents |-> [m.documents EXCEPT ![n.document] = n.status],
      chunks_by_document |->
        [m.chunks_by_document EXCEPT ![n.document] = n.chunks],
      chunks_by_id |-> (m.chunks_by_id \ oldChunks) \cup n.chunks,
      label |-> [c \in ChunkId |->
        IF c \in n.chunks THEN n.label
        ELSE IF c \in oldChunks THEN "absent" ELSE m.label[c]],
      parents_by_document |->
        [m.parents_by_document EXCEPT ![n.document] = n.parents],
      parents_by_id |-> (m.parents_by_id \ oldParents) \cup n.parents]

AddDocument(d, status, label, b) ==
  LET n == NewRecords(d, status, label, b)
  IN /\ sqlite' = SqliteAddDocument(sqlite, n)
     /\ postgres' = PostgresAddDocument(postgres, n)
     /\ memory' = MemoryAddDocument(memory, n)

-----------------------------------------------------------------------------
(* set_chunk_embedding_provider for each chunk of S, and                   *)
(* set_document_index_status.  What is not there any more stays so.        *)

SqliteSetLabels(t, S, label) ==
  [t EXCEPT !.chunks = [c \in ChunkId |->
     IF c \in S /\ t.chunks[c] # "absent" THEN label ELSE t.chunks[c]]]

PostgresSetLabels(t, S, label) ==
  [t EXCEPT !.chunks = [c \in ChunkId |->
     IF c \in S /\ t.chunks[c] # "absent" THEN label ELSE t.chunks[c]]]

MemorySetLabels(m, S, label) ==
  [m EXCEPT !.label = [c \in ChunkId |->
     IF c \in S \cap m.chunks_by_id THEN label ELSE m.label[c]]]

SetChunkLabels(S, label) ==
  /\ sqlite' = SqliteSetLabels(sqlite, S, label)
  /\ postgres' = PostgresSetLabels(postgres, S, label)
  /\ memory' = MemorySetLabels(memory, S, label)

SqliteSetStatus(t, d, status) ==
  [t EXCEPT !.documents[d] = IF @ = "absent" THEN @ ELSE status]

PostgresSetStatus(t, d, status) ==
  [t EXCEPT !.documents[d] = IF @ = "absent" THEN @ ELSE status]

MemorySetStatus(m, d, status) ==
  [m EXCEPT !.documents[d] = IF @ = "absent" THEN @ ELSE status]

SetIndexStatus(d, status) ==
  /\ sqlite' = SqliteSetStatus(sqlite, d, status)
  /\ postgres' = PostgresSetStatus(postgres, d, status)
  /\ memory' = MemorySetStatus(memory, d, status)

-----------------------------------------------------------------------------
(* The read methods: documents with their status and their number of       *)
(* chunks, the chunks and parent blocks of a document, a chunk or a parent *)
(* block by its id, the chunks of a parent block.                          *)

SelectFrom(t) ==
  LET known == {d \in Documents : t.documents[d] # "absent"}
      rows == {c \in ChunkId : t.chunks[c] # "absent"}
      of(d) == {c \in rows : c.document = d}
  IN [list_documents |->
        [d \in known |-> <<t.documents[d], Cardinality(of(d))>>],
      get_document_chunks |-> [d \in known |-> of(d)],
      get_chunk |-> [c \in rows |-> t.chunks[c]],
      get_parent_blocks |->
        [d \in known |-> {p \in t.parents : p.document = d}],
      get_parent_block |-> t.parents,
      get_child_chunks_for_parent |->
        [p \in ParentId |-> {c \in rows : HasParent(c, p)}]]

SqliteReads == SelectFrom(sqlite)
PostgresReads == SelectFrom(postgres)

MemoryReads ==
  LET known == {d \in Documents : memory.documents[d] # "absent"}
      listed == UNION {memory.chunks_by_document[d] : d \in Documents}
  IN [list_documents |->
        [d \in known |-> <<memory.documents[d],
                           Cardinality(memory.chunks_by_document[d])>>],
      get_document_chunks |-> [d \in known |-> memory.chunks_by_document[d]],
      get_chunk |-> [c \in memory.chunks_by_id |-> memory.label[c]],
      get_parent_blocks |-> [d \in known |-> memory.parents_by_document[d]],
      get_parent_block |-> memory.parents_by_id,
      get_child_chunks_for_parent |->
        [p \in ParentId |-> {c \in listed : HasParent(c, p)}]]

-----------------------------------------------------------------------------
\* Whatever sequence of writes came before, the reads of the three stores give
\* the same documents, chunks, blocks, labels and statuses (in what order
\* get_chunks lists them is not compared): a chunk or parent block that was replaced is gone from every
\* table and dictionary, and no read shows one that another read denies.
SameAnswers == SqliteReads = MemoryReads /\ PostgresReads = MemoryReads

\* What the services read.
StatusOf(d) == sqlite.documents[d]
ListDocuments == {d \in Documents : StatusOf(d) # "absent"}
LabelOf(c) == sqlite.chunks[c]
GetDocumentChunks(d) ==
  {c \in ChunkId : c.document = d /\ LabelOf(c) # "absent"}
=============================================================================
