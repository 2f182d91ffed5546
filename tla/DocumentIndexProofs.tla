-------------------------- MODULE DocumentIndexProofs --------------------------
(***************************************************************************)
(* Proofs about documents and their index, for any number of documents,    *)
(* chunks and reindex jobs, every vector store and any number of faults.   *)
(*                                                                         *)
(* The first part is about the knowledge store alone: the dictionaries     *)
(* hold what the tables hold, whatever sequence of writes came before.     *)
(***************************************************************************)
EXTENDS DocumentIndex, WellFoundedInduction, TLAPS

\* Both databases have the same rows, and the five dictionaries are views of
\* them.
Agree ==
  /\ postgres = sqlite
  /\ memory.documents = sqlite.documents
  /\ memory.label = sqlite.chunks
  /\ memory.chunks_by_id = {c \in ChunkId : sqlite.chunks[c] # "absent"}
  /\ memory.chunks_by_document =
       [d \in Documents |-> {c \in memory.chunks_by_id : c.document = d}]
  /\ memory.parents_by_document =
       [d \in Documents |-> {p \in sqlite.parents : p.document = d}]
  /\ memory.parents_by_id = sqlite.parents

KnowledgeInv == KnowledgeTypeOK /\ Agree

\* What add_document is given.
Records ==
  {n \in [document : Documents, status : {"pending", "ready"},
          label : {"none", "signature"}, chunks : SUBSET ChunkId,
          parents : SUBSET ParentId] :
     /\ \A c \in n.chunks : c.document = n.document
     /\ \A p \in n.parents : p.document = n.document}

-----------------------------------------------------------------------------
(* The knowledge store *)

LEMMA TablesEqual ==
  ASSUME NEW t \in Tables, NEW u \in Tables,
         t.documents = u.documents, t.chunks = u.chunks, t.parents = u.parents
  PROVE  t = u
  BY DEF Tables

LEMMA NewRecordsType ==
  ASSUME NEW d \in Documents, NEW status \in {"pending", "ready"},
         NEW label \in {"none", "signature"}, NEW b \in Builds
  PROVE  NewRecords(d, status, label, b) \in Records
<1>1. ChunksOf(d, b) \in SUBSET ChunkId /\ \A c \in ChunksOf(d, b) : c.document = d
  BY DEF ChunksOf
<1>2. ParentsOf(d, b) \in SUBSET ParentId /\ \A p \in ParentsOf(d, b) : p.document = d
  BY DEF ParentsOf, ParentId
<1> QED
  BY <1>1, <1>2 DEF NewRecords, Records

LEMMA DeleteRowsFacts ==
  ASSUME NEW t \in Tables, NEW d \in Documents
  PROVE  /\ DeleteRowsOf(t, d) \in Tables
         /\ DeleteRowsOf(t, d).documents = t.documents
         /\ DeleteRowsOf(t, d).chunks =
              [c \in ChunkId |-> IF c.document = d THEN "absent" ELSE t.chunks[c]]
         /\ DeleteRowsOf(t, d).parents = {p \in t.parents : p.document # d}
  BY DEF DeleteRowsOf, Tables, Label

LEMMA InsertRowsFacts ==
  ASSUME NEW t \in Tables, NEW n \in Records
  PROVE  /\ InsertRows(t, n) \in Tables
         /\ InsertRows(t, n).documents = t.documents
         /\ InsertRows(t, n).chunks =
              [c \in ChunkId |-> IF c \in n.chunks THEN n.label ELSE t.chunks[c]]
         /\ InsertRows(t, n).parents = t.parents \cup n.parents
  BY DEF InsertRows, Tables, Label, Records

LEMMA StatusFacts ==
  ASSUME NEW t \in Tables, NEW d \in Documents, NEW status \in IndexStatus
  PROVE  LET u == [t EXCEPT !.documents[d] = status] IN
         /\ u \in Tables
         /\ u.documents = [t.documents EXCEPT ![d] = status]
         /\ u.chunks = t.chunks /\ u.parents = t.parents
  BY DEF Tables

\* What add_document leaves in either database.
Added(t, n) ==
  [documents |-> [t.documents EXCEPT ![n.document] = n.status],
   chunks |-> [c \in ChunkId |->
                 IF c \in n.chunks THEN n.label
                 ELSE IF c.document = n.document THEN "absent" ELSE t.chunks[c]],
   parents |-> {p \in t.parents : p.document # n.document} \cup n.parents]

LEMMA PostgresAdds ==
  ASSUME NEW t \in Tables, NEW n \in Records
  PROVE  PostgresAddDocument(t, n) = Added(t, n) /\ Added(t, n) \in Tables
<1> DEFINE u == [t EXCEPT !.documents[n.document] = n.status]
           w == DeleteRowsOf(u, n.document)
           x == InsertRows(w, n)
<1>1. n.document \in Documents /\ n.status \in IndexStatus
  BY DEF Records, IndexStatus
<1>2. /\ u \in Tables /\ u.documents = [t.documents EXCEPT ![n.document] = n.status]
      /\ u.chunks = t.chunks /\ u.parents = t.parents
  BY <1>1, StatusFacts
<1> HIDE DEF u
<1>3. /\ w \in Tables /\ w.documents = u.documents
      /\ w.chunks = [c \in ChunkId |->
                       IF c.document = n.document THEN "absent" ELSE u.chunks[c]]
      /\ w.parents = {p \in u.parents : p.document # n.document}
  BY <1>1, <1>2, DeleteRowsFacts
<1> HIDE DEF w
<1>4. /\ x \in Tables /\ x.documents = w.documents
      /\ x.chunks = [c \in ChunkId |-> IF c \in n.chunks THEN n.label ELSE w.chunks[c]]
      /\ x.parents = w.parents \cup n.parents
  BY <1>3, InsertRowsFacts
<1> HIDE DEF x
<1>5. PostgresAddDocument(t, n) = x
  BY DEF PostgresAddDocument, u, w, x
<1>6. x.chunks = [c \in ChunkId |->
                    IF c \in n.chunks THEN n.label
                    ELSE IF c.document = n.document THEN "absent" ELSE t.chunks[c]]
  BY <1>2, <1>3, <1>4
<1>7. x = Added(t, n)
  BY <1>2, <1>3, <1>4, <1>6 DEF Added, Tables
<1> QED
  BY <1>4, <1>5, <1>7

LEMMA SqliteAdds ==
  ASSUME NEW t \in Tables, NEW n \in Records
  PROVE  SqliteAddDocument(t, n) = Added(t, n)
<1> DEFINE d == n.document
           a == [t EXCEPT !.documents[d] = "absent"]
           b == DeleteRowsOf(a, d)
           e == [b EXCEPT !.documents[d] = n.status]
<1>1. d \in Documents /\ n.status \in IndexStatus /\ "absent" \in IndexStatus
  BY DEF Records, IndexStatus
<1> HIDE DEF d
<1>2. /\ a \in Tables /\ a.documents = [t.documents EXCEPT ![d] = "absent"]
      /\ a.chunks = t.chunks /\ a.parents = t.parents
  BY <1>1, StatusFacts
<1> HIDE DEF a
<1>3. /\ b \in Tables /\ b.documents = a.documents
      /\ b.chunks = [c \in ChunkId |-> IF c.document = d THEN "absent" ELSE a.chunks[c]]
      /\ b.parents = {p \in a.parents : p.document # d}
  BY <1>1, <1>2, DeleteRowsFacts
<1> HIDE DEF b
<1>4. /\ e \in Tables /\ e.documents = [b.documents EXCEPT ![d] = n.status]
      /\ e.chunks = b.chunks /\ e.parents = b.parents
  BY <1>1, <1>3, StatusFacts
<1> HIDE DEF e
<1>5. SqliteAddDocument(t, n) = InsertRows(DeleteRowsOf(e, d), n)
  BY DEF SqliteAddDocument, DeleteDocumentRow, d, a, b, e
<1>6. PostgresAddDocument(t, n)
        = InsertRows(DeleteRowsOf([t EXCEPT !.documents[d] = n.status], d), n)
  BY DEF PostgresAddDocument, d
<1>7. DeleteRowsOf(e, d) = DeleteRowsOf([t EXCEPT !.documents[d] = n.status], d)
  <2> DEFINE u == [t EXCEPT !.documents[d] = n.status]
  <2>1. /\ u \in Tables /\ u.documents = [t.documents EXCEPT ![d] = n.status]
        /\ u.chunks = t.chunks /\ u.parents = t.parents
    BY <1>1, StatusFacts
  <2> HIDE DEF u
  <2>2. e.documents = u.documents
    <3>1. t.documents \in [Documents -> IndexStatus]
      BY DEF Tables
    <3> QED
      BY <1>1, <1>2, <1>3, <1>4, <2>1, <3>1
  <2>3. /\ DeleteRowsOf(e, d) \in Tables /\ DeleteRowsOf(e, d).documents = e.documents
        /\ DeleteRowsOf(e, d).chunks =
             [c \in ChunkId |-> IF c.document = d THEN "absent" ELSE e.chunks[c]]
        /\ DeleteRowsOf(e, d).parents = {p \in e.parents : p.document # d}
    BY <1>1, <1>4, DeleteRowsFacts
  <2>4. /\ DeleteRowsOf(u, d) \in Tables /\ DeleteRowsOf(u, d).documents = u.documents
        /\ DeleteRowsOf(u, d).chunks =
             [c \in ChunkId |-> IF c.document = d THEN "absent" ELSE u.chunks[c]]
        /\ DeleteRowsOf(u, d).parents = {p \in u.parents : p.document # d}
    BY <1>1, <2>1, DeleteRowsFacts
  <2>5. DeleteRowsOf(e, d).chunks = DeleteRowsOf(u, d).chunks
    BY <1>2, <1>3, <1>4, <2>1, <2>3, <2>4
  <2>6. DeleteRowsOf(e, d).parents = DeleteRowsOf(u, d).parents
    BY <1>2, <1>3, <1>4, <2>1, <2>3, <2>4
  <2>7. DeleteRowsOf(e, d) = DeleteRowsOf(u, d)
    BY <2>2, <2>3, <2>4, <2>5, <2>6, TablesEqual
  <2> QED
    BY <2>7 DEF u
<1> QED
  BY <1>5, <1>6, <1>7, PostgresAdds

LEMMA MemoryAdds ==
  ASSUME KnowledgeInv, NEW n \in Records
  PROVE  LET m == MemoryAddDocument(memory, n)
             t == Added(sqlite, n) IN
         /\ m \in Dictionaries
         /\ m.documents = t.documents /\ m.label = t.chunks
         /\ m.chunks_by_id = {c \in ChunkId : t.chunks[c] # "absent"}
         /\ m.chunks_by_document =
              [d \in Documents |-> {c \in m.chunks_by_id : c.document = d}]
         /\ m.parents_by_document =
              [d \in Documents |-> {p \in t.parents : p.document = d}]
         /\ m.parents_by_id = t.parents
<1> DEFINE d == n.document
           t == Added(sqlite, n)
           oldChunks == memory.chunks_by_document[d]
           oldParents == memory.parents_by_document[d]
           documents == [memory.documents EXCEPT ![d] = n.status]
           chunks_by_document == [memory.chunks_by_document EXCEPT ![d] = n.chunks]
           chunks_by_id == (memory.chunks_by_id \ oldChunks) \cup n.chunks
           label == [c \in ChunkId |->
                       IF c \in n.chunks THEN n.label
                       ELSE IF c \in oldChunks THEN "absent" ELSE memory.label[c]]
           parents_by_document == [memory.parents_by_document EXCEPT ![d] = n.parents]
           parents_by_id == (memory.parents_by_id \ oldParents) \cup n.parents
           m == MemoryAddDocument(memory, n)
<1>1. /\ m.documents = documents /\ m.chunks_by_document = chunks_by_document
      /\ m.chunks_by_id = chunks_by_id /\ m.label = label
      /\ m.parents_by_document = parents_by_document /\ m.parents_by_id = parents_by_id
  BY DEF MemoryAddDocument
<1>2. m = [documents |-> documents, chunks_by_document |-> chunks_by_document,
           chunks_by_id |-> chunks_by_id, label |-> label,
           parents_by_document |-> parents_by_document, parents_by_id |-> parents_by_id]
  BY DEF MemoryAddDocument
<1> HIDE DEF m
<1>3. /\ d \in Documents /\ n.status \in IndexStatus
      /\ n.label \in {"none", "signature"} /\ n.label \in Label
      /\ n.chunks \in SUBSET ChunkId /\ \A c \in n.chunks : c.document = d
      /\ n.parents \in SUBSET ParentId /\ \A p \in n.parents : p.document = d
  BY DEF Records, IndexStatus, Label
<1>4. /\ memory.documents \in [Documents -> IndexStatus]
      /\ memory.chunks_by_document \in [Documents -> SUBSET ChunkId]
      /\ memory.chunks_by_id \in SUBSET ChunkId /\ memory.label \in [ChunkId -> Label]
      /\ memory.parents_by_document \in [Documents -> SUBSET ParentId]
      /\ memory.parents_by_id \in SUBSET ParentId
  BY DEF KnowledgeInv, KnowledgeTypeOK, Dictionaries
<1>5. /\ oldChunks = {c \in memory.chunks_by_id : c.document = d}
      /\ oldParents = {p \in memory.parents_by_id : p.document = d}
  BY <1>3 DEF KnowledgeInv, Agree
<1>6. /\ t.documents = [sqlite.documents EXCEPT ![d] = n.status]
      /\ t.chunks = [c \in ChunkId |->
                       IF c \in n.chunks THEN n.label
                       ELSE IF c.document = d THEN "absent" ELSE sqlite.chunks[c]]
      /\ t.parents = {p \in sqlite.parents : p.document # d} \cup n.parents
  BY DEF Added
<1> HIDE DEF d, t, oldChunks, oldParents
<1>7. m \in Dictionaries
  <2>1. /\ documents \in [Documents -> IndexStatus]
        /\ chunks_by_document \in [Documents -> SUBSET ChunkId]
    BY <1>3, <1>4
  <2>2. chunks_by_id \in SUBSET ChunkId /\ parents_by_id \in SUBSET ParentId
    BY <1>3, <1>4
  <2>3. label \in [ChunkId -> Label]
    BY <1>3, <1>4 DEF Label
  <2>4. parents_by_document \in [Documents -> SUBSET ParentId]
    BY <1>3, <1>4
  <2> HIDE DEF documents, chunks_by_document, chunks_by_id, label, parents_by_document,
               parents_by_id
  <2> QED
    BY <1>2, <2>1, <2>2, <2>3, <2>4 DEF Dictionaries
<1>8. m.documents = t.documents
  BY <1>1, <1>6 DEF KnowledgeInv, Agree
<1>9. /\ memory.label = sqlite.chunks
      /\ memory.chunks_by_id = {c \in ChunkId : memory.label[c] # "absent"}
      /\ memory.parents_by_id = sqlite.parents
  BY DEF KnowledgeInv, Agree
<1>10. m.label = t.chunks
  <2>1. \A c \in ChunkId : (IF c \in oldChunks THEN "absent" ELSE memory.label[c])
                             = IF c.document = d THEN "absent" ELSE memory.label[c]
    BY <1>5, <1>9
  <2>2. \A c \in ChunkId :
          (IF c \in n.chunks THEN n.label
           ELSE IF c \in oldChunks THEN "absent" ELSE memory.label[c])
            = IF c \in n.chunks THEN n.label
              ELSE IF c.document = d THEN "absent" ELSE sqlite.chunks[c]
    BY <1>9, <2>1
  <2>3. label = t.chunks
    BY <1>6, <2>2
  <2> QED
    BY <1>1, <2>3
<1>11. m.chunks_by_id = {c \in ChunkId : t.chunks[c] # "absent"}
  <2>1. \A c \in ChunkId : c \in chunks_by_id <=> t.chunks[c] # "absent"
    BY <1>3, <1>5, <1>6, <1>9
  <2>2. chunks_by_id \in SUBSET ChunkId
    BY <1>3, <1>4
  <2> QED
    BY <1>1, <2>1, <2>2
<1>12. m.chunks_by_document = [e \in Documents |-> {c \in m.chunks_by_id : c.document = e}]
  <2>1. memory.chunks_by_document =
          [e \in Documents |-> {c \in memory.chunks_by_id : c.document = e}]
    BY DEF KnowledgeInv, Agree
  <2>2. \A e \in Documents : chunks_by_document[e] = {c \in chunks_by_id : c.document = e}
    <3>1. ASSUME NEW e \in Documents, e = d
          PROVE  chunks_by_document[e] = {c \in chunks_by_id : c.document = e}
      BY <1>3, <1>4, <1>5, <3>1
    <3>2. ASSUME NEW e \in Documents, e # d
          PROVE  chunks_by_document[e] = {c \in chunks_by_id : c.document = e}
      BY <1>3, <1>4, <1>5, <2>1, <3>2
    <3> QED
      BY <3>1, <3>2
  <2>3. chunks_by_document \in [Documents -> SUBSET ChunkId]
    BY <1>3, <1>4
  <2> HIDE DEF chunks_by_document, chunks_by_id
  <2>4. chunks_by_document = [e \in Documents |-> {c \in chunks_by_id : c.document = e}]
    BY <2>2, <2>3
  <2> QED
    BY <1>1, <2>4
<1>13. m.parents_by_id = t.parents
  <2>1. parents_by_id = t.parents
    BY <1>5, <1>6, <1>9
  <2> QED
    BY <1>1, <2>1
<1>14. m.parents_by_document = [e \in Documents |-> {p \in t.parents : p.document = e}]
  <2>1. memory.parents_by_document =
          [e \in Documents |-> {p \in sqlite.parents : p.document = e}]
    BY DEF KnowledgeInv, Agree
  <2>2. \A e \in Documents : parents_by_document[e] = {p \in t.parents : p.document = e}
    <3>1. ASSUME NEW e \in Documents, e = d
          PROVE  parents_by_document[e] = {p \in t.parents : p.document = e}
      BY <1>3, <1>4, <1>6, <3>1
    <3>2. ASSUME NEW e \in Documents, e # d
          PROVE  parents_by_document[e] = {p \in t.parents : p.document = e}
      BY <1>3, <1>4, <1>6, <2>1, <3>2
    <3> QED
      BY <3>1, <3>2
  <2>3. parents_by_document \in [Documents -> SUBSET ParentId]
    BY <1>3, <1>4
  <2> HIDE DEF parents_by_document
  <2>4. parents_by_document = [e \in Documents |-> {p \in t.parents : p.document = e}]
    BY <2>2, <2>3
  <2> QED
    BY <1>1, <2>4
<1> QED
  BY <1>7, <1>8, <1>10, <1>11, <1>12, <1>13, <1>14 DEF m, t

LEMMA AddDocumentOk ==
  ASSUME KnowledgeInv, NEW d \in Documents, NEW status \in {"pending", "ready"},
         NEW label \in {"none", "signature"}, NEW b \in Builds,
         AddDocument(d, status, label, b)
  PROVE  KnowledgeInv'
<1> DEFINE n == NewRecords(d, status, label, b)
<1>1. n \in Records
  BY NewRecordsType
<1>2. /\ sqlite' = SqliteAddDocument(sqlite, n) /\ postgres' = PostgresAddDocument(postgres, n)
      /\ memory' = MemoryAddDocument(memory, n)
  BY DEF AddDocument
<1>3. sqlite \in Tables /\ postgres = sqlite
  BY DEF KnowledgeInv, KnowledgeTypeOK, Agree
<1> HIDE DEF n
<1>4. sqlite' = Added(sqlite, n) /\ postgres' = sqlite' /\ sqlite' \in Tables
  BY <1>1, <1>2, <1>3, SqliteAdds, PostgresAdds
<1>5. /\ memory' \in Dictionaries
      /\ memory'.documents = sqlite'.documents /\ memory'.label = sqlite'.chunks
      /\ memory'.chunks_by_id = {c \in ChunkId : sqlite'.chunks[c] # "absent"}
      /\ memory'.chunks_by_document =
           [e \in Documents |-> {c \in memory'.chunks_by_id : c.document = e}]
      /\ memory'.parents_by_document =
           [e \in Documents |-> {p \in sqlite'.parents : p.document = e}]
      /\ memory'.parents_by_id = sqlite'.parents
  BY <1>1, <1>2, <1>4, MemoryAdds
<1> QED
  BY <1>4, <1>5 DEF KnowledgeInv, KnowledgeTypeOK, Agree

LEMMA SetLabelsOk ==
  ASSUME KnowledgeInv, NEW S, NEW label \in {"none", "signature"}, SetChunkLabels(S, label)
  PROVE  KnowledgeInv'
<1> DEFINE chunks == [c \in ChunkId |->
             IF c \in S /\ sqlite.chunks[c] # "absent" THEN label ELSE sqlite.chunks[c]]
<1>1. /\ sqlite' = [sqlite EXCEPT !.chunks = chunks]
      /\ postgres' = sqlite'
      /\ memory' = MemorySetLabels(memory, S, label)
  BY DEF SetChunkLabels, SqliteSetLabels, PostgresSetLabels, KnowledgeInv, Agree
<1>2. /\ sqlite \in Tables /\ sqlite.chunks \in [ChunkId -> Label]
      /\ memory \in Dictionaries /\ memory.label = sqlite.chunks
      /\ memory.chunks_by_id = {c \in ChunkId : sqlite.chunks[c] # "absent"}
  BY DEF KnowledgeInv, KnowledgeTypeOK, Agree, Tables
<1>3. chunks \in [ChunkId -> Label]
  BY <1>2 DEF Label
<1>4. memory' = [memory EXCEPT !.label = chunks]
  <2>1. [c \in ChunkId |-> IF c \in S \cap memory.chunks_by_id THEN label ELSE memory.label[c]]
          = chunks
    BY <1>2
  <2> QED
    BY <1>1, <2>1 DEF MemorySetLabels
<1>5. {c \in ChunkId : chunks[c] # "absent"} = {c \in ChunkId : sqlite.chunks[c] # "absent"}
  BY <1>2
<1> HIDE DEF chunks
<1>6. /\ sqlite' \in Tables /\ sqlite'.chunks = chunks
      /\ sqlite'.documents = sqlite.documents /\ sqlite'.parents = sqlite.parents
  BY <1>1, <1>2, <1>3 DEF Tables
<1>7. /\ memory' \in Dictionaries /\ memory'.label = chunks
      /\ memory'.documents = memory.documents
      /\ memory'.chunks_by_id = memory.chunks_by_id
      /\ memory'.chunks_by_document = memory.chunks_by_document
      /\ memory'.parents_by_id = memory.parents_by_id
      /\ memory'.parents_by_document = memory.parents_by_document
  BY <1>2, <1>3, <1>4 DEF Dictionaries
<1>8. KnowledgeTypeOK'
  BY <1>1, <1>6, <1>7 DEF KnowledgeTypeOK
<1>9. Agree'
  <2>1. Agree
    BY DEF KnowledgeInv
  <2>2. /\ postgres' = sqlite' /\ memory'.documents = sqlite'.documents
        /\ memory'.label = sqlite'.chunks /\ memory'.parents_by_id = sqlite'.parents
    BY <1>1, <1>6, <1>7, <2>1 DEF Agree
  <2>3. memory'.chunks_by_id = {c \in ChunkId : sqlite'.chunks[c] # "absent"}
    BY <1>2, <1>5, <1>6, <1>7
  <2>4. /\ memory'.chunks_by_document =
             [d \in Documents |-> {c \in memory'.chunks_by_id : c.document = d}]
        /\ memory'.parents_by_document =
             [d \in Documents |-> {p \in sqlite'.parents : p.document = d}]
    BY <1>6, <1>7, <2>1 DEF Agree
  <2> QED
    BY <2>2, <2>3, <2>4 DEF Agree, ChunkId, Documents
<1> QED
  BY <1>8, <1>9 DEF KnowledgeInv

LEMMA SetStatusOk ==
  ASSUME KnowledgeInv, NEW d \in Documents, NEW status \in IndexStatus,
         SetIndexStatus(d, status)
  PROVE  KnowledgeInv'
<1>1. /\ sqlite \in Tables /\ memory \in Dictionaries /\ postgres = sqlite
      /\ memory.documents = sqlite.documents
      /\ sqlite.documents \in [Documents -> IndexStatus]
  BY DEF KnowledgeInv, KnowledgeTypeOK, Agree, Tables
<1>2. PICK s \in IndexStatus :
        s = IF sqlite.documents[d] = "absent" THEN sqlite.documents[d] ELSE status
  BY <1>1
<1>3. /\ sqlite' = [sqlite EXCEPT !.documents[d] = s]
      /\ postgres' = sqlite'
      /\ memory' = [memory EXCEPT !.documents[d] = s]
  BY <1>1, <1>2 DEF SetIndexStatus, SqliteSetStatus, PostgresSetStatus, MemorySetStatus
<1>4. /\ sqlite' \in Tables /\ sqlite'.documents = [sqlite.documents EXCEPT ![d] = s]
      /\ sqlite'.chunks = sqlite.chunks /\ sqlite'.parents = sqlite.parents
  BY <1>1, <1>3, StatusFacts
<1>5. /\ memory' \in Dictionaries
      /\ memory'.documents = [memory.documents EXCEPT ![d] = s]
      /\ memory'.label = memory.label
      /\ memory'.chunks_by_id = memory.chunks_by_id
      /\ memory'.chunks_by_document = memory.chunks_by_document
      /\ memory'.parents_by_id = memory.parents_by_id
      /\ memory'.parents_by_document = memory.parents_by_document
  BY <1>1, <1>3 DEF Dictionaries
<1>6. KnowledgeTypeOK'
  BY <1>3, <1>4, <1>5 DEF KnowledgeTypeOK
<1>7. Agree'
  <2>1. Agree
    BY DEF KnowledgeInv
  <2>2. /\ postgres' = sqlite' /\ memory'.documents = sqlite'.documents
        /\ memory'.label = sqlite'.chunks /\ memory'.parents_by_id = sqlite'.parents
    BY <1>3, <1>4, <1>5, <2>1 DEF Agree
  <2>3. memory'.chunks_by_id = {c \in ChunkId : sqlite'.chunks[c] # "absent"}
    BY <1>4, <1>5, <2>1 DEF Agree
  <2>4. /\ memory'.chunks_by_document =
             [e \in Documents |-> {c \in memory'.chunks_by_id : c.document = e}]
        /\ memory'.parents_by_document =
             [e \in Documents |-> {p \in sqlite'.parents : p.document = e}]
    BY <1>4, <1>5, <2>1 DEF Agree
  <2> QED
    BY <2>2, <2>3, <2>4 DEF Agree, ChunkId, Documents
<1> QED
  BY <1>6, <1>7 DEF KnowledgeInv

LEMMA AgreeAnswers == KnowledgeInv => SameAnswers
<1> SUFFICES ASSUME KnowledgeInv
             PROVE  SelectFrom(sqlite) = MemoryReads
  BY DEF SameAnswers, SqliteReads, PostgresReads, KnowledgeInv, Agree
<1> DEFINE known == {d \in Documents : sqlite.documents[d] # "absent"}
           rows == {c \in ChunkId : sqlite.chunks[c] # "absent"}
           of(d) == {c \in rows : c.document = d}
           listed == UNION {memory.chunks_by_document[d] : d \in Documents}
<1>1. /\ known = {d \in Documents : memory.documents[d] # "absent"}
      /\ memory.chunks_by_id = rows /\ memory.label = sqlite.chunks
      /\ \A d \in Documents : memory.chunks_by_document[d] = of(d)
      /\ \A d \in Documents :
           memory.parents_by_document[d] = {p \in sqlite.parents : p.document = d}
      /\ memory.parents_by_id = sqlite.parents /\ memory.documents = sqlite.documents
  BY DEF KnowledgeInv, Agree
<1>2. listed = rows
  <2>1. \A c \in rows : c.document \in Documents
    BY DEF ChunkId
  <2> QED
    BY <1>1, <2>1
<1>3. [d \in known |-> <<sqlite.documents[d], Cardinality(of(d))>>]
        = [d \in known |-> <<memory.documents[d],
                             Cardinality(memory.chunks_by_document[d])>>]
  BY <1>1
<1>4. [d \in known |-> of(d)] = [d \in known |-> memory.chunks_by_document[d]]
  BY <1>1
<1>5. [c \in rows |-> sqlite.chunks[c]] = [c \in memory.chunks_by_id |-> memory.label[c]]
  BY <1>1
<1>6. [d \in known |-> {p \in sqlite.parents : p.document = d}]
        = [d \in known |-> memory.parents_by_document[d]]
  BY <1>1
<1>7. [p \in ParentId |-> {c \in rows : HasParent(c, p)}]
        = [p \in ParentId |-> {c \in listed : HasParent(c, p)}]
  BY <1>2
<1>8. SelectFrom(sqlite) =
        [list_documents |-> [d \in known |-> <<sqlite.documents[d], Cardinality(of(d))>>],
         get_document_chunks |-> [d \in known |-> of(d)],
         get_chunk |-> [c \in rows |-> sqlite.chunks[c]],
         get_parent_blocks |-> [d \in known |-> {p \in sqlite.parents : p.document = d}],
         get_parent_block |-> sqlite.parents,
         get_child_chunks_for_parent |->
           [p \in ParentId |-> {c \in rows : HasParent(c, p)}]]
  BY DEF SelectFrom
<1>9. MemoryReads =
        [list_documents |-> [d \in known |-> <<memory.documents[d],
                               Cardinality(memory.chunks_by_document[d])>>],
         get_document_chunks |-> [d \in known |-> memory.chunks_by_document[d]],
         get_chunk |-> [c \in memory.chunks_by_id |-> memory.label[c]],
         get_parent_blocks |-> [d \in known |-> memory.parents_by_document[d]],
         get_parent_block |-> memory.parents_by_id,
         get_child_chunks_for_parent |->
           [p \in ParentId |-> {c \in listed : HasParent(c, p)}]]
  BY <1>1 DEF MemoryReads
<1> QED
  BY <1>1, <1>3, <1>4, <1>5, <1>6, <1>7, <1>8, <1>9

-----------------------------------------------------------------------------
(* Which document, which chunk is next *)

LEMMA LeastExists ==
  ASSUME NEW S \in SUBSET Nat, S # {}
  PROVE  \E n \in S : \A k \in S : n <= k
<1>1. PICK n \in S : \A k \in S : ~(<<k, n>> \in OpToRel(<, Nat))
  BY NatLessThanWellFounded, WFMin
<1>2. \A k \in S : ~(k < n)
  BY <1>1 DEF OpToRel
<1> QED
  BY <1>2

LEMMA NewestIn ==
  ASSUME NEW S \in SUBSET Documents, S # {}
  PROVE  Newest(S) \in S
<1> DEFINE T == {MaxDocuments - d : d \in S}
<1>1. \A d \in S : d \in Nat /\ MaxDocuments - d \in Nat
  BY MaxDocumentsAssumption DEF Documents
<1>2. T \in SUBSET Nat /\ T # {}
  BY <1>1
<1>3. PICK n \in T : \A k \in T : n <= k
  BY <1>2, LeastExists
<1>4. PICK d \in S : n = MaxDocuments - d
  BY <1>3
<1>5. \A e \in S : e <= d
  <2>1. \A e \in S : MaxDocuments - d <= MaxDocuments - e
    BY <1>3, <1>4
  <2> QED
    BY <1>1, <2>1, MaxDocumentsAssumption
<1> QED
  BY <1>4, <1>5 DEF Newest

LEMMA FirstChunkIn ==
  ASSUME NEW S \in SUBSET ChunkId, S # {}
  PROVE  FirstChunk(S) \in S
<1> DEFINE D == {c.document : c \in S}
<1>1. \A c \in S : c.document \in Documents /\ c.index \in Nat
  BY ChunksAssumption DEF ChunkId
<1>2. D \in SUBSET Documents /\ D # {}
  BY <1>1
<1> DEFINE T == {MaxDocuments - d : d \in D}
<1> HIDE DEF D
<1>3. \A d \in D : d \in Nat /\ MaxDocuments - d \in Nat
  BY <1>2, MaxDocumentsAssumption DEF Documents
<1>4. T \in SUBSET Nat /\ T # {}
  BY <1>2, <1>3
<1>5. PICK n \in T : \A k \in T : n <= k
  BY <1>4, LeastExists
<1>6. PICK d \in D : n = MaxDocuments - d
  BY <1>5
<1>7. \A e \in D : e <= d
  <2>1. \A e \in D : MaxDocuments - d <= MaxDocuments - e
    BY <1>5, <1>6
  <2> QED
    BY <1>3, <2>1, MaxDocumentsAssumption
<1> DEFINE I == {c.index : c \in {x \in S : x.document = d}}
<1>8. I \in SUBSET Nat /\ I # {}
  BY <1>1, <1>6 DEF D
<1>9. PICK i \in I : \A k \in I : i <= k
  BY <1>8, LeastExists
<1>10. PICK c \in S : c.document = d /\ c.index = i
  BY <1>9
<1>11. \A e \in S : IF e.document = c.document THEN c.index <= e.index
                                             ELSE e.document < c.document
  <2>1. ASSUME NEW e \in S, e.document = d
        PROVE  c.index <= e.index
    BY <1>9, <1>10, <2>1
  <2>2. ASSUME NEW e \in S, e.document # d
        PROVE  e.document < d
    <3>1. e.document \in D /\ d \in D
      BY <1>6 DEF D
    <3>2. e.document <= d /\ e.document \in Nat /\ d \in Nat
      BY <1>3, <1>7, <3>1
    <3> QED
      BY <2>2, <3>2
  <2> QED
    BY <1>10, <2>1, <2>2
<1> QED
  BY <1>11 DEF FirstChunk

-----------------------------------------------------------------------------
(* The vector store *)

Sound(q) == q.exists \/ q.points = {}

StoreOk(v) ==
  /\ v \in V!VectorState /\ Sound(v.primary)
  /\ v.backend = "memory" => v.primary.points = {}
  /\ v.backend = "qdrant_local" => v.fallback = {}

LEMMA OutcomeParts ==
  /\ \A s : V!Done(s).store = s /\ ~V!Done(s).raised /\ V!Done(s).faults = 0
            /\ V!Done(s).raised \in BOOLEAN
  /\ \A s, n : V!Raised(s, n).store = s /\ V!Raised(s, n).raised /\ V!Raised(s, n).faults = n
            /\ V!Raised(s, n).raised \in BOOLEAN
  BY DEF V!Done, V!Raised

\* An outcome is a record of its three fields.
Outcome(x) == x = [store |-> x.store, raised |-> x.raised, faults |-> x.faults]

LEMMA OutcomeShape ==
  /\ \A s : Outcome(V!Done(s))
  /\ \A s, n : Outcome(V!Raised(s, n))
  BY DEF V!Done, V!Raised, Outcome

LEMMA EnsureFacts ==
  ASSUME NEW q \in V!Collection, Sound(q)
  PROVE  LET made == V!EnsureCollection(q) IN
         /\ made \in V!Collection /\ made.points = q.points /\ Sound(made)
         /\ made.exists = IF q.ready THEN q.exists ELSE TRUE
  BY DEF V!EnsureCollection, V!Collection, Sound

LEMMA CollectionUpsertFacts ==
  ASSUME NEW q \in V!Collection, Sound(q), NEW c \in ChunkId,
         NEW o \in V!CollectionUpsert(q, c)
  PROVE  /\ o.store \in V!Collection /\ Sound(o.store)
         /\ o.raised \in BOOLEAN /\ o.faults \in Nat
         /\ q.points \subseteq o.store.points /\ o.store.points \subseteq q.points \cup {c}
         /\ ~o.raised => c \in o.store.points
<1> DEFINE made == V!EnsureCollection(q)
           full == [made EXCEPT !.points = @ \cup {c}]
           there == [q EXCEPT !.exists = TRUE]
<1>1. /\ made \in V!Collection /\ made.points = q.points /\ Sound(made)
  BY EnsureFacts
<1> HIDE DEF made
<1>2. /\ full \in V!Collection /\ full.points = q.points \cup {c}
      /\ full.exists = made.exists
  BY <1>1 DEF V!Collection
<1>3. there \in V!Collection /\ there.points = q.points /\ there.exists
  BY DEF V!Collection
<1> HIDE DEF full, there
<1>4. o \in IF ~made.exists THEN {V!Raised(q, 0)}
            ELSE {V!Done(full)} \cup {V!Raised(s, 1) : s \in {q, there, made, full}}
  BY DEF V!CollectionUpsert, made, full, there
<1>5. CASE o = V!Raised(q, 0)
  BY <1>5, OutcomeParts
<1>6. CASE made.exists /\ o = V!Done(full)
  <2>1. o.store = full /\ ~o.raised /\ o.faults = 0 /\ o.raised \in BOOLEAN
    BY <1>6, OutcomeParts
  <2>2. Sound(full)
    BY <1>2, <1>6 DEF Sound
  <2> QED
    BY <1>2, <2>1, <2>2
<1>7. ASSUME made.exists, NEW s \in {q, there, made, full}, o = V!Raised(s, 1)
      PROVE  /\ o.store \in V!Collection /\ Sound(o.store)
             /\ o.raised \in BOOLEAN /\ o.faults \in Nat /\ o.raised
             /\ q.points \subseteq o.store.points /\ o.store.points \subseteq q.points \cup {c}
  <2>1. o.store = s /\ o.raised /\ o.raised \in BOOLEAN /\ o.faults = 1
    BY <1>7, OutcomeParts
  <2>2. /\ s \in V!Collection /\ q.points \subseteq s.points
        /\ s.points \subseteq q.points \cup {c}
    BY <1>1, <1>2, <1>3, <1>7
  <2>3. Sound(s)
    BY <1>1, <1>2, <1>3, <1>7 DEF Sound
  <2> QED
    BY <2>1, <2>2, <2>3
<1> QED
  BY <1>4, <1>5, <1>6, <1>7

LEMMA CollectionDeleteFacts ==
  ASSUME NEW q \in V!Collection, Sound(q), NEW S \in SUBSET ChunkId,
         NEW o \in V!CollectionDelete(q, S)
  PROVE  /\ o.store \in V!Collection /\ Sound(o.store)
         /\ o.raised \in BOOLEAN /\ o.faults \in Nat
         /\ q.points \ S \subseteq o.store.points /\ o.store.points \subseteq q.points
         /\ ~o.raised => o.store.points = q.points \ S
<1> DEFINE rest == [q EXCEPT !.points = @ \ S]
           off == [q EXCEPT !.ready = FALSE]
<1>1. /\ rest \in V!Collection /\ rest.points = q.points \ S
      /\ rest.exists = q.exists
      /\ off \in V!Collection /\ off.points = q.points
      /\ off.exists = q.exists
  BY DEF V!Collection
<1>2. o \in IF q.exists THEN {V!Done(rest), V!Raised(q, 1), V!Raised(rest, 1)}
            ELSE {V!Done(off), V!Raised(q, 1)}
  BY DEF V!CollectionDelete
<1> HIDE DEF rest, off
<1>3. ~q.exists => q.points = {}
  BY DEF Sound
<1> QED
  BY <1>1, <1>2, <1>3, OutcomeParts DEF Sound

LEMMA SeenFacts ==
  ASSUME NEW q \in V!Collection, Sound(q)
  PROVE  /\ V!Seen(q) \in V!Collection /\ V!Seen(q).points = q.points /\ Sound(V!Seen(q))
  BY DEF V!Seen, V!Collection, Sound

LEMMA HoldingFacts ==
  ASSUME NEW P \in SUBSET ChunkId
  PROVE  V!Holding(P) \in V!Collection /\ V!Holding(P).points = P /\ Sound(V!Holding(P))
  BY DEF V!Holding, V!Collection, Sound

LEMMA ReadErrorsFacts ==
  ASSUME NEW q \in V!Collection, Sound(q), NEW o \in V!ReadErrors(q)
  PROVE  /\ o.store \in V!Collection /\ Sound(o.store) /\ o.store.points = q.points
         /\ o.raised /\ o.raised \in BOOLEAN /\ o.faults \in Nat
<1>1. o = V!Raised(q, 1) \/ o = V!Raised(V!Seen(q), 1)
  BY DEF V!ReadErrors
<1> QED
  BY <1>1, SeenFacts, OutcomeParts

\* Whatever request of a rewriting raises, there is no point that was neither
\* there nor to be written.
LEMMA RewriteFacts ==
  ASSUME NEW q \in V!Collection, Sound(q), NEW S \in SUBSET ChunkId,
         NEW r \in V!RewriteErrors(q, S)
  PROVE  r \in V!Collection /\ Sound(r) /\ r.points \subseteq q.points \cup S
<1> DEFINE none == V!NoCollection
           stale == [none EXCEPT !.ready = q.ready]
           empty == [none EXCEPT !.exists = TRUE]
           made == V!EnsureCollection(none)
<1>1. none \in V!Collection /\ none.points = {} /\ Sound(none)
  BY DEF V!NoCollection, V!Collection, Sound
<1>2. made \in V!Collection /\ made.points = {} /\ Sound(made)
  BY <1>1, EnsureFacts
<1>3. r \in {q, stale, none, empty, made, V!Holding(S)}
  BY DEF V!RewriteErrors
<1> HIDE DEF none, made
<1>4. /\ stale \in V!Collection /\ stale.points = {} /\ Sound(stale)
      /\ empty \in V!Collection /\ empty.points = {} /\ Sound(empty)
  BY <1>1 DEF V!Collection, Sound
<1> HIDE DEF stale, empty
<1> QED
  BY <1>1, <1>2, <1>3, <1>4, HoldingFacts

LEMMA CollectionReplaceFacts ==
  ASSUME NEW q \in V!Collection, Sound(q), NEW S \in SUBSET ChunkId,
         NEW o \in V!CollectionReplaceAll(q, S)
  PROVE  /\ o.store \in V!Collection /\ Sound(o.store)
         /\ o.raised \in BOOLEAN /\ o.faults \in Nat
         /\ o.store.points \subseteq q.points \cup S
         /\ ~o.raised => o.store.points = S
<1>1. q.points \in SUBSET ChunkId
  BY DEF V!Collection
<1>2. \/ o = V!Done(V!Holding(S))
      \/ o \in V!ReadErrors(q)
      \/ o = V!Raised(V!Holding(q.points), 1)
      \/ \E t \in V!RewriteErrors(V!Seen(q), S) :
           \E s \in V!RewriteErrors(t, q.points) : o = V!Raised(s, 2)
  BY DEF V!CollectionReplaceAll
<1>3. CASE o = V!Done(V!Holding(S))
  BY <1>3, HoldingFacts, OutcomeParts
<1>4. CASE o \in V!ReadErrors(q)
  BY <1>4, ReadErrorsFacts
<1>5. CASE o = V!Raised(V!Holding(q.points), 1)
  BY <1>1, <1>5, HoldingFacts, OutcomeParts
<1>6. ASSUME NEW t \in V!RewriteErrors(V!Seen(q), S),
             NEW s \in V!RewriteErrors(t, q.points), o = V!Raised(s, 2)
      PROVE  /\ o.store \in V!Collection /\ Sound(o.store)
             /\ o.raised \in BOOLEAN /\ o.faults \in Nat /\ o.raised
             /\ o.store.points \subseteq q.points \cup S
  <2>1. t \in V!Collection /\ Sound(t) /\ t.points \subseteq q.points \cup S
    BY SeenFacts, RewriteFacts
  <2>2. s \in V!Collection /\ Sound(s) /\ s.points \subseteq t.points \cup q.points
    BY <1>1, <2>1, RewriteFacts
  <2> QED
    BY <1>6, <2>1, <2>2, OutcomeParts
<1> QED
  BY <1>2, <1>3, <1>4, <1>5, <1>6

LEMMA CollectionLookFacts ==
  ASSUME NEW q \in V!Collection, Sound(q), NEW o \in V!CollectionLook(q)
  PROVE  /\ o.store \in V!Collection /\ Sound(o.store)
         /\ o.raised \in BOOLEAN /\ o.faults \in Nat
         /\ o.store.points = q.points
<1>1. o = V!Done(V!Seen(q)) \/ o \in V!ReadErrors(q)
  BY DEF V!CollectionLook
<1> QED
  BY <1>1, SeenFacts, ReadErrorsFacts, OutcomeParts

Upserted(v, c, o) ==
  /\ StoreOk(o.store) /\ o.store.backend = v.backend
  /\ o.raised \in BOOLEAN /\ o.faults \in Nat
  /\ V!Vectors(v) \subseteq V!Vectors(o.store)
  /\ V!Vectors(o.store) \subseteq V!Vectors(v) \cup {c}
  /\ V!Searched(v) \subseteq V!Searched(o.store)
  /\ ~o.raised => c \in V!Vectors(o.store)

\* What a delete leaves although it does not raise, a primary store has.
Deleted(v, S, o) ==
  /\ StoreOk(o.store) /\ o.store.backend = v.backend
  /\ o.raised \in BOOLEAN /\ o.faults \in Nat
  /\ V!Vectors(v) \ S \subseteq V!Vectors(o.store)
  /\ V!Vectors(o.store) \subseteq V!Vectors(v)
  /\ V!Searched(v) \ S \subseteq V!Searched(o.store)
  /\ o.store.available /\ ~o.raised => V!Vectors(o.store) \cap S = {}

\* A vector that stays is looked at, unless it was to be written.
Replaced(v, S, o) ==
  /\ StoreOk(o.store) /\ o.store.backend = v.backend
  /\ o.raised \in BOOLEAN /\ o.faults \in Nat
  /\ V!Vectors(o.store) \subseteq V!Vectors(v) \cup S
  /\ V!Vectors(o.store) \subseteq V!Searched(o.store) \cup S
  /\ ~o.raised => S \subseteq V!Vectors(o.store)

Looked(v, o) ==
  /\ StoreOk(o.store) /\ o.store.backend = v.backend
  /\ o.raised \in BOOLEAN /\ o.faults \in Nat
  /\ V!Vectors(o.store) = V!Vectors(v) /\ V!Searched(o.store) = V!Searched(v)

\* The outcomes of an operation that makes the dictionary F and has the
\* outcomes S on the collection.
MemoryOutcome(v, F, o) ==
  /\ v.backend = "memory" /\ ~o.raised /\ o.faults = 0 /\ o.raised \in BOOLEAN
  /\ o.store.backend = "memory" /\ o.store.fallback = F
  /\ o.store.primary = v.primary /\ o.store \in V!VectorState

LocalOutcome(v, S, o) ==
  /\ v.backend = "qdrant_local"
  /\ \E x \in S : /\ o.raised = x.raised /\ o.faults = x.faults
                  /\ o.store = [v EXCEPT !.primary = x.store]

DualOutcome(v, F, S, o) ==
  /\ v.backend = "qdrant" /\ ~o.raised /\ o.raised \in BOOLEAN
  /\ \E x \in S : /\ o.faults = x.faults
                  /\ o.store = [v EXCEPT !.fallback = F, !.primary = x.store,
                                         !.available = ~x.raised]

LEMMA WriteCases ==
  ASSUME NEW v, StoreOk(v), NEW F \in SUBSET ChunkId,
         NEW S, \A x \in S : Outcome(x), NEW o \in V!Write(v, F, S)
  PROVE  MemoryOutcome(v, F, o) \/ LocalOutcome(v, S, o) \/ DualOutcome(v, F, S, o)
<1>1. v \in V!VectorState
  BY DEF StoreOk
<1>2. CASE v.backend = "memory"
  <2>1. o \in V!MemoryWritten(v, F)
    BY <1>2 DEF V!Write
  <2>2. o = V!Done([v EXCEPT !.fallback = F])
    BY <2>1 DEF V!MemoryWritten
  <2>3. /\ [v EXCEPT !.fallback = F] \in V!VectorState
        /\ [v EXCEPT !.fallback = F].backend = "memory"
        /\ [v EXCEPT !.fallback = F].fallback = F
        /\ [v EXCEPT !.fallback = F].primary = v.primary
    BY <1>1, <1>2 DEF V!VectorState
  <2> QED
    BY <1>2, <2>2, <2>3, OutcomeParts DEF MemoryOutcome
<1>3. CASE v.backend = "qdrant_local"
  <2>1. o \in V!LocalWritten(v, S)
    BY <1>3 DEF V!Write
  <2>2. PICK x \in S : o = [x EXCEPT !.store = [v EXCEPT !.primary = x.store]]
    BY <2>1 DEF V!LocalWritten
  <2>3. Outcome(x)
    BY <2>2
  <2> DEFINE st == [v EXCEPT !.primary = x.store]
  <2> HIDE DEF st
  <2>4. o = [store |-> st, raised |-> x.raised, faults |-> x.faults]
    BY <2>2, <2>3 DEF Outcome, st
  <2>5. o.raised = x.raised /\ o.faults = x.faults /\ o.store = st
    BY <2>4
  <2> QED
    BY <1>3, <2>5 DEF LocalOutcome, st
<1>4. CASE v.backend = "qdrant"
  <2>1. o \in V!Written(v, F, S)
    BY <1>4 DEF V!Write
  <2>2. PICK x \in S :
          o = [store |-> [v EXCEPT !.fallback = F, !.primary = x.store,
                                   !.available = ~x.raised],
               raised |-> FALSE, faults |-> x.faults]
    BY <2>1 DEF V!Written
  <2> QED
    BY <1>4, <2>2 DEF DualOutcome
<1> QED
  BY <1>1, <1>2, <1>3, <1>4 DEF V!VectorState, V!Backend

LEMMA CollectionOutcomes ==
  ASSUME NEW q, NEW c, NEW S
  PROVE  /\ \A x \in V!CollectionUpsert(q, c) : Outcome(x)
         /\ \A x \in V!CollectionDelete(q, S) : Outcome(x)
         /\ \A x \in V!CollectionReplaceAll(q, S) : Outcome(x)
         /\ \A x \in V!CollectionLook(q) : Outcome(x)
<1>1. \A x \in V!CollectionUpsert(q, c) : Outcome(x)
  BY OutcomeShape DEF V!CollectionUpsert
<1>2. \A x \in V!CollectionDelete(q, S) : Outcome(x)
  BY OutcomeShape DEF V!CollectionDelete
<1>3. \A x \in V!CollectionReplaceAll(q, S) : Outcome(x)
  BY OutcomeShape DEF V!CollectionReplaceAll, V!ReadErrors
<1>4. \A x \in V!CollectionLook(q) : Outcome(x)
  BY OutcomeShape DEF V!CollectionLook, V!ReadErrors
<1> QED
  BY <1>1, <1>2, <1>3, <1>4

LEMMA UpsertFacts ==
  ASSUME NEW v, StoreOk(v), NEW c \in ChunkId, NEW o \in V!Upsert(v, c)
  PROVE  Upserted(v, c, o)
<1>1. /\ v \in V!VectorState /\ v.primary \in V!Collection /\ Sound(v.primary)
      /\ v.fallback \in SUBSET ChunkId
  BY DEF StoreOk, V!VectorState
<1> DEFINE S == V!CollectionUpsert(v.primary, c)
           F == v.fallback \cup {c}
<1>2. o \in V!Write(v, F, S) /\ F \in SUBSET ChunkId /\ \A x \in S : Outcome(x)
  BY <1>1, CollectionOutcomes DEF V!Upsert
<1>3. \A x \in S : /\ x.store \in V!Collection /\ Sound(x.store)
                   /\ x.raised \in BOOLEAN /\ x.faults \in Nat
                   /\ v.primary.points \subseteq x.store.points
                   /\ x.store.points \subseteq v.primary.points \cup {c}
                   /\ ~x.raised => c \in x.store.points
  BY <1>1, CollectionUpsertFacts
<1> HIDE DEF S
<1>4. CASE MemoryOutcome(v, F, o)
  BY <1>1, <1>4 DEF MemoryOutcome, Upserted, StoreOk, V!Vectors, V!Searched
<1>5. ASSUME v.backend = "qdrant_local", NEW x \in S, o.raised = x.raised,
             o.faults = x.faults, o.store = [v EXCEPT !.primary = x.store]
      PROVE  Upserted(v, c, o)
  <2>1. /\ o.store \in V!VectorState /\ o.store.backend = "qdrant_local"
        /\ o.store.primary = x.store /\ o.store.fallback = v.fallback /\ v.fallback = {}
    BY <1>1, <1>3, <1>5 DEF V!VectorState, StoreOk
  <2>2. StoreOk(o.store)
    BY <1>3, <2>1 DEF StoreOk
  <2> QED
    BY <1>3, <1>5, <2>1, <2>2 DEF Upserted, V!Vectors, V!Searched
<1>6. ASSUME v.backend = "qdrant", ~o.raised, o.raised \in BOOLEAN, NEW x \in S,
             o.faults = x.faults,
             o.store = [v EXCEPT !.fallback = F, !.primary = x.store,
                                 !.available = ~x.raised]
      PROVE  Upserted(v, c, o)
  <2>1. /\ o.store \in V!VectorState /\ o.store.backend = "qdrant"
        /\ o.store.primary = x.store /\ o.store.fallback = F
        /\ o.store.available => ~x.raised
    BY <1>1, <1>2, <1>3, <1>6 DEF V!VectorState
  <2>2. StoreOk(o.store)
    BY <1>3, <2>1 DEF StoreOk
  <2> QED
    BY <1>3, <1>6, <2>1, <2>2 DEF Upserted, V!Vectors, V!Searched
<1>7. CASE LocalOutcome(v, S, o)
  BY <1>5, <1>7 DEF LocalOutcome
<1>8. CASE DualOutcome(v, F, S, o)
  BY <1>6, <1>8 DEF DualOutcome
<1>9. MemoryOutcome(v, F, o) \/ LocalOutcome(v, S, o) \/ DualOutcome(v, F, S, o)
  <2> HIDE DEF F
  <2> QED
    BY <1>2, WriteCases
<1> QED
  BY <1>4, <1>7, <1>8, <1>9

LEMMA DeleteFacts ==
  ASSUME NEW v, StoreOk(v), NEW D \in SUBSET ChunkId, NEW o \in V!Delete(v, D)
  PROVE  Deleted(v, D, o)
<1>1. /\ v \in V!VectorState /\ v.primary \in V!Collection /\ Sound(v.primary)
      /\ v.fallback \in SUBSET ChunkId
  BY DEF StoreOk, V!VectorState
<1> DEFINE S == V!CollectionDelete(v.primary, D)
           F == v.fallback \ D
<1>2. o \in V!Write(v, F, S) /\ F \in SUBSET ChunkId /\ \A x \in S : Outcome(x)
  BY <1>1, CollectionOutcomes DEF V!Delete
<1>3. \A x \in S : /\ x.store \in V!Collection /\ Sound(x.store)
                   /\ x.raised \in BOOLEAN /\ x.faults \in Nat
                   /\ v.primary.points \ D \subseteq x.store.points
                   /\ x.store.points \subseteq v.primary.points
                   /\ ~x.raised => x.store.points = v.primary.points \ D
  BY <1>1, CollectionDeleteFacts
<1> HIDE DEF S
<1>4. CASE MemoryOutcome(v, F, o)
  BY <1>1, <1>4 DEF MemoryOutcome, Deleted, StoreOk, V!Vectors, V!Searched
<1>5. ASSUME v.backend = "qdrant_local", NEW x \in S, o.raised = x.raised,
             o.faults = x.faults, o.store = [v EXCEPT !.primary = x.store]
      PROVE  Deleted(v, D, o)
  <2>1. /\ o.store \in V!VectorState /\ o.store.backend = "qdrant_local"
        /\ o.store.primary = x.store /\ o.store.fallback = v.fallback /\ v.fallback = {}
    BY <1>1, <1>3, <1>5 DEF V!VectorState, StoreOk
  <2>2. StoreOk(o.store)
    BY <1>3, <2>1 DEF StoreOk
  <2> QED
    BY <1>3, <1>5, <2>1, <2>2 DEF Deleted, V!Vectors, V!Searched
<1>6. ASSUME v.backend = "qdrant", ~o.raised, o.raised \in BOOLEAN, NEW x \in S,
             o.faults = x.faults,
             o.store = [v EXCEPT !.fallback = F, !.primary = x.store,
                                 !.available = ~x.raised]
      PROVE  Deleted(v, D, o)
  <2>1. /\ o.store \in V!VectorState /\ o.store.backend = "qdrant"
        /\ o.store.primary = x.store /\ o.store.fallback = F
        /\ o.store.available => ~x.raised
    BY <1>1, <1>2, <1>3, <1>6 DEF V!VectorState
  <2>2. StoreOk(o.store)
    BY <1>3, <2>1 DEF StoreOk
  <2> QED
    BY <1>3, <1>6, <2>1, <2>2 DEF Deleted, V!Vectors, V!Searched
<1>7. CASE LocalOutcome(v, S, o)
  BY <1>5, <1>7 DEF LocalOutcome
<1>8. CASE DualOutcome(v, F, S, o)
  BY <1>6, <1>8 DEF DualOutcome
<1>9. MemoryOutcome(v, F, o) \/ LocalOutcome(v, S, o) \/ DualOutcome(v, F, S, o)
  <2> HIDE DEF F
  <2> QED
    BY <1>2, WriteCases
<1> QED
  BY <1>4, <1>7, <1>8, <1>9

LEMMA ReplaceFacts ==
  ASSUME NEW v, StoreOk(v), NEW P \in SUBSET ChunkId, NEW o \in V!ReplaceAll(v, P)
  PROVE  Replaced(v, P, o)
<1>1. /\ v \in V!VectorState /\ v.primary \in V!Collection /\ Sound(v.primary)
      /\ v.fallback \in SUBSET ChunkId
  BY DEF StoreOk, V!VectorState
<1> DEFINE S == V!CollectionReplaceAll(v.primary, P)
           F == P
<1>2. o \in V!Write(v, F, S) /\ F \in SUBSET ChunkId /\ \A x \in S : Outcome(x)
  BY <1>1, CollectionOutcomes DEF V!ReplaceAll
<1>3. \A x \in S : /\ x.store \in V!Collection /\ Sound(x.store)
                   /\ x.raised \in BOOLEAN /\ x.faults \in Nat
                   /\ x.store.points \subseteq v.primary.points \cup P
                   /\ ~x.raised => x.store.points = P
  BY <1>1, CollectionReplaceFacts
<1> HIDE DEF S
<1>4. CASE MemoryOutcome(v, F, o)
  BY <1>1, <1>4 DEF MemoryOutcome, Replaced, StoreOk, V!Vectors, V!Searched
<1>5. ASSUME v.backend = "qdrant_local", NEW x \in S, o.raised = x.raised,
             o.faults = x.faults, o.store = [v EXCEPT !.primary = x.store]
      PROVE  Replaced(v, P, o)
  <2>1. /\ o.store \in V!VectorState /\ o.store.backend = "qdrant_local"
        /\ o.store.primary = x.store /\ o.store.fallback = v.fallback /\ v.fallback = {}
    BY <1>1, <1>3, <1>5 DEF V!VectorState, StoreOk
  <2>2. StoreOk(o.store)
    BY <1>3, <2>1 DEF StoreOk
  <2> QED
    BY <1>3, <1>5, <2>1, <2>2 DEF Replaced, V!Vectors, V!Searched
<1>6. ASSUME v.backend = "qdrant", ~o.raised, o.raised \in BOOLEAN, NEW x \in S,
             o.faults = x.faults,
             o.store = [v EXCEPT !.fallback = F, !.primary = x.store,
                                 !.available = ~x.raised]
      PROVE  Replaced(v, P, o)
  <2>1. /\ o.store \in V!VectorState /\ o.store.backend = "qdrant"
        /\ o.store.primary = x.store /\ o.store.fallback = F
        /\ o.store.available => ~x.raised
    BY <1>1, <1>2, <1>3, <1>6 DEF V!VectorState
  <2>2. StoreOk(o.store)
    BY <1>3, <2>1 DEF StoreOk
  <2> QED
    BY <1>3, <1>6, <2>1, <2>2 DEF Replaced, V!Vectors, V!Searched
<1>7. CASE LocalOutcome(v, S, o)
  BY <1>5, <1>7 DEF LocalOutcome
<1>8. CASE DualOutcome(v, F, S, o)
  BY <1>6, <1>8 DEF DualOutcome
<1>9. MemoryOutcome(v, F, o) \/ LocalOutcome(v, S, o) \/ DualOutcome(v, F, S, o)
  <2> HIDE DEF F
  <2> QED
    BY <1>2, WriteCases
<1> QED
  BY <1>4, <1>7, <1>8, <1>9

LEMMA LookFacts ==
  ASSUME NEW v, StoreOk(v), NEW o \in V!Look(v)
  PROVE  Looked(v, o)
<1>1. /\ v \in V!VectorState /\ v.primary \in V!Collection /\ Sound(v.primary)
      /\ v.backend \in V!Backend
  BY DEF StoreOk, V!VectorState
<1> DEFINE S == V!CollectionLook(v.primary)
<1>2. \A x \in S : Outcome(x)
  BY CollectionOutcomes
<1>3. \A x \in S : /\ x.store \in V!Collection /\ Sound(x.store)
                   /\ x.raised \in BOOLEAN /\ x.faults \in Nat
                   /\ x.store.points = v.primary.points
  BY <1>1, CollectionLookFacts
<1>4. ASSUME o = V!Done(v)
      PROVE  Looked(v, o)
  BY <1>4, OutcomeParts DEF Looked
<1>5. CASE v.backend = "memory"
  BY <1>4, <1>5 DEF V!Look
<1>6. CASE v.backend = "qdrant_local"
  <2>1. o \in V!LocalWritten(v, S)
    BY <1>6 DEF V!Look
  <2>2. PICK x \in S : o = [x EXCEPT !.store = [v EXCEPT !.primary = x.store]]
    BY <2>1 DEF V!LocalWritten
  <2> HIDE DEF S
  <2>3. o.raised = x.raised /\ o.faults = x.faults /\ o.store = [v EXCEPT !.primary = x.store]
    BY <1>2, <2>2 DEF Outcome
  <2>4. /\ o.store \in V!VectorState /\ o.store.backend = v.backend
        /\ o.store.primary = x.store /\ o.store.fallback = v.fallback
    BY <1>1, <1>3, <2>3 DEF V!VectorState
  <2>5. StoreOk(o.store)
    BY <1>3, <1>6, <2>4 DEF StoreOk
  <2> QED
    BY <1>3, <2>3, <2>4, <2>5 DEF Looked, V!Vectors, V!Searched
<1>7. CASE v.backend = "qdrant"
  <2>1. CASE ~v.available
    BY <1>4, <1>7, <2>1 DEF V!Look, V!PrimaryLook
  <2>2. CASE v.available
    <3>1. o \in V!PrimaryLook(v)
      BY <1>7 DEF V!Look
    <3>2. PICK x \in S :
            o = [store |-> [v EXCEPT !.primary = x.store, !.available = ~x.raised],
                 raised |-> x.raised, faults |-> x.faults]
      BY <2>2, <3>1 DEF V!PrimaryLook
    <3> HIDE DEF S
    <3>3. /\ o.raised = x.raised /\ o.faults = x.faults
          /\ o.store = [v EXCEPT !.primary = x.store, !.available = ~x.raised]
      BY <3>2
    <3>4. /\ o.store \in V!VectorState /\ o.store.backend = v.backend
          /\ o.store.primary = x.store /\ o.store.fallback = v.fallback
      BY <1>1, <1>3, <3>3 DEF V!VectorState
    <3>5. StoreOk(o.store)
      BY <1>3, <1>7, <3>4 DEF StoreOk
    <3> QED
      BY <1>3, <3>3, <3>4, <3>5 DEF Looked, V!Vectors, V!Searched
  <2> QED
    BY <1>1, <2>1, <2>2 DEF V!VectorState
<1> QED
  BY <1>1, <1>5, <1>6, <1>7 DEF V!Backend

\* A restart empties the dictionary of the process.
LEMMA ReopenedFacts ==
  ASSUME NEW v, StoreOk(v)
  PROVE  LET w == V!Reopened(v) IN
         /\ StoreOk(w) /\ w.backend = v.backend
         /\ V!Vectors(w) \subseteq V!Vectors(v)
         /\ V!Vectors(w) \subseteq V!Searched(w)
<1> DEFINE w == V!Reopened(v)
<1>1. v \in V!VectorState
  BY DEF StoreOk
<1>2. /\ w \in V!VectorState /\ w.backend = v.backend /\ w.fallback = {}
      /\ w.primary.points = v.primary.points /\ w.primary.exists = v.primary.exists
  BY <1>1 DEF V!Reopened, V!VectorState, V!Collection
<1> HIDE DEF w
<1>3. StoreOk(w)
  BY <1>2 DEF StoreOk, Sound
<1>4. V!Vectors(w) \subseteq V!Vectors(v) /\ V!Vectors(w) \subseteq V!Searched(w)
  BY <1>2 DEF StoreOk, V!Vectors, V!Searched
<1> QED
  BY <1>2, <1>3, <1>4 DEF w

-----------------------------------------------------------------------------
(* The effect of a write on what the services read *)

LEMMA AddEffect ==
  ASSUME KnowledgeInv, NEW d \in Documents, NEW status \in {"pending", "ready"},
         NEW label \in {"none", "signature"}, NEW b \in Builds,
         AddDocument(d, status, label, b)
  PROVE  /\ \A e \in Documents : StatusOf(e)' = IF e = d THEN status ELSE StatusOf(e)
         /\ \A c \in ChunkId : LabelOf(c)' =
              IF c.document # d THEN LabelOf(c)
              ELSE IF c.build = b THEN label ELSE "absent"
<1> DEFINE n == NewRecords(d, status, label, b)
<1>1. n \in Records
  BY NewRecordsType
<1>2. sqlite \in Tables
  BY DEF KnowledgeInv, KnowledgeTypeOK
<1>3. sqlite' = SqliteAddDocument(sqlite, n)
  BY DEF AddDocument
<1>4. /\ n.document = d /\ n.status = status /\ n.label = label
      /\ n.chunks = ChunksOf(d, b)
  BY DEF NewRecords
<1> HIDE DEF n
<1>5. sqlite' = Added(sqlite, n)
  BY <1>1, <1>2, <1>3, SqliteAdds
<1>6. /\ sqlite'.documents = [sqlite.documents EXCEPT ![d] = status]
      /\ sqlite'.chunks = [c \in ChunkId |->
           IF c \in ChunksOf(d, b) THEN label
           ELSE IF c.document = d THEN "absent" ELSE sqlite.chunks[c]]
  BY <1>4, <1>5 DEF Added
<1>7. sqlite.documents \in [Documents -> IndexStatus]
  BY <1>2 DEF Tables
<1>8. \A e \in Documents : StatusOf(e)' = IF e = d THEN status ELSE StatusOf(e)
  BY <1>6, <1>7 DEF StatusOf
<1>9. \A c \in ChunkId : c \in ChunksOf(d, b) <=> c.document = d /\ c.build = b
  BY DEF ChunksOf
<1>10. \A c \in ChunkId : LabelOf(c)' =
         IF c.document # d THEN LabelOf(c) ELSE IF c.build = b THEN label ELSE "absent"
  BY <1>6, <1>9 DEF LabelOf
<1> QED
  BY <1>8, <1>10

LEMMA LabelsEffect ==
  ASSUME KnowledgeInv, NEW S, NEW label \in {"none", "signature"}, SetChunkLabels(S, label)
  PROVE  /\ \A e \in Documents : StatusOf(e)' = StatusOf(e)
         /\ \A c \in ChunkId : LabelOf(c)' =
              IF c \in S /\ LabelOf(c) # "absent" THEN label ELSE LabelOf(c)
<1>1. sqlite \in Tables
  BY DEF KnowledgeInv, KnowledgeTypeOK
<1> DEFINE chunks == [c \in ChunkId |->
             IF c \in S /\ sqlite.chunks[c] # "absent" THEN label ELSE sqlite.chunks[c]]
<1>2. sqlite' = [sqlite EXCEPT !.chunks = chunks]
  BY DEF SetChunkLabels, SqliteSetLabels
<1>3. \A c \in ChunkId : chunks[c] =
        IF c \in S /\ sqlite.chunks[c] # "absent" THEN label ELSE sqlite.chunks[c]
  OBVIOUS
<1> HIDE DEF chunks
<1>4. sqlite'.chunks = chunks /\ sqlite'.documents = sqlite.documents
  BY <1>1, <1>2 DEF Tables
<1> QED
  BY <1>3, <1>4 DEF StatusOf, LabelOf

LEMMA StatusEffect ==
  ASSUME KnowledgeInv, NEW d \in Documents, NEW status \in IndexStatus,
         SetIndexStatus(d, status)
  PROVE  /\ \A e \in Documents : StatusOf(e)' =
              IF e = d /\ StatusOf(e) # "absent" THEN status ELSE StatusOf(e)
         /\ \A c \in ChunkId : LabelOf(c)' = LabelOf(c)
<1>1. sqlite \in Tables /\ sqlite.documents \in [Documents -> IndexStatus]
  BY DEF KnowledgeInv, KnowledgeTypeOK, Tables
<1>2. PICK s \in IndexStatus :
        s = IF sqlite.documents[d] = "absent" THEN sqlite.documents[d] ELSE status
  BY <1>1
<1>3. sqlite' = [sqlite EXCEPT !.documents[d] = s]
  BY <1>1, <1>2 DEF SetIndexStatus, SqliteSetStatus
<1>4. sqlite'.documents = [sqlite.documents EXCEPT ![d] = s] /\ sqlite'.chunks = sqlite.chunks
  BY <1>1, <1>3, StatusFacts
<1> QED
  BY <1>1, <1>2, <1>4 DEF StatusOf, LabelOf

LEMMA KnowledgeSame ==
  ASSUME UNCHANGED knowledgeVars
  PROVE  /\ KnowledgeInv => KnowledgeInv'
         /\ \A d \in Documents : StatusOf(d)' = StatusOf(d)
         /\ \A c \in ChunkId : LabelOf(c)' = LabelOf(c)
         /\ ListDocuments' = ListDocuments
  BY DEF knowledgeVars, KnowledgeInv, KnowledgeTypeOK, Agree, StatusOf, LabelOf, ListDocuments

-----------------------------------------------------------------------------
(* The base invariant: types, the agreement of the stores, what a job has  *)
(* in its phases, and that an upload which fails leaves nothing behind.    *)

AllChunks(S, j) == UNION {ChunksOf(d, j) : d \in S}

\* r is the row and the thread of job j.
JobGood(j, r) ==
  /\ r.todo \subseteq r.documents
  /\ r.phase \in {"idle", "queued", "listing"} => r.todo = {}
  /\ r.points \subseteq AllChunks(r.documents, j)
  /\ r.phase = "replacing" => r.points = AllChunks(r.documents, j)
  /\ r.phase \in {"replacing", "upserting"} =>
       r.documents # {} /\ r.points # {}
  /\ r.phase \in {"storing", "marking"} => r.todo # {}

Failed(d) ==
  \/ upload[d].phase = "failing"
  \/ upload[d].phase = "returned" /\ StatusOf(d) = "failed"

\* The vectors of the upload of d.
Leaves(d) == V!Vectors(vectors) \cap ChunksOf(d, Upload)

CleanOk(d) ==
  /\ (upload[d].phase = "unlabelling" \/ Failed(d)) => Leaves(d) = {} \/ upload[d].leftover
  /\ Failed(d) => \A c \in ChunksOf(d, Upload) : LabelOf(c) # "signature"

IndexTypes ==
  /\ upload \in [Documents -> UploadState]
  /\ job \in [Jobs -> JobState]
  /\ taken \subseteq ChunkId /\ missed \subseteq ChunkId
  /\ faults \in 0..MaxFaults

BaseInv ==
  /\ KnowledgeInv /\ StoreOk(vectors) /\ IndexTypes
  /\ \A j \in Jobs : JobGood(j, job[j])
  /\ \A d \in Documents : CleanOk(d)

LEMMA BuildFacts ==
  /\ Upload \in Builds /\ \A j \in Jobs : j \in Builds /\ j # Upload
  /\ \A d \in Documents, b \in Builds : ChunksOf(d, b) \in SUBSET ChunkId
  BY BuildsAssumption DEF ChunksOf

LEMMA FaultFacts ==
  /\ IndexTypes => faults \in Nat
  /\ IndexTypes /\ Fault => faults' \in 0..MaxFaults /\ faults' \in Nat
  BY FaultBoundAssumption DEF IndexTypes, Fault

\* The outcome of a call to the vector store.
LEMMA CallFacts ==
  ASSUME NEW S, NEW A, NEW B, VectorCall(S, A, B), IndexTypes,
         \A o \in S : o.faults \in Nat
  PROVE  \E o \in S : /\ vectors' = o.store /\ faults' = faults + o.faults
                      /\ faults' \in 0..MaxFaults
                      /\ o.raised => B
                      /\ ~o.raised => A
<1>1. PICK o \in S : /\ faults + o.faults <= MaxFaults
                     /\ faults' = faults + o.faults /\ vectors' = o.store
                     /\ IF o.raised THEN B ELSE A
  BY DEF VectorCall
<1>2. faults' \in 0..MaxFaults
  BY <1>1, FaultBoundAssumption DEF IndexTypes
<1> QED
  BY <1>1, <1>2

\* A document that a step does not handle.
LEMMA CleanFrame ==
  ASSUME NEW d \in Documents, CleanOk(d), upload'[d] = upload[d],
         Leaves(d)' \subseteq Leaves(d),
         StatusOf(d)' = "failed" => StatusOf(d) = "failed",
         \A c \in ChunksOf(d, Upload) : LabelOf(c)' = "signature" => LabelOf(c) = "signature"
  PROVE  CleanOk(d)'
<1>1. Failed(d)' => Failed(d)
  BY DEF Failed
<1>2. ChunksOf(d, Upload)' = ChunksOf(d, Upload)
  BY DEF ChunksOf
<1>3. Failed(d)' => \A c \in ChunksOf(d, Upload) : LabelOf(c)' # "signature"
  BY <1>1 DEF CleanOk
<1>4. (upload'[d].phase = "unlabelling" \/ Failed(d)')
        => Leaves(d)' = {} \/ upload'[d].leftover
  BY <1>1 DEF CleanOk
<1> QED
  BY <1>2, <1>3, <1>4 DEF CleanOk

\* Chunks that are not of the upload of d do not count.
LEMMA LeavesFrame ==
  ASSUME NEW d \in Documents, NEW X,
         V!Vectors(vectors') \subseteq V!Vectors(vectors) \cup X,
         X \cap ChunksOf(d, Upload) = {}
  PROVE  Leaves(d)' \subseteq Leaves(d)
<1>1. Leaves(d)' = V!Vectors(vectors') \cap ChunksOf(d, Upload)
  BY DEF Leaves, ChunksOf, V!Vectors
<1> QED
  BY <1>1 DEF Leaves

LEMMA LeavesSame ==
  ASSUME UNCHANGED vectors
  PROVE  \A d \in Documents : Leaves(d)' = Leaves(d)
  BY DEF Leaves, ChunksOf, V!Vectors

LEMMA CleanAll ==
  ASSUME BaseInv, UNCHANGED <<knowledgeVars, upload>>,
         \A d \in Documents : Leaves(d)' \subseteq Leaves(d)
  PROVE  \A d \in Documents : CleanOk(d)'
<1> SUFFICES ASSUME NEW d \in Documents
             PROVE  CleanOk(d)'
  OBVIOUS
<1>1. CleanOk(d) /\ upload'[d] = upload[d]
  BY DEF BaseInv
<1>2. /\ StatusOf(d)' = StatusOf(d)
      /\ \A c \in ChunksOf(d, Upload) : LabelOf(c)' = LabelOf(c)
  BY KnowledgeSame DEF ChunksOf
<1> QED
  BY <1>1, <1>2, CleanFrame

-----------------------------------------------------------------------------
(* Uploads *)

LEMMA UploadMoves ==
  ASSUME IndexTypes, NEW d \in Documents
  PROVE  /\ \A p : UploadGoesTo(d, p) =>
              \A e \in Documents : e # d => upload'[e] = upload[e]
         /\ \A p \in {"upserting", "labelling", "marking", "deleting",
                      "unlabelling", "failing", "returned", "raised"} : UploadGoesTo(d, p) =>
              /\ upload' \in [Documents -> UploadState]
              /\ upload'[d].phase = p
              /\ upload'[d].leftover = upload[d].leftover
              /\ upload'[d].chunk = upload[d].chunk
  BY DEF IndexTypes, UploadGoesTo, UploadState

\* What is left to show of a step of the upload of d.
LEMMA UploadBase ==
  ASSUME BaseInv, NEW d \in Documents, UNCHANGED job, taken' \subseteq ChunkId,
         missed' \subseteq ChunkId, KnowledgeInv', StoreOk(vectors'), faults' \in 0..MaxFaults,
         upload' \in [Documents -> UploadState],
         \A e \in Documents : e # d => upload'[e] = upload[e],
         \A e \in Documents : e # d => StatusOf(e)' = StatusOf(e),
         \A c \in ChunkId : c.document # d => LabelOf(c)' = LabelOf(c),
         \A e \in Documents : e # d => Leaves(e)' \subseteq Leaves(e),
         CleanOk(d)'
  PROVE  BaseInv'
<1>1. IndexTypes'
  BY DEF BaseInv, IndexTypes
<1>2. StoreOk(vectors)'
  BY DEF StoreOk, Sound
<1>3. \A j \in Jobs : JobGood(j, job[j])'
  BY DEF BaseInv, JobGood, AllChunks, ChunksOf
<1>4. \A e \in Documents : CleanOk(e)'
  <2> SUFFICES ASSUME NEW e \in Documents, e # d
               PROVE  CleanOk(e)'
    OBVIOUS
  <2>1. \A c \in ChunksOf(e, Upload) : LabelOf(c)' = LabelOf(c)
    BY DEF ChunksOf
  <2> QED
    BY <2>1, CleanFrame DEF BaseInv
<1> QED
  BY <1>1, <1>2, <1>3, <1>4 DEF BaseInv

\* Steps that leave the vector store alone.
LEMMA UploadBaseSame ==
  ASSUME BaseInv, NEW d \in Documents, UNCHANGED <<vectors, job, historyVars>>,
         UNCHANGED faults \/ Fault,
         KnowledgeInv',
         upload' \in [Documents -> UploadState],
         \A e \in Documents : e # d => upload'[e] = upload[e],
         \A e \in Documents : e # d => StatusOf(e)' = StatusOf(e),
         \A c \in ChunkId : c.document # d => LabelOf(c)' = LabelOf(c),
         CleanOk(d)'
  PROVE  BaseInv'
<1>1. faults' \in 0..MaxFaults
  BY FaultFacts DEF BaseInv, IndexTypes
<1>2. StoreOk(vectors')
  BY DEF BaseInv
<1>3. \A e \in Documents : Leaves(e)' \subseteq Leaves(e)
  BY LeavesSame
<1>4. UNCHANGED job /\ taken' \subseteq ChunkId /\ missed' \subseteq ChunkId
  BY DEF BaseInv, IndexTypes, historyVars
<1> QED
  BY <1>1, <1>2, <1>3, <1>4, UploadBase

\* Calls that raise, and embed_passages.
LEMMA UploadLeaps ==
  ASSUME BaseInv, NEW d \in Documents, NEW p \in {"upserting", "deleting", "raised"},
         UploadGoesTo(d, p), KnowledgeInv', UNCHANGED <<vectors, job, historyVars>>,
         UNCHANGED faults \/ Fault,
         \A e \in Documents : e # d => StatusOf(e)' = StatusOf(e),
         \A c \in ChunkId : c.document # d => LabelOf(c)' = LabelOf(c)
  PROVE  BaseInv'
<1>1. /\ upload' \in [Documents -> UploadState] /\ upload'[d].phase = p
      /\ \A e \in Documents : e # d => upload'[e] = upload[e]
  BY UploadMoves DEF BaseInv
<1>2. CleanOk(d)'
  BY <1>1 DEF CleanOk, Failed
<1> QED
  BY <1>1, <1>2, UploadBaseSame

LEMMA UploadRaises ==
  ASSUME BaseInv, NEW d \in Documents, NEW p \in {"deleting", "raised"},
         UploadGoesTo(d, p), Fault, UNCHANGED <<knowledgeVars, vectors, job, historyVars>>
  PROVE  BaseInv'
  BY UploadLeaps, KnowledgeSame DEF BaseInv

LEMMA StartUploadBase ==
  ASSUME BaseInv, NEW d \in Documents, StartUpload(d)
  PROVE  BaseInv'
<1>1. UNCHANGED <<vectors, job, historyVars>>
  BY DEF StartUpload
<1>2. CASE UploadGoesTo(d, "raised") /\ Fault /\ UNCHANGED knowledgeVars
  BY <1>1, <1>2, UploadRaises
<1>3. ASSUME AddDocument(d, "pending", "none", Upload), NEW p \in {"upserting", "deleting"},
             UploadGoesTo(d, p), UNCHANGED faults \/ Fault
      PROVE  BaseInv'
  <2>1. KnowledgeInv'
    BY <1>3, AddDocumentOk, BuildFacts DEF BaseInv
  <2>2. /\ \A e \in Documents : StatusOf(e)' = IF e = d THEN "pending" ELSE StatusOf(e)
        /\ \A c \in ChunkId : c.document # d => LabelOf(c)' = LabelOf(c)
    BY <1>3, AddEffect, BuildFacts DEF BaseInv
  <2> QED
    BY <1>1, <1>3, <2>1, <2>2, UploadLeaps
<1> QED
  BY <1>2, <1>3 DEF StartUpload, MayRaise

LEMMA UploadChunkIn ==
  ASSUME IndexTypes, NEW d \in Documents
  PROVE  UploadChunk(d) \in ChunkId /\ UploadChunk(d) \in ChunksOf(d, Upload)
         /\ UploadChunk(d).document = d
  BY BuildFacts DEF UploadChunk, ChunkId, ChunksOf, IndexTypes, UploadState

LEMMA OtherLeaves ==
  ASSUME NEW d \in Documents, NEW e \in Documents, e # d
  PROVE  ChunksOf(d, Upload) \cap ChunksOf(e, Upload) = {}
  BY DEF ChunksOf

LEMMA UpsertUploadBase ==
  ASSUME BaseInv, NEW d \in Documents, UpsertUpload(d)
  PROVE  BaseInv'
<1> DEFINE c == UploadChunk(d)
<1>1. c \in ChunkId /\ c \in ChunksOf(d, Upload)
  BY UploadChunkIn DEF BaseInv
<1>2. /\ UNCHANGED <<knowledgeVars, job, taken>> /\ upload[d].phase = "upserting"
      /\ Misses({c})
      /\ VectorCall(V!Upsert(vectors, c), UploadGoesTo(d, "labelling"),
                    UploadGoesTo(d, "deleting"))
  BY DEF UpsertUpload
<1> HIDE DEF c
<1>3. /\ faults \in Nat /\ StoreOk(vectors) /\ IndexTypes
      /\ taken' \subseteq ChunkId /\ missed' \subseteq ChunkId
  BY <1>1, <1>2, FaultFacts DEF BaseInv, IndexTypes, Misses
<1>4. \A o \in V!Upsert(vectors, c) : Upserted(vectors, c, o)
  BY <1>1, <1>3, UpsertFacts
<1>5. \A o \in V!Upsert(vectors, c) : o.faults \in Nat
  BY <1>4 DEF Upserted
<1>6. PICK o \in V!Upsert(vectors, c) :
        /\ vectors' = o.store /\ faults' = faults + o.faults /\ faults' \in 0..MaxFaults
        /\ o.raised => UploadGoesTo(d, "deleting")
        /\ ~o.raised => UploadGoesTo(d, "labelling")
  BY <1>2, <1>3, <1>5, CallFacts
<1>7. Upserted(vectors, c, o)
  BY <1>4
<1>8. /\ StoreOk(vectors')
      /\ V!Vectors(vectors') \subseteq V!Vectors(vectors) \cup {c}
  BY <1>6, <1>7 DEF Upserted
<1>9. /\ upload' \in [Documents -> UploadState]
      /\ \A e \in Documents : e # d => upload'[e] = upload[e]
      /\ upload'[d].phase = IF o.raised THEN "deleting" ELSE "labelling"
  BY <1>3, <1>6, UploadMoves
<1>10. \A e \in Documents : e # d => Leaves(e)' \subseteq Leaves(e)
  <2> SUFFICES ASSUME NEW e \in Documents, e # d
               PROVE  Leaves(e)' \subseteq Leaves(e)
    OBVIOUS
  <2>1. {c} \cap ChunksOf(e, Upload) = {}
    BY <1>1, OtherLeaves
  <2> QED
    BY <1>8, <2>1, LeavesFrame
<1>11. CleanOk(d)'
  BY <1>9 DEF CleanOk, Failed
<1> QED
  BY <1>2, <1>3, <1>6, <1>8, <1>9, <1>10, <1>11, KnowledgeSame, UploadBase DEF BaseInv

LEMMA LabelUploadBase ==
  ASSUME BaseInv, NEW d \in Documents, LabelUpload(d)
  PROVE  BaseInv'
<1> DEFINE labelled ==
             /\ SetChunkLabels({UploadChunk(d)}, "signature")
             /\ upload' =
                  IF upload[d].chunk = ChunksPerDocument
                    THEN [upload EXCEPT ![d].phase = "marking"]
                    ELSE [upload EXCEPT ![d].phase = "upserting", ![d].chunk = @ + 1]
             /\ UNCHANGED <<vectors, job, historyVars, faults>>
<1>a. labelled \/ (UploadGoesTo(d, "deleting") /\ Fault
                    /\ UNCHANGED <<knowledgeVars, vectors, job, historyVars>>)
  BY DEF LabelUpload, MayRaise
<1>b. SUFFICES ASSUME labelled
               PROVE  BaseInv'
  BY <1>a, UploadRaises
<1>1. /\ SetChunkLabels({UploadChunk(d)}, "signature")
      /\ UNCHANGED <<vectors, job, historyVars, faults>>
  BY <1>b
<1>2. UploadChunk(d) \in ChunkId /\ UploadChunk(d).document = d
  BY UploadChunkIn DEF BaseInv
<1>3. KnowledgeInv'
  BY <1>1, SetLabelsOk DEF BaseInv
<1>4. /\ \A e \in Documents : StatusOf(e)' = StatusOf(e)
      /\ \A c \in ChunkId : c.document # d => LabelOf(c)' = LabelOf(c)
  BY <1>1, <1>2, LabelsEffect DEF BaseInv
<1>5. /\ upload \in [Documents -> UploadState] /\ upload[d].chunk \in 1..ChunksPerDocument
      /\ upload[d] \in UploadState
  BY DEF BaseInv, IndexTypes, UploadState
<1> DEFINE r == IF upload[d].chunk = ChunksPerDocument
                  THEN [upload[d] EXCEPT !.phase = "marking"]
                  ELSE [upload[d] EXCEPT !.phase = "upserting", !.chunk = @ + 1]
<1>6. upload' = [upload EXCEPT ![d] = r]
  <2>1. CASE upload[d].chunk = ChunksPerDocument
    BY <1>b, <2>1
  <2>2. CASE upload[d].chunk # ChunksPerDocument
    BY <1>b, <1>5, <2>2 DEF UploadState
  <2> QED
    BY <2>1, <2>2
<1>7. r \in UploadState /\ r.phase \in {"marking", "upserting"}
  <2>1. CASE upload[d].chunk = ChunksPerDocument
    BY <1>5, <2>1 DEF UploadState
  <2>2. CASE upload[d].chunk # ChunksPerDocument
    <3>1. upload[d].chunk + 1 \in 1..ChunksPerDocument
      BY <1>5, <2>2, ChunksAssumption
    <3> DEFINE k == upload[d].chunk + 1
    <3>2. r = [upload[d] EXCEPT !.phase = "upserting", !.chunk = k]
      BY <2>2
    <3> HIDE DEF k, r
    <3> QED
      BY <1>5, <3>1, <3>2 DEF UploadState, k
  <2> QED
    BY <2>1, <2>2
<1> HIDE DEF r
<1>8. /\ upload' \in [Documents -> UploadState] /\ upload'[d] = r
      /\ \A e \in Documents : e # d => upload'[e] = upload[e]
  BY <1>5, <1>6, <1>7
<1>9. CleanOk(d)'
  BY <1>7, <1>8 DEF CleanOk, Failed
<1> QED
  BY <1>1, <1>3, <1>4, <1>8, <1>9, UploadBaseSame

LEMMA MarkReadyBase ==
  ASSUME BaseInv, NEW d \in Documents, MarkReady(d)
  PROVE  BaseInv'
<1> DEFINE marked == /\ SetIndexStatus(d, "ready") /\ UploadGoesTo(d, "returned")
                     /\ UNCHANGED <<vectors, job, historyVars, faults>>
<1>a. marked \/ (UploadGoesTo(d, "deleting") /\ Fault
                  /\ UNCHANGED <<knowledgeVars, vectors, job, historyVars>>)
  BY DEF MarkReady, MayRaise
<1>b. SUFFICES ASSUME marked
               PROVE  BaseInv'
  BY <1>a, UploadRaises
<1>1. /\ SetIndexStatus(d, "ready") /\ UploadGoesTo(d, "returned")
      /\ UNCHANGED <<vectors, job, historyVars, faults>>
  BY <1>b
<1>2. KnowledgeInv'
  BY <1>1, SetStatusOk DEF BaseInv, IndexStatus
<1>3. /\ \A e \in Documents : StatusOf(e)' =
           IF e = d /\ StatusOf(e) # "absent" THEN "ready" ELSE StatusOf(e)
      /\ \A c \in ChunkId : LabelOf(c)' = LabelOf(c)
  BY <1>1, StatusEffect DEF BaseInv, IndexStatus
<1>4. /\ upload' \in [Documents -> UploadState] /\ upload'[d].phase = "returned"
      /\ \A e \in Documents : e # d => upload'[e] = upload[e]
  BY <1>1, UploadMoves DEF BaseInv
<1>5. ~Failed(d)'
  BY <1>3, <1>4 DEF Failed
<1>6. CleanOk(d)'
  BY <1>4, <1>5 DEF CleanOk
<1> QED
  BY <1>1, <1>2, <1>3, <1>4, <1>6, UploadBaseSame

LEMMA RollBackVectorsBase ==
  ASSUME BaseInv, NEW d \in Documents, RollBackVectors(d)
  PROVE  BaseInv'
<1> DEFINE S == ChunksOf(d, Upload)
           left(b) == upload' = [upload EXCEPT ![d].phase = "unlabelling",
                                               ![d].leftover = b]
<1>1. S \in SUBSET ChunkId
  BY DEF ChunksOf
<1>2. /\ UNCHANGED <<knowledgeVars, job, historyVars>>
      /\ VectorCall(V!Delete(vectors, S), left(~vectors'.available), left(TRUE))
  BY DEF RollBackVectors
<1>3. faults \in Nat /\ StoreOk(vectors) /\ IndexTypes
  BY FaultFacts DEF BaseInv
<1>4. ASSUME NEW b \in BOOLEAN, left(b)
      PROVE  /\ upload' \in [Documents -> UploadState]
             /\ \A e \in Documents : e # d => upload'[e] = upload[e]
             /\ upload'[d].phase = "unlabelling" /\ upload'[d].leftover = b
  <2>1. upload \in [Documents -> UploadState] /\ upload[d] \in UploadState
    BY <1>3 DEF IndexTypes
  <2> DEFINE r == [upload[d] EXCEPT !.phase = "unlabelling", !.leftover = b]
  <2>2. upload' = [upload EXCEPT ![d] = r]
    BY <1>4, <2>1
  <2>3. r \in UploadState /\ r.phase = "unlabelling" /\ r.leftover = b
    BY <2>1 DEF UploadState
  <2> HIDE DEF r
  <2> QED
    BY <2>1, <2>2, <2>3
<1> DEFINE told == left(~vectors'.available)
           lost == left(TRUE)
<1>c. VectorCall(V!Delete(vectors, S), told, lost)
  BY <1>2
<1> HIDE DEF S, left, told, lost
<1>5. \A o \in V!Delete(vectors, S) : Deleted(vectors, S, o)
  BY <1>1, <1>3, DeleteFacts
<1>6. \A o \in V!Delete(vectors, S) : o.faults \in Nat
  BY <1>5 DEF Deleted
<1>7. PICK o \in V!Delete(vectors, S) :
        /\ vectors' = o.store /\ faults' = faults + o.faults /\ faults' \in 0..MaxFaults
        /\ o.raised => lost
        /\ ~o.raised => told
  BY <1>c, <1>3, <1>6, CallFacts
<1>8. Deleted(vectors, S, o)
  BY <1>5
<1>9. /\ StoreOk(vectors') /\ vectors'.available \in BOOLEAN
      /\ V!Vectors(vectors') \subseteq V!Vectors(vectors)
      /\ vectors'.available /\ ~o.raised => V!Vectors(vectors') \cap S = {}
  BY <1>7, <1>8 DEF Deleted, StoreOk, V!VectorState
<1>10. /\ upload' \in [Documents -> UploadState]
       /\ \A e \in Documents : e # d => upload'[e] = upload[e]
       /\ upload'[d].phase = "unlabelling"
       /\ o.raised \/ ~vectors'.available => upload'[d].leftover
  <2>1. CASE o.raised
    BY <1>4, <1>7, <2>1 DEF lost
  <2>2. CASE ~o.raised /\ vectors'.available
    BY <1>4, <1>7, <1>9, <2>2 DEF told
  <2>3. CASE ~o.raised /\ ~vectors'.available
    BY <1>4, <1>7, <1>9, <2>3 DEF told
  <2> QED
    BY <2>1, <2>2, <2>3
<1>11. \A e \in Documents : Leaves(e)' \subseteq Leaves(e)
  <2> SUFFICES ASSUME NEW e \in Documents
               PROVE  Leaves(e)' \subseteq Leaves(e)
    OBVIOUS
  <2> DEFINE X == {}
  <2>1. V!Vectors(vectors') \subseteq V!Vectors(vectors) \cup X
        /\ X \cap ChunksOf(e, Upload) = {}
    BY <1>9
  <2> HIDE DEF X
  <2> QED
    BY <2>1, LeavesFrame
<1>12. CleanOk(d)'
  <2>1. ~Failed(d)'
    BY <1>10 DEF Failed
  <2>2. Leaves(d)' = V!Vectors(vectors') \cap S
    BY DEF Leaves, ChunksOf, V!Vectors, S
  <2>3. Leaves(d)' = {} \/ upload'[d].leftover
    BY <1>9, <1>10, <2>2
  <2> QED
    BY <2>1, <2>3 DEF CleanOk
<1>13. taken' \subseteq ChunkId /\ missed' \subseteq ChunkId
  BY <1>2, <1>3 DEF IndexTypes, historyVars
<1> QED
  BY <1>2, <1>7, <1>9, <1>10, <1>11, <1>12, <1>13, KnowledgeSame, UploadBase DEF BaseInv

LEMMA UnlabelUploadBase ==
  ASSUME BaseInv, NEW d \in Documents, UnlabelUpload(d)
  PROVE  BaseInv'
<1> DEFINE unlabelled ==
             /\ SetChunkLabels(ChunksOf(d, Upload), "none") /\ UploadGoesTo(d, "failing")
             /\ UNCHANGED faults
           some(k) == SetChunkLabels({c \in ChunksOf(d, Upload) : c.index < k}, "none")
<1>a. /\ upload[d].phase = "unlabelling" /\ UNCHANGED <<vectors, job, historyVars>>
      /\ \/ unlabelled
         \/ \E k \in 1..ChunksPerDocument : some(k) /\ UploadGoesTo(d, "raised") /\ Fault
  BY DEF UnlabelUpload, MayRaise
<1>c. ASSUME NEW k \in 1..ChunksPerDocument, some(k), UploadGoesTo(d, "raised"), Fault
      PROVE  BaseInv'
  <2> DEFINE S == {c \in ChunksOf(d, Upload) : c.index < k}
  <2>1. \A c \in S : c.document = d
    BY DEF ChunksOf
  <2> HIDE DEF S
  <2>2. SetChunkLabels(S, "none")
    BY <1>c DEF S
  <2>3. KnowledgeInv'
    BY <2>2, SetLabelsOk DEF BaseInv
  <2>4. /\ \A e \in Documents : StatusOf(e)' = StatusOf(e)
        /\ \A c \in ChunkId : LabelOf(c)' =
             IF c \in S /\ LabelOf(c) # "absent" THEN "none" ELSE LabelOf(c)
    BY <2>2, LabelsEffect DEF BaseInv
  <2> QED
    BY <1>a, <1>c, <2>1, <2>3, <2>4, UploadLeaps
<1>b. SUFFICES ASSUME unlabelled
               PROVE  BaseInv'
  BY <1>a, <1>c
<1>1. /\ SetChunkLabels(ChunksOf(d, Upload), "none") /\ UploadGoesTo(d, "failing")
      /\ UNCHANGED <<vectors, job, historyVars, faults>>
      /\ upload[d].phase = "unlabelling"
  BY <1>a, <1>b
<1>2. KnowledgeInv'
  BY <1>1, SetLabelsOk DEF BaseInv
<1>3. /\ \A e \in Documents : StatusOf(e)' = StatusOf(e)
      /\ \A c \in ChunkId : LabelOf(c)' =
           IF c \in ChunksOf(d, Upload) /\ LabelOf(c) # "absent" THEN "none" ELSE LabelOf(c)
  BY <1>1, LabelsEffect DEF BaseInv
<1>4. /\ upload' \in [Documents -> UploadState] /\ upload'[d].phase = "failing"
      /\ upload'[d].leftover = upload[d].leftover
      /\ \A e \in Documents : e # d => upload'[e] = upload[e]
  BY <1>1, UploadMoves DEF BaseInv
<1>5. \A c \in ChunkId : c.document # d => LabelOf(c)' = LabelOf(c)
  BY <1>3 DEF ChunksOf
<1>6. CleanOk(d)'
  <2>1. \A c \in ChunksOf(d, Upload) : LabelOf(c)' # "signature"
    BY <1>3, BuildFacts
  <2>2. ChunksOf(d, Upload)' = ChunksOf(d, Upload)
    BY DEF ChunksOf
  <2>3. Leaves(d)' = {} \/ upload'[d].leftover
    BY <1>1, <1>4, LeavesSame DEF BaseInv, CleanOk
  <2> QED
    BY <1>4, <2>1, <2>2, <2>3 DEF CleanOk
<1> QED
  BY <1>1, <1>2, <1>3, <1>4, <1>5, <1>6, UploadBaseSame

LEMMA MarkFailedBase ==
  ASSUME BaseInv, NEW d \in Documents, MarkFailed(d)
  PROVE  BaseInv'
<1> DEFINE marked == /\ SetIndexStatus(d, "failed") /\ UploadGoesTo(d, "returned")
                     /\ UNCHANGED <<vectors, job, historyVars, faults>>
<1>a. marked \/ (UploadGoesTo(d, "raised") /\ Fault
                  /\ UNCHANGED <<knowledgeVars, vectors, job, historyVars>>)
  BY DEF MarkFailed, MayRaise
<1>b. SUFFICES ASSUME marked
               PROVE  BaseInv'
  BY <1>a, UploadRaises
<1>1. /\ SetIndexStatus(d, "failed") /\ UploadGoesTo(d, "returned")
      /\ UNCHANGED <<vectors, job, historyVars, faults>>
      /\ upload[d].phase = "failing"
  BY <1>b DEF MarkFailed
<1>2. KnowledgeInv'
  BY <1>1, SetStatusOk DEF BaseInv, IndexStatus
<1>3. /\ \A e \in Documents : StatusOf(e)' =
           IF e = d /\ StatusOf(e) # "absent" THEN "failed" ELSE StatusOf(e)
      /\ \A c \in ChunkId : LabelOf(c)' = LabelOf(c)
  BY <1>1, StatusEffect DEF BaseInv, IndexStatus
<1>4. /\ upload' \in [Documents -> UploadState] /\ upload'[d].phase = "returned"
      /\ upload'[d].leftover = upload[d].leftover
      /\ \A e \in Documents : e # d => upload'[e] = upload[e]
  BY <1>1, UploadMoves DEF BaseInv
<1>5. CleanOk(d)'
  <2>1. Failed(d) /\ CleanOk(d)
    BY <1>1 DEF Failed, BaseInv
  <2>2. ChunksOf(d, Upload)' = ChunksOf(d, Upload) /\ ChunksOf(d, Upload) \in SUBSET ChunkId
    BY DEF ChunksOf
  <2>3. \A c \in ChunksOf(d, Upload) : LabelOf(c)' # "signature"
    BY <1>3, <2>1, <2>2 DEF CleanOk
  <2>4. Leaves(d)' = {} \/ upload'[d].leftover
    BY <1>1, <1>4, <2>1, LeavesSame DEF CleanOk
  <2> QED
    BY <1>4, <2>2, <2>3, <2>4 DEF CleanOk
<1> QED
  BY <1>1, <1>2, <1>3, <1>4, <1>5, UploadBaseSame

LEMMA UploadStepBase ==
  ASSUME BaseInv, NEW d \in Documents, UploadStep(d)
  PROVE  BaseInv'
  BY UpsertUploadBase, LabelUploadBase, MarkReadyBase,
     RollBackVectorsBase, UnlabelUploadBase, MarkFailedBase DEF UploadStep

-----------------------------------------------------------------------------
(* Reindex jobs *)

\* The row and the thread of job j after a step; other jobs stay.
JobRow(j, status, phase, documents, todo, points) ==
  [status |-> status, phase |-> phase, clear |-> job[j].clear,
   documents |-> documents, todo |-> todo, points |-> points]

Becomes(j, row) ==
  /\ job' \in [Jobs -> JobState] /\ job'[j] = row
  /\ \A k \in Jobs : k # j => job'[k] = job[k]

Status == {"none", "queued", "running", "completed", "failed"}
Phase == {"idle", "queued", "listing", "replacing", "upserting",
          "storing", "marking", "ended", "gone"}

LEMMA RowFacts ==
  ASSUME IndexTypes, NEW j \in Jobs
  PROVE  /\ job[j] = JobRow(j, job[j].status, job[j].phase, job[j].documents,
                            job[j].todo, job[j].points)
         /\ job[j].status \in Status /\ job[j].phase \in Phase
         /\ job[j].clear \in BOOLEAN
         /\ job[j].documents \in SUBSET Documents /\ job[j].todo \in SUBSET Documents
         /\ job[j].points \in SUBSET ChunkId
  BY DEF IndexTypes, JobState, JobRow, Status, Phase

LEMMA RowIs ==
  ASSUME NEW j, NEW r \in JobState, r.clear = job[j].clear
  PROVE  r = JobRow(j, r.status, r.phase, r.documents, r.todo, r.points)
  BY DEF JobState, JobRow

LEMMA RowUpdate ==
  ASSUME IndexTypes, NEW j \in Jobs, NEW status \in Status, NEW phase \in Phase,
         NEW documents \in SUBSET Documents, NEW todo \in SUBSET Documents,
         NEW points \in SUBSET ChunkId,
         job' = [job EXCEPT ![j] = JobRow(j, status, phase, documents, todo, points)]
  PROVE  Becomes(j, JobRow(j, status, phase, documents, todo, points))
<1> DEFINE r == JobRow(j, status, phase, documents, todo, points)
<1>1. job[j].clear \in BOOLEAN
  BY RowFacts
<1>2. r \in JobState
  BY <1>1 DEF JobRow, JobState, Status, Phase
<1> HIDE DEF r
<1> QED
  BY <1>2 DEF Becomes, IndexTypes, r

LEMMA JobEnters ==
  ASSUME IndexTypes, NEW j \in Jobs, NEW p \in Phase, NEW q \in Status,
         job' = [job EXCEPT ![j].phase = p, ![j].status = q]
  PROVE  Becomes(j, JobRow(j, q, p, job[j].documents, job[j].todo, job[j].points))
<1> DEFINE ds == job[j].documents
           t == job[j].todo
           ps == job[j].points
<1>1. ds \in SUBSET Documents /\ t \in SUBSET Documents /\ ps \in SUBSET ChunkId
  BY RowFacts
<1>2. job \in [Jobs -> JobState] /\ job[j] \in JobState
  BY DEF IndexTypes
<1>3. job' = [job EXCEPT ![j] = [job[j] EXCEPT !.phase = p, !.status = q]]
  BY <1>2
<1>4. [job[j] EXCEPT !.phase = p, !.status = q] = JobRow(j, q, p, ds, t, ps)
  <2> DEFINE r == [job[j] EXCEPT !.phase = p, !.status = q]
  <2>1. /\ r \in JobState /\ r.clear = job[j].clear /\ r.status = q /\ r.phase = p
        /\ r.documents = ds /\ r.todo = t /\ r.points = ps
    BY <1>2 DEF JobState, Phase, Status
  <2> HIDE DEF r
  <2>2. r = JobRow(j, q, p, ds, t, ps)
    BY <2>1, RowIs
  <2> QED
    BY <2>2 DEF r
<1> HIDE DEF ds, t, ps
<1> QED
  BY <1>1, <1>3, <1>4, RowUpdate DEF ds, t, ps

LEMMA JobMoves ==
  ASSUME IndexTypes, NEW j \in Jobs
  PROVE  LET s == job[j].status  ds == job[j].documents
             t == job[j].todo    ps == job[j].points IN
         /\ \A p \in Phase : JobGoesTo(j, p) => Becomes(j, JobRow(j, s, p, ds, t, ps))
         /\ JobFails(j) => \E q \in Status : Becomes(j, JobRow(j, q, "ended", ds, t, ps))
         /\ JobCompletes(j) => Becomes(j, JobRow(j, "completed", "ended", ds, t, ps))
         /\ StartStoring(j) => Becomes(j, JobRow(j, s, "storing", ds, ds, ps))
<1> DEFINE s == job[j].status
           ds == job[j].documents
           t == job[j].todo
           ps == job[j].points
           c == job[j].clear
<1>1. /\ s \in Status /\ ds \in SUBSET Documents /\ t \in SUBSET Documents
      /\ ps \in SUBSET ChunkId /\ c \in BOOLEAN
  BY RowFacts
<1>2. job \in [Jobs -> JobState] /\ job[j] \in JobState
  BY DEF IndexTypes
<1>3. ASSUME NEW p \in Phase, JobGoesTo(j, p)
      PROVE  Becomes(j, JobRow(j, s, p, ds, t, ps))
  <2>1. job' = [job EXCEPT ![j] = [job[j] EXCEPT !.phase = p]]
    BY <1>3 DEF JobGoesTo
  <2>2. [job[j] EXCEPT !.phase = p] = JobRow(j, s, p, ds, t, ps)
    BY <1>2 DEF JobState, JobRow
  <2> HIDE DEF s, ds, t, ps
  <2> QED
    BY <1>1, <2>1, <2>2, RowUpdate
<1>5. ASSUME StartStoring(j)
      PROVE  Becomes(j, JobRow(j, s, "storing", ds, ds, ps))
  <2>1. job' = [job EXCEPT ![j] = [job[j] EXCEPT !.phase = "storing", !.todo = ds]]
    BY <1>2, <1>5 DEF StartStoring
  <2>2. [job[j] EXCEPT !.phase = "storing", !.todo = ds] = JobRow(j, s, "storing", ds, ds, ps)
    <3> DEFINE r == [job[j] EXCEPT !.phase = "storing", !.todo = ds]
    <3>1. /\ r \in JobState /\ r.clear = job[j].clear /\ r.status = s
          /\ r.phase = "storing" /\ r.documents = ds /\ r.todo = ds /\ r.points = ps
      BY <1>2 DEF JobState
    <3> HIDE DEF r
    <3>2. r = JobRow(j, s, "storing", ds, ds, ps)
      BY <3>1, RowIs
    <3> QED
      BY <3>2 DEF r
  <2>3. "storing" \in Phase
    BY DEF Phase
  <2> HIDE DEF s, ds, t, ps
  <2> QED
    BY <1>1, <2>1, <2>2, <2>3, RowUpdate
<1>6. "ended" \in Phase /\ "completed" \in Status /\ {"failed", "running"} \subseteq Status
  BY DEF Phase, Status
<1>7. ASSUME JobFails(j)
      PROVE  \E q \in Status : Becomes(j, JobRow(j, q, "ended", ds, t, ps))
  <2>1. PICK q \in {"failed", "running"} :
          job' = [job EXCEPT ![j].phase = "ended", ![j].status = q]
    BY <1>7 DEF JobFails
  <2>2. q \in Status
    BY <1>6
  <2>3. Becomes(j, JobRow(j, q, "ended", ds, t, ps))
    BY <1>6, <2>1, <2>2, JobEnters
  <2> QED
    BY <2>2, <2>3
<1> QED
  BY <1>3, <1>5, <1>6, <1>7, JobEnters DEF JobCompletes

\* A job that fails keeps what it had, which no longer matters.
LEMMA JobFailsFacts ==
  ASSUME BaseInv, NEW j \in Jobs, JobFails(j)
  PROVE  \E row : Becomes(j, row) /\ JobGood(j, row) /\ row.phase = "ended"
<1>1. PICK q \in Status :
        Becomes(j, JobRow(j, q, "ended", job[j].documents, job[j].todo, job[j].points))
  BY JobMoves DEF BaseInv
<1> DEFINE row == JobRow(j, q, "ended", job[j].documents, job[j].todo, job[j].points)
<1>2. JobGood(j, row) /\ row.phase = "ended"
  BY DEF BaseInv, JobGood, JobRow
<1> HIDE DEF row
<1> QED
  BY <1>1, <1>2 DEF row

\* What is left to show of a step of job j.
LEMMA JobBase ==
  ASSUME BaseInv, NEW j \in Jobs, UNCHANGED upload,
         KnowledgeInv', StoreOk(vectors'), faults' \in 0..MaxFaults,
         NEW row, Becomes(j, row), JobGood(j, row),
         taken' \subseteq ChunkId, missed' \subseteq ChunkId,
         \A d \in Documents : Leaves(d)' \subseteq Leaves(d),
         \A d \in Documents : StatusOf(d)' = "failed" => StatusOf(d) = "failed",
         \A c \in ChunkId : c.build = Upload /\ LabelOf(c)' = "signature"
                              => LabelOf(c) = "signature"
  PROVE  BaseInv'
<1>1. IndexTypes'
  BY DEF BaseInv, IndexTypes, Becomes
<1>2. StoreOk(vectors)'
  BY DEF StoreOk, Sound
<1>3. \A k \in Jobs : JobGood(k, job'[k])
  BY DEF BaseInv, Becomes
<1>4. \A k \in Jobs : JobGood(k, job[k])'
  BY <1>3 DEF JobGood, AllChunks, ChunksOf
<1>5. \A d \in Documents : CleanOk(d)'
  <2> SUFFICES ASSUME NEW d \in Documents
               PROVE  CleanOk(d)'
    OBVIOUS
  <2>1. \A c \in ChunksOf(d, Upload) : LabelOf(c)' = "signature" => LabelOf(c) = "signature"
    BY DEF ChunksOf
  <2> QED
    BY <2>1, CleanFrame DEF BaseInv
<1> QED
  BY <1>1, <1>2, <1>4, <1>5 DEF BaseInv

\* Steps that only change the job.
LEMMA JobBaseSame ==
  ASSUME BaseInv, NEW j \in Jobs, UNCHANGED <<knowledgeVars, vectors, upload, historyVars>>,
         UNCHANGED faults \/ Fault, NEW row, Becomes(j, row), JobGood(j, row)
  PROVE  BaseInv'
<1>1. faults' \in 0..MaxFaults
  BY FaultFacts DEF BaseInv, IndexTypes
<1>2. StoreOk(vectors')
  BY DEF BaseInv
<1>3. \A d \in Documents : Leaves(d)' = Leaves(d)
  BY LeavesSame
<1>4. taken' \subseteq ChunkId /\ missed' \subseteq ChunkId
  BY DEF BaseInv, IndexTypes, historyVars
<1> QED
  BY <1>1, <1>2, <1>3, <1>4, KnowledgeSame, JobBase DEF BaseInv

LEMMA JobRaises ==
  ASSUME BaseInv, NEW j \in Jobs, JobFails(j), Fault,
         UNCHANGED <<knowledgeVars, vectors, upload, historyVars>>
  PROVE  BaseInv'
  BY JobFailsFacts, JobBaseSame

LEMMA CreateJobBase ==
  ASSUME BaseInv, NEW j \in Jobs, CreateJob(j)
  PROVE  BaseInv'
<1> DEFINE row == JobRow(j, "queued", "queued", job[j].documents, job[j].todo, job[j].points)
<1>1. Becomes(j, row)
  <2>1. job' = [job EXCEPT ![j].phase = "queued", ![j].status = "queued"]
    BY DEF CreateJob
  <2>2. IndexTypes
    BY DEF BaseInv
  <2>3. PICK p \in Phase : p = "queued"
    BY DEF Phase
  <2>4. PICK q \in Status : q = "queued"
    BY DEF Status
  <2>5. job' = [job EXCEPT ![j].phase = p, ![j].status = q]
    BY <2>1, <2>3, <2>4
  <2>6. Becomes(j, JobRow(j, q, p, job[j].documents, job[j].todo, job[j].points))
    BY <2>2, <2>5, JobEnters
  <2> QED
    BY <2>3, <2>4, <2>6 DEF Becomes
<1>2. JobGood(j, row)
  BY DEF BaseInv, JobGood, JobRow, CreateJob
<1> HIDE DEF row
<1> QED
  BY <1>1, <1>2, JobBaseSame DEF CreateJob

LEMMA RunJobBase ==
  ASSUME BaseInv, NEW j \in Jobs, RunJob(j)
  PROVE  BaseInv'
<1> DEFINE ds == job[j].documents
           t == job[j].todo
           ps == job[j].points
           on == JobRow(j, "running", "listing", ds, t, ps)
           off == JobRow(j, job[j].status, "gone", ds, t, ps)
<1>1. /\ UNCHANGED <<knowledgeVars, vectors, upload, historyVars>>
      /\ UNCHANGED faults \/ Fault
      /\ \/ job' = [job EXCEPT ![j].phase = "listing", ![j].status = "running"]
         \/ JobGoesTo(j, "gone")
  BY DEF RunJob, MayRaise
<1>2. IndexTypes /\ {"listing", "gone"} \subseteq Phase /\ "running" \in Status
  BY DEF BaseInv, Phase, Status
<1>3. Becomes(j, on) \/ Becomes(j, off)
  <2>1. ASSUME NEW p \in Phase, NEW q \in Status,
               job' = [job EXCEPT ![j].phase = p, ![j].status = q]
        PROVE  Becomes(j, JobRow(j, q, p, ds, t, ps))
    BY <1>2, <2>1, JobEnters
  <2>2. JobGoesTo(j, "gone") => Becomes(j, off)
    BY <1>2, JobMoves
  <2> QED
    BY <1>1, <1>2, <2>1, <2>2
<1>4. JobGood(j, on) /\ JobGood(j, off)
  BY DEF BaseInv, JobGood, JobRow, RunJob
<1> HIDE DEF on, off
<1> QED
  BY <1>1, <1>3, <1>4, JobBaseSame

\* A document has at least one chunk.
LEMMA ChunksExist ==
  ASSUME NEW S \in SUBSET Documents, S # {}, NEW j \in Jobs
  PROVE  AllChunks(S, j) # {} /\ AllChunks(S, j) \in SUBSET ChunkId
<1>1. PICK d \in S : TRUE
  OBVIOUS
<1> DEFINE c == [document |-> d, build |-> j, index |-> 1]
<1>2. 1 \in 1..ChunksPerDocument
  BY ChunksAssumption
<1>3. c \in ChunksOf(d, j)
  BY <1>1, <1>2, BuildFacts DEF ChunksOf, ChunkId
<1>4. c \in AllChunks(S, j)
  BY <1>1, <1>3 DEF AllChunks
<1>5. AllChunks(S, j) \in SUBSET ChunkId
  BY DEF AllChunks, ChunksOf
<1> QED
  BY <1>4, <1>5

LEMMA ListMoves ==
  ASSUME IndexTypes, NEW j \in Jobs, NEW p \in Phase,
         job' = [job EXCEPT
           ![j].phase = p, ![j].documents = ListDocuments,
           ![j].points = UNION {ChunksOf(d, j) : d \in ListDocuments}]
  PROVE  Becomes(j, JobRow(j, job[j].status, p, ListDocuments, job[j].todo,
                           AllChunks(ListDocuments, j)))
<1> DEFINE ps == AllChunks(ListDocuments, j)
           row == JobRow(j, job[j].status, p, ListDocuments, job[j].todo, ps)
<1>1. job[j] \in JobState /\ job \in [Jobs -> JobState]
  BY DEF IndexTypes
<1>2. ListDocuments \in SUBSET Documents /\ ps \in SUBSET ChunkId
  BY DEF ListDocuments, AllChunks, ChunksOf
<1>3. job' = [job EXCEPT ![j].phase = p, ![j].documents = ListDocuments,
                         ![j].points = ps]
  BY DEF AllChunks
<1> HIDE DEF ps
<1>4. job' = [job EXCEPT ![j] = [job[j] EXCEPT !.phase = p,
                                   !.documents = ListDocuments, !.points = ps]]
  BY <1>1, <1>3
<1>5. [job[j] EXCEPT !.phase = p, !.documents = ListDocuments, !.points = ps] = row
  <2> DEFINE r == [job[j] EXCEPT !.phase = p, !.documents = ListDocuments,
                                 !.points = ps]
  <2>1. /\ r \in JobState /\ r.clear = job[j].clear /\ r.status = job[j].status
        /\ r.phase = p /\ r.documents = ListDocuments /\ r.todo = job[j].todo
        /\ r.points = ps
    BY <1>1, <1>2 DEF JobState, Phase
  <2> HIDE DEF r
  <2>2. r = JobRow(j, job[j].status, p, ListDocuments, job[j].todo, ps)
    BY <2>1, RowIs
  <2> QED
    BY <2>2 DEF r
<1> QED
  BY <1>2, <1>4, <1>5, RowFacts, RowUpdate DEF ps

\* What a listing leads to.
LEMMA ListEffect ==
  ASSUME IndexTypes, NEW j \in Jobs, ListForJob(j)
  PROVE  /\ UNCHANGED <<knowledgeVars, vectors, upload, historyVars>>
         /\ job[j].phase = "listing"
         /\ \/ JobFails(j) /\ Fault
            \/ UNCHANGED faults /\ JobCompletes(j)
            \/ /\ UNCHANGED faults /\ ListDocuments # {}
               /\ \E p \in {"replacing", "upserting"} :
                    Becomes(j, JobRow(j, job[j].status, p, ListDocuments, job[j].todo,
                                      AllChunks(ListDocuments, j)))
<1> DEFINE p == IF job[j].clear THEN "replacing" ELSE "upserting"
<1>1. p \in {"replacing", "upserting"} /\ p \in Phase
  BY DEF Phase
<1>2. /\ UNCHANGED <<knowledgeVars, vectors, upload, historyVars>>
      /\ job[j].phase = "listing"
      /\ \/ JobFails(j) /\ Fault
         \/ UNCHANGED faults /\ JobCompletes(j)
         \/ /\ UNCHANGED faults /\ ListDocuments # {}
            /\ job' = [job EXCEPT
                 ![j].phase = p, ![j].documents = ListDocuments,
                 ![j].points = UNION {ChunksOf(d, j) : d \in ListDocuments}]
  BY DEF ListForJob, MayRaise
<1> HIDE DEF p
<1> QED
  BY <1>1, <1>2, ListMoves

LEMMA ListForJobBase ==
  ASSUME BaseInv, NEW j \in Jobs, ListForJob(j)
  PROVE  BaseInv'
<1>1. IndexTypes
  BY DEF BaseInv
<1>2. /\ UNCHANGED <<knowledgeVars, vectors, upload, historyVars>>
      /\ job[j].phase = "listing"
  BY <1>1, ListEffect
<1>3. CASE JobFails(j) /\ Fault
  BY <1>2, <1>3, JobRaises
<1>4. CASE UNCHANGED faults /\ JobCompletes(j)
  <2> DEFINE row == JobRow(j, "completed", "ended", job[j].documents, job[j].todo, job[j].points)
  <2>1. Becomes(j, row)
    BY <1>1, <1>4, JobMoves
  <2>2. JobGood(j, row)
    BY DEF BaseInv, JobGood, JobRow
  <2> HIDE DEF row
  <2> QED
    BY <1>2, <1>4, <2>1, <2>2, JobBaseSame
<1>5. ASSUME UNCHANGED faults, ListDocuments # {}, NEW p \in {"replacing", "upserting"},
             Becomes(j, JobRow(j, job[j].status, p, ListDocuments, job[j].todo,
                               AllChunks(ListDocuments, j)))
      PROVE  BaseInv'
  <2> DEFINE row == JobRow(j, job[j].status, p, ListDocuments, job[j].todo,
                           AllChunks(ListDocuments, j))
  <2>1. AllChunks(ListDocuments, j) # {}
    BY <1>5, ChunksExist DEF ListDocuments
  <2>2. job[j].todo = {}
    BY <1>2 DEF BaseInv, JobGood
  <2>3. JobGood(j, row)
    BY <1>5, <2>1, <2>2 DEF JobGood, JobRow
  <2>4. Becomes(j, row)
    BY <1>5
  <2> HIDE DEF row
  <2> QED
    BY <1>2, <1>5, <2>3, <2>4, JobBaseSame
<1> QED
  BY <1>1, <1>3, <1>4, <1>5, ListEffect

\* The chunks of a job are not those of an upload.
LEMMA JobChunks ==
  ASSUME NEW j \in Jobs, NEW S, NEW P, P \subseteq AllChunks(S, j)
  PROVE  \A d \in Documents : P \cap ChunksOf(d, Upload) = {}
  BY BuildFacts DEF AllChunks, ChunksOf

LEMMA ReplaceForJobBase ==
  ASSUME BaseInv, NEW j \in Jobs, ReplaceForJob(j)
  PROVE  BaseInv'
<1> DEFINE P == job[j].points
           on == JobRow(j, job[j].status, "storing", job[j].documents, job[j].documents, P)
<1>1. /\ UNCHANGED <<knowledgeVars, upload>> /\ job[j].phase = "replacing"
      /\ VectorCall(V!ReplaceAll(vectors, P), StartStoring(j), JobFails(j))
      /\ Takes /\ Misses(P)
  BY DEF ReplaceForJob
<1>2. faults \in Nat /\ StoreOk(vectors) /\ IndexTypes /\ P \in SUBSET ChunkId
  BY FaultFacts, RowFacts DEF BaseInv
<1>3. taken' \subseteq ChunkId /\ missed' \subseteq ChunkId
  BY <1>1, <1>2 DEF IndexTypes, Takes, Misses, StoreOk, V!VectorState, V!Collection, V!Vectors
<1>4. JobGood(j, on)
  BY <1>1 DEF BaseInv, JobGood, JobRow
<1>5. StartStoring(j) => Becomes(j, on)
  BY <1>2, JobMoves
<1>6. \A d \in Documents : P \cap ChunksOf(d, Upload) = {}
  BY JobChunks DEF BaseInv, JobGood
<1> HIDE DEF P, on
<1>7. \A o \in V!ReplaceAll(vectors, P) : Replaced(vectors, P, o)
  BY <1>2, ReplaceFacts
<1>8. \A o \in V!ReplaceAll(vectors, P) : o.faults \in Nat
  BY <1>7 DEF Replaced
<1>9. PICK o \in V!ReplaceAll(vectors, P) :
        /\ vectors' = o.store /\ faults' = faults + o.faults /\ faults' \in 0..MaxFaults
        /\ (o.raised => JobFails(j)) /\ (~o.raised => StartStoring(j))
  BY <1>1, <1>2, <1>8, CallFacts
<1>10. Replaced(vectors, P, o)
  BY <1>7
<1>11. StoreOk(vectors') /\ V!Vectors(vectors') \subseteq V!Vectors(vectors) \cup P
  BY <1>9, <1>10 DEF Replaced
<1>12. \A d \in Documents : Leaves(d)' \subseteq Leaves(d)
  BY <1>6, <1>11, LeavesFrame
<1>13. PICK row : Becomes(j, row) /\ JobGood(j, row)
  BY <1>4, <1>5, <1>9, JobFailsFacts
<1> QED
  BY <1>1, <1>3, <1>9, <1>11, <1>12, <1>13, KnowledgeSame, JobBase DEF BaseInv

\* The next chunk of a job in its second mode.
LEMMA UpsertMoves ==
  ASSUME IndexTypes, NEW j \in Jobs, NEW c
  PROVE  LET ps == job[j].points \ {c} IN
         /\ job' = [job EXCEPT ![j].phase = "storing", ![j].points = {},
                               ![j].todo = job[j].documents]
              => Becomes(j, JobRow(j, job[j].status, "storing", job[j].documents,
                                   job[j].documents, {}))
         /\ job' = [job EXCEPT ![j].points = @ \ {c}]
              => Becomes(j, JobRow(j, job[j].status, job[j].phase, job[j].documents,
                                   job[j].todo, ps))
<1> DEFINE ds == job[j].documents
           ps == job[j].points \ {c}
<1>1. /\ job[j] \in JobState /\ job \in [Jobs -> JobState] /\ ds \in SUBSET Documents
      /\ ps \in SUBSET ChunkId /\ job[j].status \in Status /\ job[j].phase \in Phase
      /\ job[j].todo \in SUBSET Documents
  BY RowFacts DEF IndexTypes
<1>2. ASSUME job' = [job EXCEPT ![j].phase = "storing", ![j].points = {}, ![j].todo = ds]
      PROVE  Becomes(j, JobRow(j, job[j].status, "storing", ds, ds, {}))
  <2> DEFINE r == [job[j] EXCEPT !.phase = "storing", !.points = {}, !.todo = ds]
  <2> HIDE DEF ds
  <2>1. job' = [job EXCEPT ![j] = r]
    BY <1>1, <1>2
  <2>2. /\ r \in JobState /\ r.clear = job[j].clear /\ r.status = job[j].status
        /\ r.phase = "storing" /\ r.documents = job[j].documents /\ r.todo = ds
        /\ r.points = {}
    BY <1>1 DEF JobState
  <2> HIDE DEF r
  <2>3. r = JobRow(j, job[j].status, "storing", ds, ds, {})
    BY <2>2, RowIs DEF ds
  <2>4. "storing" \in Phase /\ {} \in SUBSET ChunkId
    BY DEF Phase
  <2> QED
    BY <1>1, <2>1, <2>3, <2>4, RowUpdate
<1>3. ASSUME job' = [job EXCEPT ![j].points = @ \ {c}]
      PROVE  Becomes(j, JobRow(j, job[j].status, job[j].phase, ds, job[j].todo, ps))
  <2> DEFINE r == [job[j] EXCEPT !.points = ps]
  <2>1. job' = [job EXCEPT ![j] = r]
    BY <1>1, <1>3
  <2> HIDE DEF ps
  <2>2. /\ r \in JobState /\ r.clear = job[j].clear /\ r.status = job[j].status
        /\ r.phase = job[j].phase /\ r.documents = job[j].documents
        /\ r.todo = job[j].todo /\ r.points = ps
    BY <1>1 DEF JobState
  <2> HIDE DEF r, ds
  <2>3. r = JobRow(j, job[j].status, job[j].phase, ds, job[j].todo, ps)
    BY <2>2, RowIs DEF ds
  <2> QED
    BY <1>1, <2>1, <2>3, RowUpdate
<1> QED
  BY <1>2, <1>3

LEMMA UpsertForJobBase ==
  ASSUME BaseInv, NEW j \in Jobs, UpsertForJob(j)
  PROVE  BaseInv'
<1> DEFINE P == job[j].points
           c == FirstChunk(P)
           ok == IF P = {c}
                   THEN job' = [job EXCEPT ![j].phase = "storing", ![j].points = {},
                                           ![j].todo = job[j].documents]
                   ELSE job' = [job EXCEPT ![j].points = @ \ {c}]
           last == JobRow(j, job[j].status, "storing", job[j].documents, job[j].documents, {})
           more == JobRow(j, job[j].status, job[j].phase, job[j].documents, job[j].todo, P \ {c})
<1>1. /\ UNCHANGED <<knowledgeVars, upload, taken>> /\ job[j].phase = "upserting"
      /\ VectorCall(V!Upsert(vectors, c), ok, JobFails(j))
      /\ Misses({c})
  BY DEF UpsertForJob
<1>2. faults \in Nat /\ StoreOk(vectors) /\ IndexTypes /\ P \in SUBSET ChunkId
  BY FaultFacts, RowFacts DEF BaseInv
<1>3. P # {} /\ job[j].documents # {} /\ P \subseteq AllChunks(job[j].documents, j)
      /\ job[j].todo \subseteq job[j].documents
  BY <1>1 DEF BaseInv, JobGood
<1>4. c \in P /\ c \in ChunkId
  BY <1>2, <1>3, FirstChunkIn
<1>a. taken' \subseteq ChunkId /\ missed' \subseteq ChunkId
  <2> HIDE DEF c
  <2> QED
    BY <1>1, <1>2, <1>4 DEF IndexTypes, Misses
<1>5. (ok /\ P = {c} => Becomes(j, last))
      /\ (ok /\ P # {c} => Becomes(j, more))
  <2> HIDE DEF c
  <2> QED
    BY <1>2, JobMoves, UpsertMoves
<1>6. JobGood(j, last) /\ (P # {c} => JobGood(j, more))
  <2> HIDE DEF c
  <2>1. P # {c} => P \ {c} # {}
    BY <1>4
  <2> QED
    BY <1>1, <1>3, <2>1 DEF JobGood, JobRow
<1>7. \A d \in Documents : {c} \cap ChunksOf(d, Upload) = {}
  BY <1>3, <1>4, JobChunks
<1> HIDE DEF P, c, ok, last, more
<1>8. \A o \in V!Upsert(vectors, c) : Upserted(vectors, c, o)
  BY <1>2, <1>4, UpsertFacts
<1>9. \A o \in V!Upsert(vectors, c) : o.faults \in Nat
  BY <1>8 DEF Upserted
<1>10. PICK o \in V!Upsert(vectors, c) :
         /\ vectors' = o.store /\ faults' = faults + o.faults /\ faults' \in 0..MaxFaults
         /\ (o.raised => JobFails(j)) /\ (~o.raised => ok)
  BY <1>1, <1>2, <1>9, CallFacts
<1>11. Upserted(vectors, c, o)
  BY <1>8
<1>12. StoreOk(vectors') /\ V!Vectors(vectors') \subseteq V!Vectors(vectors) \cup {c}
  BY <1>10, <1>11 DEF Upserted
<1>13. \A d \in Documents : Leaves(d)' \subseteq Leaves(d)
  BY <1>7, <1>12, LeavesFrame
<1>14. PICK row : Becomes(j, row) /\ JobGood(j, row)
  BY <1>5, <1>6, <1>10, JobFailsFacts
<1> QED
  BY <1>1, <1>a, <1>10, <1>12, <1>13, <1>14, KnowledgeSame, JobBase DEF BaseInv

\* Documents are stored one by one; after the last one all are marked.
StoreRow(j, d) ==
  IF job[j].todo = {d}
    THEN JobRow(j, job[j].status, "marking", job[j].documents, job[j].documents, job[j].points)
    ELSE JobRow(j, job[j].status, job[j].phase, job[j].documents, job[j].todo \ {d},
                job[j].points)

MarkRow(j, d) ==
  IF job[j].todo = {d}
    THEN JobRow(j, "completed", "ended", job[j].documents, job[j].todo, job[j].points)
    ELSE JobRow(j, job[j].status, job[j].phase, job[j].documents, job[j].todo \ {d},
                job[j].points)

LEMMA StoreMoves ==
  ASSUME IndexTypes, NEW j \in Jobs, NEW d,
         job' = [job EXCEPT
            ![j].phase = IF job[j].todo = {d} THEN "marking" ELSE @,
            ![j].todo = IF job[j].todo = {d} THEN job[j].documents ELSE @ \ {d}]
  PROVE  Becomes(j, StoreRow(j, d))
<1> DEFINE p == IF job[j].todo = {d} THEN "marking" ELSE job[j].phase
           t == IF job[j].todo = {d} THEN job[j].documents ELSE job[j].todo \ {d}
           r == [job[j] EXCEPT !.phase = p, !.todo = t]
<1>1. /\ job[j] \in JobState /\ job \in [Jobs -> JobState] /\ p \in Phase
      /\ t \in SUBSET Documents /\ job[j].documents \in SUBSET Documents
      /\ job[j].status \in Status /\ job[j].points \in SUBSET ChunkId
  BY RowFacts DEF IndexTypes, Phase
<1>2. job' = [job EXCEPT ![j] = r]
  <2>1. CASE job[j].todo = {d}
    BY <1>1, <2>1
  <2>2. CASE job[j].todo # {d}
    BY <1>1, <2>2
  <2> QED
    BY <2>1, <2>2
<1>3. StoreRow(j, d) = JobRow(j, job[j].status, p, job[j].documents, t, job[j].points)
  BY DEF StoreRow
<1> HIDE DEF p, t
<1>4. /\ r \in JobState /\ r.clear = job[j].clear /\ r.status = job[j].status
      /\ r.phase = p /\ r.documents = job[j].documents /\ r.todo = t
      /\ r.points = job[j].points
  BY <1>1 DEF JobState, Phase
<1> HIDE DEF r
<1>5. r = JobRow(j, job[j].status, p, job[j].documents, t, job[j].points)
  BY <1>4, RowIs
<1>6. Becomes(j, JobRow(j, job[j].status, p, job[j].documents, t, job[j].points))
  BY <1>1, <1>2, <1>5, RowUpdate
<1> QED
  BY <1>3, <1>6 DEF Becomes

LEMMA TodoMoves ==
  ASSUME IndexTypes, NEW j \in Jobs, NEW d, job' = [job EXCEPT ![j].todo = @ \ {d}]
  PROVE  Becomes(j, JobRow(j, job[j].status, job[j].phase, job[j].documents,
                           job[j].todo \ {d}, job[j].points))
<1> DEFINE t == job[j].todo \ {d}
           r == [job[j] EXCEPT !.todo = t]
<1>1. /\ job[j] \in JobState /\ job \in [Jobs -> JobState] /\ job[j].phase \in Phase
      /\ t \in SUBSET Documents /\ job[j].documents \in SUBSET Documents
      /\ job[j].status \in Status /\ job[j].points \in SUBSET ChunkId
  BY RowFacts DEF IndexTypes
<1>2. job' = [job EXCEPT ![j] = r]
  BY <1>1
<1> HIDE DEF t
<1>3. /\ r \in JobState /\ r.clear = job[j].clear /\ r.status = job[j].status
      /\ r.phase = job[j].phase /\ r.documents = job[j].documents /\ r.todo = t
      /\ r.points = job[j].points
  BY <1>1 DEF JobState
<1> HIDE DEF r
<1>4. r = JobRow(j, job[j].status, job[j].phase, job[j].documents, t, job[j].points)
  BY <1>3, RowIs
<1> QED
  BY <1>1, <1>2, <1>4, RowUpdate DEF t

LEMMA RestNonempty ==
  ASSUME NEW S, NEW d \in S, S # {d}
  PROVE  S \ {d} # {}
  OBVIOUS

LEMMA StoreForJobBase ==
  ASSUME BaseInv, NEW j \in Jobs, StoreForJob(j)
  PROVE  BaseInv'
<1> DEFINE d == Newest(job[j].todo)
<1> DEFINE goes ==
             /\ UNCHANGED <<vectors, upload, historyVars, faults>>
             /\ AddDocument(d, "ready", "signature", j)
             /\ job' = [job EXCEPT
                  ![j].phase = IF job[j].todo = {d} THEN "marking" ELSE @,
                  ![j].todo = IF job[j].todo = {d} THEN job[j].documents ELSE @ \ {d}]
<1>a. goes \/ (JobFails(j) /\ Fault
                /\ UNCHANGED <<knowledgeVars, vectors, upload, historyVars>>)
  BY DEF StoreForJob, MayRaise
<1>b. SUFFICES ASSUME goes
               PROVE  BaseInv'
  BY <1>a, JobRaises
<1>1. /\ job[j].phase = "storing" /\ AddDocument(d, "ready", "signature", j)
      /\ UNCHANGED <<vectors, upload, historyVars, faults>>
      /\ job' = [job EXCEPT
            ![j].phase = IF job[j].todo = {d} THEN "marking" ELSE @,
            ![j].todo = IF job[j].todo = {d} THEN job[j].documents ELSE @ \ {d}]
  BY <1>b DEF StoreForJob
<1>2. IndexTypes /\ KnowledgeInv /\ JobGood(j, job[j])
  BY DEF BaseInv
<1>3. job[j].todo \in SUBSET Documents /\ job[j].todo # {}
  BY <1>1, <1>2, RowFacts DEF JobGood
<1>4. d \in job[j].todo /\ d \in Documents
  BY <1>3, NewestIn
<1> HIDE DEF d
<1>5. Becomes(j, StoreRow(j, d))
  BY <1>1, <1>2, StoreMoves
<1>6. JobGood(j, StoreRow(j, d))
  <2>1. CASE job[j].todo = {d}
    BY <1>2, <1>4, <2>1 DEF JobGood, StoreRow, JobRow
  <2>2. CASE job[j].todo # {d}
    <3>1. job[j].todo \ {d} # {}
      BY <1>4, <2>2, RestNonempty
    <3> QED
      BY <1>1, <1>2, <2>2, <3>1 DEF JobGood, StoreRow, JobRow
  <2> QED
    BY <2>1, <2>2
<1>7. KnowledgeInv'
  BY <1>1, <1>2, <1>4, BuildFacts, AddDocumentOk
<1>8. /\ \A e \in Documents : StatusOf(e)' = IF e = d THEN "ready" ELSE StatusOf(e)
      /\ \A c \in ChunkId : LabelOf(c)' =
           IF c.document # d THEN LabelOf(c) ELSE IF c.build = j THEN "signature" ELSE "absent"
  BY <1>1, <1>2, <1>4, BuildFacts, AddEffect
<1>9. \A c \in ChunkId : c.build = Upload /\ LabelOf(c)' = "signature"
                            => LabelOf(c) = "signature"
  BY <1>8, BuildFacts
<1>10. \A e \in Documents : StatusOf(e)' = "failed" => StatusOf(e) = "failed"
  BY <1>8
<1>11. StoreOk(vectors') /\ faults' \in 0..MaxFaults
       /\ taken' \subseteq ChunkId /\ missed' \subseteq ChunkId
  BY <1>1 DEF BaseInv, IndexTypes, historyVars
<1>12. \A e \in Documents : Leaves(e)' \subseteq Leaves(e)
  BY <1>1, LeavesSame
<1> DEFINE row == StoreRow(j, d)
<1> HIDE DEF row
<1>13. Becomes(j, row) /\ JobGood(j, row)
  BY <1>5, <1>6 DEF row
<1> QED
  BY <1>1, <1>7, <1>9, <1>10, <1>11, <1>12, <1>13, JobBase

LEMMA MarkForJobBase ==
  ASSUME BaseInv, NEW j \in Jobs, MarkForJob(j)
  PROVE  BaseInv'
<1> DEFINE d == Newest(job[j].todo)
<1> DEFINE goes ==
             /\ UNCHANGED <<vectors, upload, historyVars, faults>>
             /\ SetIndexStatus(d, "ready")
             /\ IF job[j].todo = {d} THEN JobCompletes(j)
                                     ELSE job' = [job EXCEPT ![j].todo = @ \ {d}]
<1>a. goes \/ (JobFails(j) /\ Fault
                /\ UNCHANGED <<knowledgeVars, vectors, upload, historyVars>>)
  BY DEF MarkForJob, MayRaise
<1>b. SUFFICES ASSUME goes
               PROVE  BaseInv'
  BY <1>a, JobRaises
<1>1. /\ job[j].phase = "marking" /\ SetIndexStatus(d, "ready")
      /\ UNCHANGED <<vectors, upload, historyVars, faults>>
      /\ IF job[j].todo = {d} THEN JobCompletes(j)
                              ELSE job' = [job EXCEPT ![j].todo = @ \ {d}]
  BY <1>b DEF MarkForJob
<1>2. IndexTypes /\ KnowledgeInv /\ JobGood(j, job[j])
  BY DEF BaseInv
<1>3. job[j].todo \in SUBSET Documents /\ job[j].todo # {}
  BY <1>1, <1>2, RowFacts DEF JobGood
<1>4. d \in job[j].todo /\ d \in Documents
  BY <1>3, NewestIn
<1> HIDE DEF d
<1> DEFINE row == MarkRow(j, d)
<1>5. Becomes(j, row)
  <2>1. CASE job[j].todo = {d}
    BY <1>1, <1>2, <2>1, JobMoves DEF MarkRow
  <2>2. CASE job[j].todo # {d}
    BY <1>1, <1>2, <2>2, TodoMoves DEF MarkRow
  <2> QED
    BY <2>1, <2>2
<1>6. JobGood(j, row)
  <2>1. CASE job[j].todo = {d}
    BY <1>2, <2>1 DEF JobGood, MarkRow, JobRow
  <2>2. CASE job[j].todo # {d}
    <3>1. job[j].todo \ {d} # {}
      BY <1>4, <2>2, RestNonempty
    <3> QED
      BY <1>1, <1>2, <2>2, <3>1 DEF JobGood, MarkRow, JobRow
  <2> QED
    BY <2>1, <2>2
<1>7. KnowledgeInv'
  BY <1>1, <1>2, <1>4, SetStatusOk DEF IndexStatus
<1>8. /\ \A e \in Documents : StatusOf(e)' =
           IF e = d /\ StatusOf(e) # "absent" THEN "ready" ELSE StatusOf(e)
      /\ \A c \in ChunkId : LabelOf(c)' = LabelOf(c)
  BY <1>1, <1>2, <1>4, StatusEffect DEF IndexStatus
<1>9. \A e \in Documents : StatusOf(e)' = "failed" => StatusOf(e) = "failed"
  BY <1>8
<1>10. StoreOk(vectors') /\ faults' \in 0..MaxFaults
       /\ taken' \subseteq ChunkId /\ missed' \subseteq ChunkId
  BY <1>1 DEF BaseInv, IndexTypes, historyVars
<1>11. \A e \in Documents : Leaves(e)' \subseteq Leaves(e)
  BY <1>1, LeavesSame
<1> HIDE DEF row
<1> QED
  BY <1>1, <1>5, <1>6, <1>7, <1>8, <1>9, <1>10, <1>11, JobBase

-----------------------------------------------------------------------------
(* Searches, restarts, and the invariant of the specification *)

LEMMA SearchBase ==
  ASSUME BaseInv, Search
  PROVE  BaseInv'
<1>1. /\ UNCHANGED <<knowledgeVars, upload, job, historyVars>>
      /\ VectorCall(V!Look(vectors), TRUE, TRUE)
  BY DEF Search
<1>2. faults \in Nat /\ StoreOk(vectors) /\ IndexTypes
  BY FaultFacts DEF BaseInv
<1>3. \A o \in V!Look(vectors) : Looked(vectors, o)
  BY <1>2, LookFacts
<1>4. \A o \in V!Look(vectors) : o.faults \in Nat
  BY <1>3 DEF Looked
<1>5. PICK o \in V!Look(vectors) :
        vectors' = o.store /\ faults' = faults + o.faults /\ faults' \in 0..MaxFaults
  BY <1>1, <1>2, <1>4, CallFacts
<1>6. StoreOk(vectors') /\ V!Vectors(vectors') = V!Vectors(vectors)
  BY <1>3, <1>5 DEF Looked
<1>7. \A d \in Documents : Leaves(d)' \subseteq Leaves(d)
  <2> SUFFICES ASSUME NEW d \in Documents
               PROVE  Leaves(d)' \subseteq Leaves(d)
    OBVIOUS
  <2>1. Leaves(d)' = V!Vectors(vectors') \cap ChunksOf(d, Upload)
    BY DEF Leaves, ChunksOf, V!Vectors
  <2> QED
    BY <1>6, <2>1 DEF Leaves
<1>8. \A d \in Documents : CleanOk(d)'
  BY <1>1, <1>6, <1>7, CleanAll
<1>9. IndexTypes'
  BY <1>1, <1>2, <1>5 DEF IndexTypes, historyVars
<1>10. StoreOk(vectors)'
  BY <1>6 DEF StoreOk, Sound
<1>11. \A j \in Jobs : JobGood(j, job[j])'
  BY <1>1 DEF BaseInv, JobGood, AllChunks, ChunksOf
<1> QED
  BY <1>1, <1>8, <1>9, <1>10, <1>11, KnowledgeSame DEF BaseInv

LEMMA RestartMoves ==
  ASSUME IndexTypes, Restart
  PROVE  /\ upload' \in [Documents -> UploadState]
         /\ \A d \in Documents : \/ upload'[d] = upload[d]
                                 \/ upload'[d].phase = "gone"
         /\ \A j \in Jobs :
              \/ job'[j] = job[j]
              \/ job'[j] = JobRow(j, job[j].status, "gone", job[j].documents,
                                  job[j].todo, job[j].points)
         /\ job' \in [Jobs -> JobState]
<1>1. \A d \in Documents : upload[d] \in UploadState
                           /\ [upload[d] EXCEPT !.phase = "gone"] \in UploadState
                           /\ [upload[d] EXCEPT !.phase = "gone"].phase = "gone"
  BY DEF IndexTypes, UploadState
<1>2. \A j \in Jobs : job[j] \in JobState /\ [job[j] EXCEPT !.phase = "gone"] \in JobState
  BY DEF IndexTypes, JobState
<1>3. \A j \in Jobs : [job[j] EXCEPT !.phase = "gone"]
        = JobRow(j, job[j].status, "gone", job[j].documents, job[j].todo, job[j].points)
  BY <1>2 DEF JobState, JobRow
<1>4. /\ upload' = [d \in Documents |->
           IF d \in Uploading THEN [upload[d] EXCEPT !.phase = "gone"] ELSE upload[d]]
      /\ job' = [j \in Jobs |->
           IF j \in Running \/ job[j].phase = "queued"
             THEN [job[j] EXCEPT !.phase = "gone"] ELSE job[j]]
  BY DEF Restart
<1>5. /\ upload' \in [Documents -> UploadState]
      /\ \A d \in Documents : upload'[d] = upload[d] \/ upload'[d].phase = "gone"
  BY <1>1, <1>4
<1>6. /\ job' \in [Jobs -> JobState]
      /\ \A j \in Jobs : job'[j] = job[j] \/ job'[j] = [job[j] EXCEPT !.phase = "gone"]
  BY <1>2, <1>4
<1> QED
  BY <1>3, <1>5, <1>6

LEMMA RestartBase ==
  ASSUME BaseInv, Restart
  PROVE  BaseInv'
<1>1. /\ UNCHANGED <<knowledgeVars, missed>> /\ vectors' = V!Reopened(vectors)
      /\ Fault /\ Takes
  BY DEF Restart
<1>2. IndexTypes /\ StoreOk(vectors)
  BY DEF BaseInv
<1>3. /\ StoreOk(vectors')
      /\ V!Vectors(vectors') \subseteq V!Vectors(vectors)
  BY <1>1, <1>2, ReopenedFacts
<1>4. IndexTypes'
  <2>1. faults' \in 0..MaxFaults
        /\ taken' \subseteq ChunkId /\ missed' \subseteq ChunkId
    BY <1>1, <1>2, FaultFacts
       DEF IndexTypes, Takes, StoreOk, V!VectorState, V!Collection, V!Vectors
  <2> QED
    BY <1>1, <1>2, <2>1, RestartMoves DEF IndexTypes
<1>5. \A j \in Jobs : JobGood(j, job'[j])
  <2> SUFFICES ASSUME NEW j \in Jobs
               PROVE  JobGood(j, job'[j])
    OBVIOUS
  <2>1. JobGood(j, job[j])
    BY DEF BaseInv
  <2>2. JobGood(j, JobRow(j, job[j].status, "gone", job[j].documents, job[j].todo,
                          job[j].points))
    BY <2>1 DEF JobGood, JobRow
  <2> QED
    BY <1>2, <2>1, <2>2, RestartMoves
<1>6. \A j \in Jobs : JobGood(j, job[j])'
  BY <1>5 DEF JobGood, AllChunks, ChunksOf
<1>7. StoreOk(vectors)'
  BY <1>3 DEF StoreOk, Sound
<1>8. \A d \in Documents : Leaves(d)' \subseteq Leaves(d)
  <2> SUFFICES ASSUME NEW d \in Documents
               PROVE  Leaves(d)' \subseteq Leaves(d)
    OBVIOUS
  <2>1. Leaves(d)' = V!Vectors(vectors') \cap ChunksOf(d, Upload)
    BY DEF Leaves, ChunksOf, V!Vectors
  <2> QED
    BY <1>3, <2>1 DEF Leaves
<1>9. \A d \in Documents : CleanOk(d)'
  <2> SUFFICES ASSUME NEW d \in Documents
               PROVE  CleanOk(d)'
    OBVIOUS
  <2>1. CASE upload'[d] = upload[d]
    <3>1. /\ StatusOf(d)' = StatusOf(d)
          /\ \A c \in ChunksOf(d, Upload) : LabelOf(c)' = LabelOf(c)
      BY <1>1, KnowledgeSame DEF ChunksOf
    <3> QED
      BY <1>3, <1>8, <2>1, <3>1, CleanFrame DEF BaseInv
  <2>2. CASE upload'[d].phase = "gone"
    BY <2>2 DEF CleanOk, Failed
  <2> QED
    BY <1>2, <2>1, <2>2, RestartMoves
<1> QED
  BY <1>1, <1>4, <1>6, <1>7, <1>9, KnowledgeSame DEF BaseInv

LEMMA InitBase == Init => BaseInv
<1> SUFFICES ASSUME Init
             PROVE  BaseInv
  OBVIOUS
<1>1. KnowledgeInv
  <2>1. EmptyTables \in Tables /\ EmptyDictionaries \in Dictionaries
    BY DEF EmptyTables, EmptyDictionaries, Tables, Dictionaries, IndexStatus, Label
  <2>2. /\ EmptyTables.documents = [d \in Documents |-> "absent"]
        /\ EmptyTables.chunks = [c \in ChunkId |-> "absent"] /\ EmptyTables.parents = {}
    BY DEF EmptyTables
  <2>3. /\ EmptyDictionaries.documents = [d \in Documents |-> "absent"]
        /\ EmptyDictionaries.label = [c \in ChunkId |-> "absent"]
        /\ EmptyDictionaries.chunks_by_id = {}
        /\ EmptyDictionaries.chunks_by_document = [d \in Documents |-> {}]
        /\ EmptyDictionaries.parents_by_document = [d \in Documents |-> {}]
        /\ EmptyDictionaries.parents_by_id = {}
    BY DEF EmptyDictionaries
  <2> QED
    BY <2>1, <2>2, <2>3 DEF Init, KnowledgeInit, KnowledgeInv, KnowledgeTypeOK, Agree
<1>2. PICK b \in V!Backend : vectors = V!EmptyStore(b)
  BY DEF Init
<1>3. /\ vectors \in V!VectorState /\ V!Vectors(vectors) = {} /\ StoreOk(vectors)
  BY <1>2 DEF Init, V!EmptyStore, V!VectorState, V!NoCollection, V!Collection, V!Vectors,
              StoreOk, Sound
<1>4. /\ upload = [d \in Documents |-> [phase |-> "none", chunk |-> 1, leftover |-> FALSE]]
      /\ job \in [Jobs -> [status : {"none"}, phase : {"idle"}, clear : BOOLEAN,
                           documents : {{}}, todo : {{}}, points : {{}}]]
      /\ taken = {} /\ missed = {} /\ faults = 0
  BY DEF Init
<1>5. IndexTypes
  <2>1. 1 \in 1..ChunksPerDocument /\ 0 \in 0..MaxFaults
    BY ChunksAssumption, FaultBoundAssumption
  <2>2. upload \in [Documents -> UploadState]
    BY <1>4, <2>1 DEF UploadState
  <2>3. job \in [Jobs -> JobState]
    BY <1>4 DEF JobState
  <2> QED
    BY <1>4, <2>1, <2>2, <2>3 DEF IndexTypes
<1>6. \A j \in Jobs : JobGood(j, job[j])
  BY <1>4 DEF JobGood, AllChunks
<1>7. \A d \in Documents : CleanOk(d)
  BY <1>3, <1>4 DEF CleanOk, Failed, Leaves
<1> QED
  BY <1>1, <1>3, <1>5, <1>6, <1>7 DEF BaseInv

LEMMA SameBase ==
  ASSUME BaseInv, UNCHANGED vars
  PROVE  BaseInv'
<1>1. UNCHANGED <<knowledgeVars, vectors, upload, job, historyVars, faults>>
  BY DEF vars
<1>2. IndexTypes' /\ StoreOk(vectors)' /\ \A j \in Jobs : JobGood(j, job[j])'
  BY <1>1 DEF BaseInv, IndexTypes, historyVars, StoreOk, Sound, JobGood, AllChunks, ChunksOf
<1>3. \A d \in Documents : CleanOk(d)'
  BY <1>1, LeavesSame, CleanAll
<1> QED
  BY <1>1, <1>2, <1>3, KnowledgeSame DEF BaseInv

LEMMA JobStepBase ==
  ASSUME BaseInv, NEW j \in Jobs, JobStep(j)
  PROVE  BaseInv'
  BY RunJobBase, ListForJobBase, ReplaceForJobBase, UpsertForJobBase,
     StoreForJobBase, MarkForJobBase DEF JobStep

\* Every reachable state satisfies the base invariant.
THEOREM IndexInvariant == Spec => []BaseInv
<1>1. BaseInv /\ [Next]_vars => BaseInv'
  <2> SUFFICES ASSUME BaseInv, [Next]_vars
               PROVE  BaseInv'
    OBVIOUS
  <2>1. CASE \E d \in Documents : StartUpload(d) \/ UploadStep(d)
    BY <2>1, StartUploadBase, UploadStepBase
  <2>2. CASE \E j \in Jobs : CreateJob(j) \/ JobStep(j)
    BY <2>2, CreateJobBase, JobStepBase
  <2>3. CASE Search
    BY <2>3, SearchBase
  <2>4. CASE Restart
    BY <2>4, RestartBase
  <2>5. CASE UNCHANGED vars
    BY <2>5, SameBase
  <2> QED
    BY <2>1, <2>2, <2>3, <2>4, <2>5 DEF Next
<1> QED
  BY <1>1, InitBase, PTL DEF Spec

\* The stores and the tables keep their types (documents, chunks and labels of
\* the three knowledge stores, the vector store, uploads and jobs).
THEOREM IndexTypeCorrect == Spec => []TypeOK
<1>1. BaseInv => TypeOK
  BY DEF BaseInv, KnowledgeInv, StoreOk, IndexTypes, TypeOK
<1> QED
  BY <1>1, IndexInvariant, PTL

\* Whatever sequence of uploads, reindex jobs, failures and restarts came
\* before, SqliteKnowledgeStore, PostgresKnowledgeStore and
\* InMemoryKnowledgeStore answer every read alike.
THEOREM StoresAgree == Spec => []SameAnswers
<1>1. BaseInv => SameAnswers
  BY AgreeAnswers DEF BaseInv
<1> QED
  BY <1>1, IndexInvariant, PTL

\* When create_document has failed, whichever of its calls raised, no chunk of
\* the document carries the signature, and no vector of it is in a store,
\* unless the delete of the rollback failed too.
THEOREM FailedUploadLeavesNothing == Spec => []FailedLeavesNothing
<1>1. BaseInv => FailedLeavesNothing
  <2> SUFFICES ASSUME BaseInv, NEW d \in Documents, StatusOf(d) = "failed",
                      upload[d].phase = "returned", NEW c \in ChunksOf(d, Upload)
               PROVE  /\ LabelOf(c) # "signature"
                      /\ c \in V!Vectors(vectors) => upload[d].leftover
    BY DEF FailedLeavesNothing
  <2>1. Failed(d) /\ CleanOk(d)
    BY DEF Failed, BaseInv
  <2> QED
    BY <2>1 DEF CleanOk, Leaves
<1> QED
  BY <1>1, IndexInvariant, PTL

-----------------------------------------------------------------------------
(* What is ready is indexed.  The vectors of a chunk a document has are     *)
(* held if a job made the chunk, or an upload did and the document is        *)
(* ready; an upload and a job know which vectors they have written.          *)

Active == {"upserting", "labelling", "marking", "deleting", "unlabelling", "failing"}

\* The chunks of the upload are not stored.
NoUpload(d) ==
  \A c \in ChunkId : c.document = d /\ c.build = Upload => LabelOf(c) = "absent"

DocKept(d) ==
  /\ \A c \in ChunkId :
       (/\ c.document = d /\ LabelOf(c) # "absent"
        /\ c.build # Upload \/ StatusOf(d) = "ready") => Held(c)
  /\ upload[d].phase \in Active => NoUpload(d) \/ StatusOf(d) = "pending"
  /\ upload[d].phase = "none" => StatusOf(d) = "absent" /\ upload[d].chunk = 1

\* The upload u has written the vector of its chunk number i.
Wrote(u, i) ==
  \/ u.phase = "marking"
  \/ u.phase \in {"upserting", "labelling"} /\ i < u.chunk
  \/ u.phase = "labelling" /\ i = u.chunk

UploadKept(d) ==
  \A c \in ChunkId :
    c.document = d /\ c.build = Upload /\ Wrote(upload[d], c.index) => Held(c)

JobKept(j) ==
  /\ \A c \in ChunkId :
       (/\ c.build = j /\ c.document \in job[j].documents
        /\ \/ job[j].phase \in {"storing", "marking"}
           \/ job[j].phase = "upserting" /\ c \notin job[j].points) => Held(c)
  /\ \A d \in job[j].documents :
       job[j].phase \in {"replacing", "upserting", "storing", "marking"}
         => upload[d].phase # "none"
  /\ \A d \in job[j].documents :
       (job[j].phase = "marking" \/ (job[j].phase = "storing" /\ d \notin job[j].todo))
         => NoUpload(d)

KeepInv ==
  /\ BaseInv
  /\ \A d \in Documents : DocKept(d) /\ UploadKept(d)
  /\ \A j \in Jobs : JobKept(j)

LEMMA HeldPrime ==
  ASSUME NEW c
  PROVE  Held(c)' <=>
           \/ c \in taken'
           \/ c \in V!Vectors(vectors') /\ c \in V!Searched(vectors') \cup missed'
  BY DEF Held, V!Vectors, V!Searched

\* Steps that leave the vector store alone keep what is held.
LEMMA HeldSame ==
  ASSUME UNCHANGED <<vectors, historyVars>>
  PROVE  \A c : Held(c) => Held(c)'
  BY HeldPrime DEF Held, historyVars

\* So does an upsert, which adds its own chunk if it does not raise.
LEMMA HeldUpsert ==
  ASSUME NEW c, NEW o, Upserted(vectors, c, o), vectors' = o.store,
         UNCHANGED taken, Misses({c})
  PROVE  /\ \A e : Held(e) => Held(e)'
         /\ ~o.raised => Held(c)'
<1>1. /\ V!Vectors(vectors) \subseteq V!Vectors(vectors')
      /\ V!Searched(vectors) \subseteq V!Searched(vectors')
      /\ ~o.raised => c \in V!Vectors(vectors')
  BY DEF Upserted
<1>2. /\ missed' = missed \cup ({c} \ V!Searched(vectors')) /\ taken' = taken
  BY DEF Misses
<1> QED
  BY <1>1, <1>2, HeldPrime DEF Held

\* A delete takes none but those it is to delete.
LEMMA HeldDelete ==
  ASSUME NEW S, NEW o, Deleted(vectors, S, o), vectors' = o.store,
         UNCHANGED historyVars
  PROVE  \A e : Held(e) /\ e \notin S => Held(e)'
<1>1. /\ V!Vectors(vectors) \ S \subseteq V!Vectors(vectors')
      /\ V!Searched(vectors) \ S \subseteq V!Searched(vectors')
  BY DEF Deleted
<1>2. taken' = taken /\ missed' = missed
  BY DEF historyVars
<1> QED
  BY <1>1, <1>2, HeldPrime DEF Held

\* What replace_all takes, the history knows.
LEMMA HeldReplace ==
  ASSUME NEW S, NEW o, Replaced(vectors, S, o), vectors' = o.store, Takes, Misses(S)
  PROVE  /\ \A e : Held(e) => Held(e)'
         /\ ~o.raised => \A e \in S : Held(e)'
<1>1. /\ V!Vectors(vectors') \subseteq V!Searched(vectors') \cup S
      /\ ~o.raised => S \subseteq V!Vectors(vectors')
  BY DEF Replaced
<1>2. /\ missed' = missed \cup (S \ V!Searched(vectors'))
      /\ taken' = taken \cup (V!Vectors(vectors) \ V!Vectors(vectors'))
  BY DEF Takes, Misses
<1> QED
  BY <1>1, <1>2, HeldPrime DEF Held

LEMMA HeldLook ==
  ASSUME NEW o, Looked(vectors, o), vectors' = o.store, UNCHANGED historyVars
  PROVE  \A e : Held(e) => Held(e)'
<1>1. V!Vectors(vectors') = V!Vectors(vectors) /\ V!Searched(vectors') = V!Searched(vectors)
  BY DEF Looked
<1>2. taken' = taken /\ missed' = missed
  BY DEF historyVars
<1> QED
  BY <1>1, <1>2, HeldPrime DEF Held

LEMMA HeldRestart ==
  ASSUME StoreOk(vectors), vectors' = V!Reopened(vectors), Takes, UNCHANGED missed
  PROVE  \A e : Held(e) => Held(e)'
<1>1. V!Vectors(vectors') \subseteq V!Searched(vectors')
  BY ReopenedFacts
<1>2. taken' = taken \cup (V!Vectors(vectors) \ V!Vectors(vectors')) /\ missed' = missed
  BY DEF Takes
<1> QED
  BY <1>1, <1>2, HeldPrime DEF Held

-----------------------------------------------------------------------------
(* What a step leaves alone is kept *)

LEMMA NoUploadStays ==
  ASSUME NEW d, NoUpload(d), \A c \in ChunkId : c.document = d /\ c.build = Upload
                               => LabelOf(c)' = LabelOf(c) \/ LabelOf(c)' = "absent"
  PROVE  NoUpload(d)'
  BY DEF NoUpload, ChunkId

\* A document that a step does not store or mark.
LEMMA DocStays ==
  ASSUME NEW d \in Documents, DocKept(d), upload'[d] = upload[d],
         StatusOf(d)' = StatusOf(d),
         \A c \in ChunkId : c.document = d => LabelOf(c)' = LabelOf(c),
         \A c \in ChunkId : c.document = d /\ Held(c) => Held(c)'
  PROVE  DocKept(d)'
<1>1. NoUpload(d) => NoUpload(d)'
  BY NoUploadStays
<1>2. \A c \in ChunkId :
        (/\ c.document = d /\ LabelOf(c)' # "absent"
         /\ c.build # Upload \/ StatusOf(d)' = "ready") => Held(c)'
  BY DEF DocKept
<1>3. upload'[d].phase \in Active => NoUpload(d)' \/ StatusOf(d)' = "pending"
  BY <1>1 DEF DocKept
<1>4. upload'[d].phase = "none" => StatusOf(d)' = "absent" /\ upload'[d].chunk = 1
  BY DEF DocKept
<1> QED
  BY <1>2, <1>3, <1>4 DEF DocKept, ChunkId, Active

LEMMA UploadStays ==
  ASSUME NEW d \in Documents, UploadKept(d), upload'[d] = upload[d],
         \A c \in ChunkId : c.document = d /\ Held(c) => Held(c)'
  PROVE  UploadKept(d)'
<1>1. \A c \in ChunkId :
        c.document = d /\ c.build = Upload /\ Wrote(upload'[d], c.index) => Held(c)'
  BY DEF UploadKept
<1> QED
  BY <1>1 DEF UploadKept, ChunkId, Wrote

LEMMA JobStays ==
  ASSUME NEW j \in Jobs, JobKept(j), job'[j] = job[j],
         \A d \in job[j].documents : upload'[d].phase = "none" => upload[d].phase = "none",
         \A d \in job[j].documents : upload[d].phase # "none" /\ NoUpload(d) => NoUpload(d)',
         \A c \in ChunkId : c.build = j /\ Held(c) => Held(c)'
  PROVE  JobKept(j)'
<1>1. \A c \in ChunkId :
        (/\ c.build = j /\ c.document \in job'[j].documents
         /\ \/ job'[j].phase \in {"storing", "marking"}
            \/ job'[j].phase = "upserting" /\ c \notin job'[j].points) => Held(c)'
  BY DEF JobKept
<1>2. \A d \in job'[j].documents :
        job'[j].phase \in {"replacing", "upserting", "storing", "marking"}
          => upload'[d].phase # "none"
  BY DEF JobKept
<1>3. \A d \in job'[j].documents :
        (job'[j].phase = "marking" \/ (job'[j].phase = "storing" /\ d \notin job'[j].todo))
          => NoUpload(d)'
  BY DEF JobKept
<1> QED
  BY <1>1, <1>2, <1>3 DEF JobKept, ChunkId

-----------------------------------------------------------------------------
(* Steps of an upload *)

\* What is left to show of a step of the upload of d.
LEMMA UploadKeeps ==
  ASSUME KeepInv, BaseInv', NEW d \in Documents, UNCHANGED job,
         \A e \in Documents : e # d => upload'[e] = upload[e],
         \A e \in Documents : e # d => StatusOf(e)' = StatusOf(e),
         \A c \in ChunkId : c.document # d => LabelOf(c)' = LabelOf(c),
         \A c \in ChunkId : Held(c) /\ ~(c.document = d /\ c.build = Upload) => Held(c)',
         upload'[d].phase # "none",
         upload[d].phase # "none" /\ NoUpload(d) => NoUpload(d)',
         DocKept(d)', UploadKept(d)'
  PROVE  KeepInv'
<1>1. \A e \in Documents : DocKept(e)' /\ UploadKept(e)'
  BY DocStays, UploadStays DEF KeepInv
<1>2. ASSUME NEW j \in Jobs
      PROVE  JobKept(j)'
  <2>1. job[j].documents \in SUBSET Documents /\ job'[j] = job[j] /\ JobKept(j)
    BY RowFacts DEF KeepInv, BaseInv
  <2>2. \A e \in Documents : e # d /\ NoUpload(e) => NoUpload(e)'
    BY NoUploadStays
  <2>3. \A c \in ChunkId : c.build = j /\ Held(c) => Held(c)'
    BY BuildFacts
  <2>4. \A e \in job[j].documents : upload'[e].phase = "none" => upload[e].phase = "none"
    BY <2>1
  <2>5. \A e \in job[j].documents :
          upload[e].phase # "none" /\ NoUpload(e) => NoUpload(e)'
    BY <2>1, <2>2
  <2> QED
    BY <2>1, <2>3, <2>4, <2>5, JobStays
<1>3. \A j \in Jobs : JobKept(j)'
  BY <1>2
<1> QED
  BY <1>1, <1>3 DEF KeepInv

\* The document of an upload under way, while its status stays.
LEMMA DocActive ==
  ASSUME NEW d \in Documents, DocKept(d), upload[d].phase \in Active,
         upload'[d].phase # "none", StatusOf(d)' = StatusOf(d),
         \A c \in ChunkId : c.document = d /\ LabelOf(c)' # "absent" => LabelOf(c) # "absent",
         \A c \in ChunkId : c.document = d /\ c.build # Upload /\ Held(c) => Held(c)'
  PROVE  DocKept(d)' /\ (NoUpload(d) => NoUpload(d)')
<1>1. NoUpload(d) => NoUpload(d)'
  BY DEF NoUpload, ChunkId
<1>2. StatusOf(d) = "ready" => NoUpload(d)
  BY DEF DocKept
<1>3. \A c \in ChunkId :
        (/\ c.document = d /\ LabelOf(c)' # "absent"
         /\ c.build # Upload \/ StatusOf(d)' = "ready") => Held(c)'
  BY <1>2 DEF DocKept, NoUpload
<1>4. upload'[d].phase \in Active => NoUpload(d)' \/ StatusOf(d)' = "pending"
  BY <1>1 DEF DocKept
<1> QED
  BY <1>1, <1>3, <1>4 DEF DocKept, ChunkId, Active

\* An upload that has given up claims nothing.
LEMMA NothingWritten ==
  ASSUME NEW d \in Documents, upload'[d].phase \notin {"marking", "upserting", "labelling"}
  PROVE  UploadKept(d)'
  BY DEF UploadKept, Wrote

\* The statement a step of an upload that keeps the tables of the others has
\* to satisfy, in one piece.
LEMMA ActiveKeeps ==
  ASSUME KeepInv, BaseInv', NEW d \in Documents, UNCHANGED job,
         \A e \in Documents : e # d => upload'[e] = upload[e],
         \A e \in Documents : StatusOf(e)' = StatusOf(e),
         \A c \in ChunkId : c.document # d => LabelOf(c)' = LabelOf(c),
         \A c \in ChunkId : LabelOf(c)' # "absent" => LabelOf(c) # "absent",
         \A c \in ChunkId : Held(c) /\ ~(c.document = d /\ c.build = Upload) => Held(c)',
         upload[d].phase \in Active, upload'[d].phase # "none", UploadKept(d)'
  PROVE  KeepInv'
<1>1. DocKept(d)
  BY DEF KeepInv
<1>2. DocKept(d)' /\ (NoUpload(d) => NoUpload(d)')
  BY <1>1, DocActive
<1> QED
  BY <1>2, UploadKeeps

\* Calls of an upload that raise.
LEMMA RaisesKeeps ==
  ASSUME KeepInv, BaseInv', NEW d \in Documents, NEW p \in {"deleting", "raised"},
         upload[d].phase \in Active, UploadGoesTo(d, p),
         UNCHANGED <<knowledgeVars, vectors, job, historyVars>>
  PROVE  KeepInv'
<1>1. /\ upload'[d].phase = p /\ \A e \in Documents : e # d => upload'[e] = upload[e]
  BY UploadMoves DEF KeepInv, BaseInv
<1>2. UploadKept(d)'
  BY <1>1, NothingWritten
<1>3. \A c : Held(c) => Held(c)'
  BY HeldSame
<1> QED
  BY <1>1, <1>2, <1>3, KnowledgeSame, ActiveKeeps

LEMMA StartUploadKeeps ==
  ASSUME KeepInv, BaseInv', NEW d \in Documents, StartUpload(d)
  PROVE  KeepInv'
<1>1. /\ UNCHANGED <<vectors, job, historyVars>> /\ upload[d].phase = "none"
      /\ \/ /\ AddDocument(d, "pending", "none", Upload)
            /\ \E p \in {"upserting", "deleting"} : UploadGoesTo(d, p)
         \/ UploadGoesTo(d, "raised") /\ UNCHANGED knowledgeVars
  BY DEF StartUpload, MayRaise
<1>2. \A c : Held(c) => Held(c)'
  BY <1>1, HeldSame
<1>3. /\ BaseInv /\ IndexTypes /\ KnowledgeInv /\ DocKept(d)
      /\ upload[d].chunk = 1 /\ StatusOf(d) = "absent"
  BY <1>1 DEF KeepInv, BaseInv, DocKept
<1>4. ASSUME AddDocument(d, "pending", "none", Upload),
             NEW p \in {"upserting", "deleting"}, UploadGoesTo(d, p)
      PROVE  KeepInv'
  <2>1. /\ upload'[d].phase = p /\ upload'[d].chunk = 1
        /\ \A e \in Documents : e # d => upload'[e] = upload[e]
    BY <1>3, <1>4, UploadMoves
  <2>2. /\ \A e \in Documents : StatusOf(e)' = IF e = d THEN "pending" ELSE StatusOf(e)
        /\ \A c \in ChunkId : LabelOf(c)' =
             IF c.document # d THEN LabelOf(c)
             ELSE IF c.build = Upload THEN "none" ELSE "absent"
    BY <1>3, <1>4, BuildFacts, AddEffect
  <2>3. DocKept(d)'
    <3>1. \A c \in ChunkId :
            (/\ c.document = d /\ LabelOf(c)' # "absent"
             /\ c.build # Upload \/ StatusOf(d)' = "ready") => Held(c)'
      BY <2>2
    <3>2. upload'[d].phase \in Active => NoUpload(d)' \/ StatusOf(d)' = "pending"
      BY <2>2
    <3>3. upload'[d].phase # "none"
      BY <2>1
    <3> QED
      BY <3>1, <3>2, <3>3 DEF DocKept, ChunkId, Active
  <2>4. UploadKept(d)'
    <3>1. \A c \in ChunkId : c.index \in Nat /\ ~(c.index < 1)
      BY ChunksAssumption DEF ChunkId
    <3>2. \A c \in ChunkId : ~Wrote(upload'[d], c.index)
      BY <2>1, <3>1 DEF Wrote
    <3> QED
      BY <3>2 DEF UploadKept, ChunkId, Wrote
  <2> QED
    BY <1>1, <1>2, <2>1, <2>2, <2>3, <2>4, UploadKeeps
<1>5. ASSUME UploadGoesTo(d, "raised"), UNCHANGED knowledgeVars
      PROVE  KeepInv'
  <2>1. /\ upload'[d].phase = "raised"
        /\ \A e \in Documents : e # d => upload'[e] = upload[e]
    BY <1>3, <1>5, UploadMoves
  <2>2. /\ \A e \in Documents : StatusOf(e)' = StatusOf(e)
        /\ \A c \in ChunkId : LabelOf(c)' = LabelOf(c)
    BY <1>5, KnowledgeSame
  <2>3. DocKept(d)'
    <3>1. \A c \in ChunkId :
            (/\ c.document = d /\ LabelOf(c)' # "absent"
             /\ c.build # Upload \/ StatusOf(d)' = "ready") => Held(c)'
      BY <1>2, <1>3, <2>2 DEF DocKept
    <3>2. upload'[d].phase \notin Active /\ upload'[d].phase # "none"
      BY <2>1 DEF Active
    <3> QED
      BY <3>1, <3>2 DEF DocKept, ChunkId, Active
  <2>4. UploadKept(d)'
    BY <2>1, NothingWritten
  <2> QED
    BY <1>1, <1>2, <2>1, <2>2, <2>3, <2>4, UploadKeeps
<1> QED
  BY <1>1, <1>4, <1>5

LEMMA UpsertUploadKeeps ==
  ASSUME KeepInv, BaseInv', NEW d \in Documents, UpsertUpload(d)
  PROVE  KeepInv'
<1>b. PICK c : c = UploadChunk(d)
  OBVIOUS
<1>1. c \in ChunkId /\ c.document = d /\ c.build = Upload /\ c.index = upload[d].chunk
  BY <1>b, UploadChunkIn DEF KeepInv, BaseInv, UploadChunk
<1>2. /\ UNCHANGED <<knowledgeVars, job, taken>> /\ upload[d].phase = "upserting"
      /\ Misses({c})
      /\ VectorCall(V!Upsert(vectors, c), UploadGoesTo(d, "labelling"),
                    UploadGoesTo(d, "deleting"))
  BY <1>b DEF UpsertUpload
<1>a. \A e \in ChunkId : e.document = d /\ e.build = Upload /\ e.index = upload[d].chunk
                           => e = c
  BY <1>b DEF ChunkId, UploadChunk
<1>3. StoreOk(vectors) /\ IndexTypes /\ UploadKept(d) /\ upload[d].phase \in Active
  BY <1>2 DEF KeepInv, BaseInv, Active
<1>4. \A o \in V!Upsert(vectors, c) : Upserted(vectors, c, o)
  BY <1>1, <1>3, UpsertFacts
<1>5. \A o \in V!Upsert(vectors, c) : o.faults \in Nat
  BY <1>4 DEF Upserted
<1>6. PICK o \in V!Upsert(vectors, c) :
        /\ vectors' = o.store
        /\ o.raised => UploadGoesTo(d, "deleting")
        /\ ~o.raised => UploadGoesTo(d, "labelling")
  BY <1>2, <1>3, <1>5, CallFacts
<1>7. Upserted(vectors, c, o)
  BY <1>4
<1>8. (\A e : Held(e) => Held(e)') /\ (~o.raised => Held(c)')
  BY <1>2, <1>6, <1>7, HeldUpsert
<1>9. /\ \A e \in Documents : e # d => upload'[e] = upload[e]
      /\ upload'[d].phase = IF o.raised THEN "deleting" ELSE "labelling"
      /\ upload'[d].chunk = upload[d].chunk
  BY <1>3, <1>6, UploadMoves
<1>10. UploadKept(d)'
  <2>1. CASE o.raised
    BY <1>9, <2>1, NothingWritten
  <2>2. CASE ~o.raised
    <3>1. \A e \in ChunkId :
            e.document = d /\ e.build = Upload /\ Wrote(upload'[d], e.index)
              => Wrote(upload[d], e.index) \/ e = c
      BY <1>2, <1>9, <1>a, <2>2 DEF Wrote
    <3>2. \A e \in ChunkId :
            e.document = d /\ e.build = Upload /\ Wrote(upload'[d], e.index) => Held(e)'
      BY <1>3, <1>8, <2>2, <3>1 DEF UploadKept
    <3> QED
      BY <3>2 DEF UploadKept, ChunkId, Wrote
  <2> QED
    BY <2>1, <2>2
<1>11. upload'[d].phase # "none"
  BY <1>9
<1> QED
  BY <1>2, <1>3, <1>8, <1>9, <1>10, <1>11, KnowledgeSame, ActiveKeeps

LEMMA LabelUploadKeeps ==
  ASSUME KeepInv, BaseInv', NEW d \in Documents, LabelUpload(d)
  PROVE  KeepInv'
<1> DEFINE labelled ==
             /\ SetChunkLabels({UploadChunk(d)}, "signature")
             /\ upload' =
                  IF upload[d].chunk = ChunksPerDocument
                    THEN [upload EXCEPT ![d].phase = "marking"]
                    ELSE [upload EXCEPT ![d].phase = "upserting", ![d].chunk = @ + 1]
<1>1. /\ upload[d].phase = "labelling" /\ UNCHANGED <<vectors, job, historyVars>>
      /\ \/ labelled
         \/ UploadGoesTo(d, "deleting") /\ UNCHANGED knowledgeVars
  BY DEF LabelUpload, MayRaise
<1>2. BaseInv /\ IndexTypes /\ KnowledgeInv /\ UploadKept(d) /\ upload[d].phase \in Active
  BY <1>1 DEF KeepInv, BaseInv, Active
<1>3. CASE UploadGoesTo(d, "deleting") /\ UNCHANGED knowledgeVars
  BY <1>1, <1>2, <1>3, RaisesKeeps
<1>4. CASE labelled
  <2>1. UploadChunk(d) \in ChunkId /\ UploadChunk(d).document = d
    BY <1>2, UploadChunkIn
  <2>2. /\ \A e \in Documents : StatusOf(e)' = StatusOf(e)
        /\ \A c \in ChunkId : c.document # d => LabelOf(c)' = LabelOf(c)
        /\ \A c \in ChunkId : LabelOf(c)' # "absent" => LabelOf(c) # "absent"
    BY <1>2, <1>4, <2>1, LabelsEffect
  <2>3. /\ upload \in [Documents -> UploadState] /\ upload[d] \in UploadState
        /\ upload[d].chunk \in 1..ChunksPerDocument
    BY <1>2 DEF IndexTypes, UploadState
  <2>4. \A e \in Documents : e # d => upload'[e] = upload[e]
    BY <1>4, <2>3
  <2>5. \/ upload[d].chunk = ChunksPerDocument /\ upload'[d].phase = "marking"
        \/ upload'[d].phase = "upserting" /\ upload'[d].chunk = upload[d].chunk + 1
    BY <1>4, <2>3 DEF UploadState
  <2>6. \A c \in ChunkId : c.index \in 1..ChunksPerDocument
    BY DEF ChunkId
  <2>7. \A c \in ChunkId : Wrote(upload'[d], c.index) => Wrote(upload[d], c.index)
    <3> SUFFICES ASSUME NEW c \in ChunkId, Wrote(upload'[d], c.index)
                 PROVE  c.index <= upload[d].chunk
      BY <1>1, <2>3, <2>6, ChunksAssumption DEF Wrote
    <3>1. PICK i \in 1..ChunksPerDocument : i = c.index
      BY <2>6
    <3>2. PICK k \in 1..ChunksPerDocument : k = upload[d].chunk
      BY <2>3
    <3>3. k = ChunksPerDocument \/ i < k + 1
      BY <2>5, <3>1, <3>2, ChunksAssumption DEF Wrote
    <3> QED
      BY <3>1, <3>2, <3>3, ChunksAssumption
  <2>8. \A c : Held(c) => Held(c)'
    BY <1>1, HeldSame
  <2>9. UploadKept(d)'
    <3>1. \A c \in ChunkId :
            c.document = d /\ c.build = Upload /\ Wrote(upload'[d], c.index) => Held(c)'
      BY <1>2, <2>7, <2>8 DEF UploadKept
    <3> QED
      BY <3>1 DEF UploadKept, ChunkId, Wrote
  <2>10. upload'[d].phase # "none"
    BY <2>5
  <2> QED
    BY <1>1, <1>2, <2>2, <2>4, <2>8, <2>9, <2>10, ActiveKeeps
<1> QED
  BY <1>1, <1>3, <1>4

\* The last calls of an upload give the document a status.
LEMMA StatusKeeps ==
  ASSUME KeepInv, BaseInv', NEW d \in Documents, NEW status \in {"ready", "failed"},
         SetIndexStatus(d, status), UploadGoesTo(d, "returned"),
         UNCHANGED <<vectors, job, historyVars>>,
         upload[d].phase \in Active,
         status = "ready" => upload[d].phase = "marking"
  PROVE  KeepInv'
<1>1. /\ IndexTypes /\ KnowledgeInv /\ DocKept(d) /\ UploadKept(d)
      /\ status \in IndexStatus
  BY DEF KeepInv, BaseInv, IndexStatus
<1>2. /\ upload'[d].phase = "returned"
      /\ \A e \in Documents : e # d => upload'[e] = upload[e]
  BY <1>1, UploadMoves
<1>3. /\ \A e \in Documents : StatusOf(e)' =
           IF e = d /\ StatusOf(e) # "absent" THEN status ELSE StatusOf(e)
      /\ \A c \in ChunkId : LabelOf(c)' = LabelOf(c)
  BY <1>1, StatusEffect
<1>4. \A c : Held(c) => Held(c)'
  BY HeldSame
<1>5. StatusOf(d)' = "ready" => upload[d].phase = "marking"
  BY <1>1, <1>3
<1>6. \A c \in ChunkId :
        (/\ c.document = d /\ LabelOf(c)' # "absent"
         /\ c.build # Upload \/ StatusOf(d)' = "ready") => Held(c)'
  <2> SUFFICES ASSUME NEW c \in ChunkId, c.document = d, LabelOf(c)' # "absent",
                      c.build # Upload \/ StatusOf(d)' = "ready"
               PROVE  Held(c)'
    OBVIOUS
  <2>1. CASE c.build # Upload
    BY <1>1, <1>3, <1>4, <2>1 DEF DocKept
  <2>2. CASE c.build = Upload
    <3>1. Wrote(upload[d], c.index)
      BY <1>5, <2>2 DEF Wrote
    <3> QED
      BY <1>1, <1>4, <2>2, <3>1 DEF UploadKept
  <2> QED
    BY <2>1, <2>2
<1>7. DocKept(d)'
  <2>1. upload'[d].phase \notin Active /\ upload'[d].phase # "none"
    BY <1>2 DEF Active
  <2> QED
    BY <1>6, <2>1 DEF DocKept, ChunkId, Active
<1>8. UploadKept(d)'
  BY <1>2, NothingWritten
<1>9. NoUpload(d) => NoUpload(d)'
  BY <1>3, NoUploadStays
<1> QED
  BY <1>2, <1>3, <1>4, <1>7, <1>8, <1>9, UploadKeeps

LEMMA MarkReadyKeeps ==
  ASSUME KeepInv, BaseInv', NEW d \in Documents, MarkReady(d)
  PROVE  KeepInv'
<1>1. /\ upload[d].phase = "marking" /\ UNCHANGED <<vectors, job, historyVars>>
      /\ \/ SetIndexStatus(d, "ready") /\ UploadGoesTo(d, "returned")
         \/ UploadGoesTo(d, "deleting") /\ UNCHANGED knowledgeVars
  BY DEF MarkReady, MayRaise
<1>2. upload[d].phase \in Active
  BY <1>1 DEF Active
<1> QED
  BY <1>1, <1>2, RaisesKeeps, StatusKeeps

LEMMA MarkFailedKeeps ==
  ASSUME KeepInv, BaseInv', NEW d \in Documents, MarkFailed(d)
  PROVE  KeepInv'
<1>1. /\ upload[d].phase = "failing" /\ UNCHANGED <<vectors, job, historyVars>>
      /\ \/ SetIndexStatus(d, "failed") /\ UploadGoesTo(d, "returned")
         \/ UploadGoesTo(d, "raised") /\ UNCHANGED knowledgeVars
  BY DEF MarkFailed, MayRaise
<1>2. upload[d].phase \in Active
  BY <1>1 DEF Active
<1> QED
  BY <1>1, <1>2, RaisesKeeps, StatusKeeps

\* The rollback takes vectors, but of chunks that are not those of a document
\* that is ready.
LEMMA RollBackVectorsKeeps ==
  ASSUME KeepInv, BaseInv', NEW d \in Documents, RollBackVectors(d)
  PROVE  KeepInv'
<1>a. PICK S : S = ChunksOf(d, Upload)
  OBVIOUS
<1> DEFINE moved == \E b \in BOOLEAN : upload' = [upload EXCEPT ![d].phase = "unlabelling",
                                                                ![d].leftover = b]
<1>1. /\ UNCHANGED <<knowledgeVars, job, historyVars>> /\ upload[d].phase = "deleting"
      /\ moved /\ vectors' \in {o.store : o \in V!Delete(vectors, S)}
  <2> DEFINE told == upload' = [upload EXCEPT ![d].phase = "unlabelling",
                                              ![d].leftover = ~vectors'.available]
             lost == upload' = [upload EXCEPT ![d].phase = "unlabelling",
                                              ![d].leftover = TRUE]
  <2>1. /\ UNCHANGED <<knowledgeVars, job, historyVars>> /\ upload[d].phase = "deleting"
        /\ VectorCall(V!Delete(vectors, S), told, lost)
    BY <1>a DEF RollBackVectors
  <2> HIDE DEF told, lost
  <2>2. vectors' \in {o.store : o \in V!Delete(vectors, S)} /\ (told \/ lost)
    <3>1. PICK o \in V!Delete(vectors, S) :
            vectors' = o.store /\ IF o.raised THEN lost ELSE told
      BY <2>1 DEF VectorCall
    <3> QED
      BY <3>1
  <2> USE DEF told, lost
  <2>3. (~vectors'.available) \in BOOLEAN
    OBVIOUS
  <2> QED
    BY <2>1, <2>2, <2>3
<1>2. IndexTypes /\ StoreOk(vectors) /\ upload[d].phase \in Active /\ S \in SUBSET ChunkId
  BY <1>a, <1>1 DEF KeepInv, BaseInv, Active, ChunksOf
<1>3. PICK o \in V!Delete(vectors, S) : vectors' = o.store
  BY <1>1
<1>4. Deleted(vectors, S, o)
  BY <1>2, DeleteFacts
<1>5. \A c : Held(c) /\ c \notin S => Held(c)'
  BY <1>1, <1>3, <1>4, HeldDelete
<1>6. \A c \in S : c.document = d /\ c.build = Upload
  BY <1>a DEF ChunksOf
<1>7. /\ \A e \in Documents : e # d => upload'[e] = upload[e]
      /\ upload'[d].phase = "unlabelling"
  BY <1>1, <1>2 DEF IndexTypes, UploadState
<1>8. UploadKept(d)'
  BY <1>7, NothingWritten
<1> QED
  BY <1>1, <1>2, <1>5, <1>6, <1>7, <1>8, KnowledgeSame, ActiveKeeps

LEMMA UnlabelUploadKeeps ==
  ASSUME KeepInv, BaseInv', NEW d \in Documents, UnlabelUpload(d)
  PROVE  KeepInv'
<1>1. /\ upload[d].phase = "unlabelling" /\ UNCHANGED <<vectors, job, historyVars>>
      /\ \E S \in SUBSET ChunksOf(d, Upload), p \in {"failing", "raised"} :
           SetChunkLabels(S, "none") /\ UploadGoesTo(d, p)
  <2>1. /\ upload[d].phase = "unlabelling" /\ UNCHANGED <<vectors, job, historyVars>>
        /\ \/ SetChunkLabels(ChunksOf(d, Upload), "none") /\ UploadGoesTo(d, "failing")
           \/ \E k \in 1..ChunksPerDocument :
                SetChunkLabels({c \in ChunksOf(d, Upload) : c.index < k}, "none")
                /\ UploadGoesTo(d, "raised")
    BY DEF UnlabelUpload, MayRaise
  <2>2. ASSUME NEW k \in 1..ChunksPerDocument,
               SetChunkLabels({c \in ChunksOf(d, Upload) : c.index < k}, "none"),
               UploadGoesTo(d, "raised")
        PROVE  \E S \in SUBSET ChunksOf(d, Upload), p \in {"failing", "raised"} :
                 SetChunkLabels(S, "none") /\ UploadGoesTo(d, p)
    <3> DEFINE S == {c \in ChunksOf(d, Upload) : c.index < k}
    <3>1. S \in SUBSET ChunksOf(d, Upload) /\ SetChunkLabels(S, "none")
      BY <2>2
    <3> HIDE DEF S
    <3> QED
      BY <2>2, <3>1
  <2> QED
    BY <2>1, <2>2
<1>2. PICK S \in SUBSET ChunksOf(d, Upload), p \in {"failing", "raised"} :
        SetChunkLabels(S, "none") /\ UploadGoesTo(d, p)
  BY <1>1
<1>3. IndexTypes /\ KnowledgeInv /\ upload[d].phase \in Active
  BY <1>1 DEF KeepInv, BaseInv, Active
<1>4. \A c \in S : c.document = d
  BY DEF ChunksOf
<1>5. /\ \A e \in Documents : StatusOf(e)' = StatusOf(e)
      /\ \A c \in ChunkId : c.document # d => LabelOf(c)' = LabelOf(c)
      /\ \A c \in ChunkId : LabelOf(c)' # "absent" => LabelOf(c) # "absent"
  BY <1>2, <1>3, <1>4, LabelsEffect
<1>6. /\ upload'[d].phase = p
      /\ \A e \in Documents : e # d => upload'[e] = upload[e]
  BY <1>2, <1>3, UploadMoves
<1>7. UploadKept(d)' /\ upload'[d].phase # "none"
  BY <1>6, NothingWritten
<1>8. \A c : Held(c) => Held(c)'
  BY <1>1, HeldSame
<1> QED
  BY <1>1, <1>3, <1>5, <1>6, <1>7, <1>8, ActiveKeeps

LEMMA UploadStepKeeps ==
  ASSUME KeepInv, BaseInv', NEW d \in Documents, UploadStep(d)
  PROVE  KeepInv'
  BY UpsertUploadKeeps, LabelUploadKeeps, MarkReadyKeeps,
     RollBackVectorsKeeps, UnlabelUploadKeeps, MarkFailedKeeps DEF UploadStep

-----------------------------------------------------------------------------
(* Steps of a job *)

\* What is left to show of a step of job j that leaves the tables alone.
LEMMA JobKeeps ==
  ASSUME KeepInv, BaseInv', NEW j \in Jobs, UNCHANGED <<knowledgeVars, upload>>,
         \A k \in Jobs : k # j => job'[k] = job[k],
         \A c : Held(c) => Held(c)',
         JobKept(j)'
  PROVE  KeepInv'
<1>1. /\ \A d \in Documents : StatusOf(d)' = StatusOf(d)
      /\ \A c \in ChunkId : LabelOf(c)' = LabelOf(c)
  BY KnowledgeSame
<1>2. \A d \in Documents : DocKept(d)' /\ UploadKept(d)'
  BY <1>1, DocStays, UploadStays DEF KeepInv
<1>3. \A d : NoUpload(d) => NoUpload(d)'
  BY <1>1, NoUploadStays
<1>4. ASSUME NEW k \in Jobs, k # j
      PROVE  JobKept(k)'
  <2>1. job'[k] = job[k] /\ JobKept(k)
    BY <1>4 DEF KeepInv
  <2> QED
    BY <1>3, <2>1, JobStays
<1>5. \A k \in Jobs : JobKept(k)'
  BY <1>4
<1> QED
  BY <1>2, <1>5 DEF KeepInv

\* A job that is not at work claims nothing.
LEMMA IdleKept ==
  ASSUME NEW j \in Jobs,
         job'[j].phase \notin {"replacing", "upserting", "storing", "marking"}
  PROVE  JobKept(j)'
  BY DEF JobKept

LEMMA JobMoved ==
  ASSUME IndexTypes, NEW j \in Jobs
  PROVE  /\ JobFails(j) \/ JobCompletes(j) =>
              job'[j].phase = "ended" /\ \A k \in Jobs : k # j => job'[k] = job[k]
         /\ JobGoesTo(j, "gone") =>
              job'[j].phase = "gone" /\ \A k \in Jobs : k # j => job'[k] = job[k]
         /\ StartStoring(j) =>
              /\ job'[j].phase = "storing" /\ job'[j].documents = job[j].documents
              /\ job'[j].todo = job[j].documents
              /\ \A k \in Jobs : k # j => job'[k] = job[k]
<1> DEFINE s == job[j].status
           ds == job[j].documents
           t == job[j].todo
           ps == job[j].points
<1>1. /\ JobGoesTo(j, "gone") => Becomes(j, JobRow(j, s, "gone", ds, t, ps))
      /\ JobFails(j) => \E q \in Status : Becomes(j, JobRow(j, q, "ended", ds, t, ps))
      /\ JobCompletes(j) => Becomes(j, JobRow(j, "completed", "ended", ds, t, ps))
      /\ StartStoring(j) => Becomes(j, JobRow(j, s, "storing", ds, ds, ps))
  BY JobMoves DEF Phase
<1>2. ASSUME NEW q, NEW p, NEW u, Becomes(j, JobRow(j, q, p, ds, u, ps))
      PROVE  /\ job'[j].phase = p /\ job'[j].documents = ds /\ job'[j].todo = u
             /\ \A k \in Jobs : k # j => job'[k] = job[k]
  BY <1>2 DEF Becomes, JobRow
<1> QED
  BY <1>1, <1>2

LEMMA EndedKeeps ==
  ASSUME KeepInv, BaseInv', NEW j \in Jobs, UNCHANGED <<knowledgeVars, upload>>,
         \A c : Held(c) => Held(c)', JobFails(j) \/ JobCompletes(j)
  PROVE  KeepInv'
<1>1. IndexTypes
  BY DEF KeepInv, BaseInv
<1>2. job'[j].phase = "ended" /\ \A k \in Jobs : k # j => job'[k] = job[k]
  BY <1>1, JobMoved
<1>3. JobKept(j)'
  BY <1>2, IdleKept
<1> QED
  BY <1>2, <1>3, JobKeeps

LEMMA CreateJobKeeps ==
  ASSUME KeepInv, BaseInv', NEW j \in Jobs, CreateJob(j) \/ RunJob(j)
  PROVE  KeepInv'
<1>1. /\ UNCHANGED <<knowledgeVars, vectors, upload, historyVars>>
      /\ \E p \in {"queued", "listing"}, q \in Status :
           \/ job' = [job EXCEPT ![j].phase = p, ![j].status = q]
           \/ JobGoesTo(j, "gone")
  BY DEF CreateJob, RunJob, MayRaise, Status
<1>2. IndexTypes /\ {"queued", "listing", "gone"} \subseteq Phase
  BY DEF KeepInv, BaseInv, Phase
<1>3. /\ job'[j].phase \in {"queued", "listing", "gone"}
      /\ \A k \in Jobs : k # j => job'[k] = job[k]
  <2>1. PICK p \in {"queued", "listing"}, q \in Status :
          \/ job' = [job EXCEPT ![j].phase = p, ![j].status = q]
          \/ JobGoesTo(j, "gone")
    BY <1>1
  <2>2. CASE job' = [job EXCEPT ![j].phase = p, ![j].status = q]
    <3>1. Becomes(j, JobRow(j, q, p, job[j].documents, job[j].todo, job[j].points))
      BY <1>2, <2>1, <2>2, JobEnters
    <3> QED
      BY <3>1 DEF Becomes, JobRow
  <2>3. CASE JobGoesTo(j, "gone")
    BY <1>2, <2>3, JobMoved
  <2> QED
    BY <2>1, <2>2, <2>3
<1>4. JobKept(j)'
  BY <1>3, IdleKept
<1>5. \A c : Held(c) => Held(c)'
  BY <1>1, HeldSame
<1> QED
  BY <1>1, <1>3, <1>4, <1>5, JobKeeps

LEMMA ListForJobKeeps ==
  ASSUME KeepInv, BaseInv', NEW j \in Jobs, ListForJob(j)
  PROVE  KeepInv'
<1>1. IndexTypes /\ \A d \in Documents : DocKept(d)
  BY DEF KeepInv, BaseInv
<1>2. UNCHANGED <<knowledgeVars, vectors, upload, historyVars>>
  BY <1>1, ListEffect
<1>3. \A c : Held(c) => Held(c)'
  BY <1>2, HeldSame
<1>4. CASE JobFails(j) \/ JobCompletes(j)
  BY <1>2, <1>3, <1>4, EndedKeeps
<1>5. ASSUME NEW p \in {"replacing", "upserting"},
             Becomes(j, JobRow(j, job[j].status, p, ListDocuments, job[j].todo,
                               AllChunks(ListDocuments, j)))
      PROVE  KeepInv'
  <2>1. /\ job'[j].phase = p /\ job'[j].documents = ListDocuments
        /\ job'[j].points = AllChunks(ListDocuments, j)
        /\ \A k \in Jobs : k # j => job'[k] = job[k]
    BY <1>5 DEF Becomes, JobRow
  <2>2. \A c \in ChunkId : c.build = j /\ c.document \in ListDocuments
                             => c \in AllChunks(ListDocuments, j)
    BY DEF AllChunks, ChunksOf
  <2>3. \A d \in ListDocuments : upload'[d].phase # "none"
    BY <1>1, <1>2 DEF DocKept, ListDocuments
  <2>4. JobKept(j)'
    BY <2>1, <2>2, <2>3 DEF JobKept, ChunkId
  <2> QED
    BY <1>2, <1>3, <2>1, <2>4, JobKeeps
<1> QED
  BY <1>1, <1>4, <1>5, ListEffect

LEMMA ReplaceForJobKeeps ==
  ASSUME KeepInv, BaseInv', NEW j \in Jobs, ReplaceForJob(j)
  PROVE  KeepInv'
<1>a. PICK P : P = job[j].points
  OBVIOUS
<1>1. /\ UNCHANGED <<knowledgeVars, upload>> /\ job[j].phase = "replacing"
      /\ VectorCall(V!ReplaceAll(vectors, P), StartStoring(j), JobFails(j))
      /\ Takes /\ Misses(P)
  BY <1>a DEF ReplaceForJob
<1>2. /\ StoreOk(vectors) /\ IndexTypes /\ P \in SUBSET ChunkId /\ JobKept(j)
      /\ P = AllChunks(job[j].documents, j)
  BY <1>a, <1>1, RowFacts DEF KeepInv, BaseInv, JobGood
<1>3. \A o \in V!ReplaceAll(vectors, P) : Replaced(vectors, P, o)
  BY <1>2, ReplaceFacts
<1>4. \A o \in V!ReplaceAll(vectors, P) : o.faults \in Nat
  BY <1>3 DEF Replaced
<1>5. PICK o \in V!ReplaceAll(vectors, P) :
        vectors' = o.store /\ (o.raised => JobFails(j)) /\ (~o.raised => StartStoring(j))
  BY <1>1, <1>2, <1>4, CallFacts
<1>6. (\A c : Held(c) => Held(c)') /\ (~o.raised => \A c \in P : Held(c)')
  BY <1>1, <1>3, <1>5, HeldReplace
<1>7. CASE o.raised
  BY <1>1, <1>5, <1>6, <1>7, EndedKeeps
<1>8. CASE ~o.raised
  <2>1. /\ job'[j].phase = "storing" /\ job'[j].documents = job[j].documents
        /\ job'[j].todo = job[j].documents
        /\ \A k \in Jobs : k # j => job'[k] = job[k]
    BY <1>2, <1>5, <1>8, JobMoved
  <2>2. \A c \in ChunkId : c.build = j /\ c.document \in job[j].documents => c \in P
    BY <1>2 DEF AllChunks, ChunksOf
  <2>3. \A c \in ChunkId : c.build = j /\ c.document \in job[j].documents => Held(c)'
    BY <1>6, <1>8, <2>2
  <2>4. \A d \in job[j].documents : upload'[d].phase # "none"
    BY <1>1, <1>2 DEF JobKept
  <2>5. JobKept(j)'
    BY <2>1, <2>3, <2>4 DEF JobKept, ChunkId
  <2> QED
    BY <1>1, <1>6, <2>1, <2>5, JobKeeps
<1> QED
  BY <1>7, <1>8

LEMMA UpsertForJobKeeps ==
  ASSUME KeepInv, BaseInv', NEW j \in Jobs, UpsertForJob(j)
  PROVE  KeepInv'
<1>a. PICK P : P = job[j].points
  OBVIOUS
<1>b. PICK c : c = FirstChunk(P)
  OBVIOUS
<1> DEFINE ok == IF P = {c}
                   THEN job' = [job EXCEPT ![j].phase = "storing", ![j].points = {},
                                           ![j].todo = job[j].documents]
                   ELSE job' = [job EXCEPT ![j].points = @ \ {c}]
<1>1. /\ UNCHANGED <<knowledgeVars, upload, taken>> /\ job[j].phase = "upserting"
      /\ VectorCall(V!Upsert(vectors, c), ok, JobFails(j))
      /\ Misses({c})
  BY <1>a, <1>b DEF UpsertForJob
<1>2. /\ StoreOk(vectors) /\ IndexTypes /\ P \in SUBSET ChunkId /\ P # {} /\ JobKept(j)
  BY <1>a, <1>1, RowFacts DEF KeepInv, BaseInv, JobGood
<1>3. c \in P /\ c \in ChunkId
  BY <1>b, <1>2, FirstChunkIn
<1>4. /\ ok /\ P = {c} =>
           Becomes(j, JobRow(j, job[j].status, "storing", job[j].documents,
                             job[j].documents, {}))
      /\ ok /\ P # {c} =>
           Becomes(j, JobRow(j, job[j].status, job[j].phase, job[j].documents,
                             job[j].todo, P \ {c}))
  BY <1>a, <1>2, UpsertMoves
<1> HIDE DEF ok
<1>5. \A o \in V!Upsert(vectors, c) : Upserted(vectors, c, o)
  BY <1>2, <1>3, UpsertFacts
<1>6. \A o \in V!Upsert(vectors, c) : o.faults \in Nat
  BY <1>5 DEF Upserted
<1>7. PICK o \in V!Upsert(vectors, c) :
        vectors' = o.store /\ (o.raised => JobFails(j)) /\ (~o.raised => ok)
  BY <1>1, <1>2, <1>6, CallFacts
<1>8. (\A e : Held(e) => Held(e)') /\ (~o.raised => Held(c)')
  BY <1>1, <1>5, <1>7, HeldUpsert
<1>9. CASE o.raised
  BY <1>1, <1>7, <1>8, <1>9, EndedKeeps
<1>10. CASE ~o.raised
  <2>1. /\ job'[j].documents = job[j].documents
        /\ \/ /\ job'[j].phase = "storing" /\ job'[j].todo = job[j].documents /\ P = {c}
           \/ job'[j].phase = "upserting" /\ job'[j].points = P \ {c}
        /\ \A k \in Jobs : k # j => job'[k] = job[k]
    BY <1>1, <1>4, <1>7, <1>10 DEF Becomes, JobRow
  <2>2. \A e \in ChunkId : e.build = j /\ e.document \in job[j].documents
                             /\ (e \notin P \/ e = c) => Held(e)'
    BY <1>a, <1>1, <1>2, <1>8, <1>10 DEF JobKept
  <2>3. \A d \in job[j].documents : upload'[d].phase # "none"
    BY <1>1, <1>2 DEF JobKept
  <2>4. JobKept(j)'
    BY <2>1, <2>2, <2>3 DEF JobKept, ChunkId
  <2> QED
    BY <1>1, <1>8, <2>1, <2>4, JobKeeps
<1> QED
  BY <1>9, <1>10

\* What is left to show of a step of job j that writes document d.
LEMMA WriteKeeps ==
  ASSUME KeepInv, BaseInv', NEW j \in Jobs, NEW d \in Documents,
         UNCHANGED <<vectors, upload, historyVars>>,
         \A k \in Jobs : k # j => job'[k] = job[k],
         \A e \in Documents : e # d => StatusOf(e)' = StatusOf(e),
         StatusOf(d)' = "ready" \/ StatusOf(d)' = StatusOf(d),
         \A c \in ChunkId : c.document # d => LabelOf(c)' = LabelOf(c),
         \A c \in ChunkId : c.document = d /\ LabelOf(c)' # "absent" => Held(c),
         NoUpload(d)', upload[d].phase # "none", JobKept(j)'
  PROVE  KeepInv'
<1>1. \A c : Held(c) => Held(c)'
  BY HeldSame
<1>2. \A e \in Documents : e # d => DocKept(e)'
  BY <1>1, DocStays DEF KeepInv
<1>3. DocKept(d)'
  <2>1. \A c \in ChunkId :
          (/\ c.document = d /\ LabelOf(c)' # "absent"
           /\ c.build # Upload \/ StatusOf(d)' = "ready") => Held(c)'
    BY <1>1
  <2> QED
    BY <2>1 DEF DocKept, ChunkId, Active
<1>4. \A e \in Documents : UploadKept(e)'
  BY <1>1, UploadStays DEF KeepInv
<1>5. \A e : NoUpload(e) => NoUpload(e)'
  <2>1. ASSUME NEW e, e # d, NoUpload(e)
        PROVE  NoUpload(e)'
    <3>1. \A c \in ChunkId : c.document = e => LabelOf(c)' = LabelOf(c)
      BY <2>1
    <3> QED
      BY <2>1, <3>1, NoUploadStays
  <2> QED
    BY <2>1
<1>6. ASSUME NEW k \in Jobs, k # j
      PROVE  JobKept(k)'
  <2>1. job'[k] = job[k] /\ JobKept(k)
    BY <1>6 DEF KeepInv
  <2> QED
    BY <1>1, <1>5, <2>1, JobStays
<1>7. \A k \in Jobs : JobKept(k)'
  BY <1>6
<1> QED
  BY <1>2, <1>3, <1>4, <1>7 DEF KeepInv

LEMMA StoreForJobKeeps ==
  ASSUME KeepInv, BaseInv', NEW j \in Jobs, StoreForJob(j)
  PROVE  KeepInv'
<1>a. PICK d : d = Newest(job[j].todo)
  OBVIOUS
<1>1. /\ UNCHANGED <<vectors, upload, historyVars>> /\ job[j].phase = "storing"
      /\ \/ /\ AddDocument(d, "ready", "signature", j)
            /\ job' = [job EXCEPT
                 ![j].phase = IF job[j].todo = {d} THEN "marking" ELSE @,
                 ![j].todo = IF job[j].todo = {d} THEN job[j].documents ELSE @ \ {d}]
         \/ JobFails(j) /\ UNCHANGED knowledgeVars
  BY <1>a DEF StoreForJob, MayRaise
<1>2. /\ IndexTypes /\ KnowledgeInv /\ JobGood(j, job[j]) /\ JobKept(j)
  BY DEF KeepInv, BaseInv
<1>3. job[j].todo \in SUBSET Documents /\ job[j].todo # {}
      /\ job[j].todo \subseteq job[j].documents
  BY <1>1, <1>2, RowFacts DEF JobGood
<1>4. d \in job[j].todo /\ d \in Documents /\ d \in job[j].documents
  BY <1>a, <1>3, NewestIn
<1>5. \A c : Held(c) => Held(c)'
  BY <1>1, HeldSame
<1>6. CASE JobFails(j) /\ UNCHANGED knowledgeVars
  BY <1>1, <1>5, <1>6, EndedKeeps
<1>7. ASSUME AddDocument(d, "ready", "signature", j),
             job' = [job EXCEPT
                 ![j].phase = IF job[j].todo = {d} THEN "marking" ELSE @,
                 ![j].todo = IF job[j].todo = {d} THEN job[j].documents ELSE @ \ {d}]
      PROVE  KeepInv'
  <2>1. /\ \A e \in Documents : StatusOf(e)' = IF e = d THEN "ready" ELSE StatusOf(e)
        /\ \A c \in ChunkId : LabelOf(c)' =
             IF c.document # d THEN LabelOf(c) ELSE IF c.build = j THEN "signature" ELSE "absent"
    BY <1>2, <1>4, <1>7, BuildFacts, AddEffect
  <2>2. /\ job'[j].documents = job[j].documents
        /\ \/ job'[j].phase = "marking" /\ job[j].todo = {d}
           \/ job'[j].phase = "storing" /\ job'[j].todo = job[j].todo \ {d}
        /\ \A k \in Jobs : k # j => job'[k] = job[k]
    <3>1. Becomes(j, StoreRow(j, d))
      BY <1>2, <1>7, StoreMoves
    <3> QED
      BY <1>1, <3>1 DEF Becomes, StoreRow, JobRow
  <2>3. NoUpload(d)'
    BY <2>1, BuildFacts DEF NoUpload, ChunkId
  <2>4. \A c \in ChunkId : c.document = d /\ LabelOf(c)' # "absent" => Held(c)
    BY <1>1, <1>2, <1>4, <2>1 DEF JobKept
  <2>5. \A e \in Documents : e # d /\ NoUpload(e) => NoUpload(e)'
    <3> SUFFICES ASSUME NEW e \in Documents, e # d, NoUpload(e)
                 PROVE  NoUpload(e)'
      OBVIOUS
    <3>1. \A c \in ChunkId : c.document = e => LabelOf(c)' = LabelOf(c)
      BY <2>1
    <3> QED
      BY <3>1, NoUploadStays
  <2>6. upload[d].phase # "none" /\ \A e \in job[j].documents : upload'[e].phase # "none"
    BY <1>1, <1>2, <1>4 DEF JobKept
  <2>7. \A e \in job[j].documents : e \notin job[j].todo \/ e = d => NoUpload(e)'
    <3>1. \A e \in job[j].documents : e \notin job[j].todo => NoUpload(e)
      BY <1>1, <1>2 DEF JobKept
    <3>2. job[j].documents \in SUBSET Documents
      BY <1>2, RowFacts
    <3> QED
      BY <2>3, <2>5, <3>1, <3>2
  <2>8. JobKept(j)'
    <3>1. \A c \in ChunkId : c.build = j /\ c.document \in job[j].documents => Held(c)'
      BY <1>1, <1>2, <1>5 DEF JobKept
    <3>2. \A e \in job[j].documents :
            (job'[j].phase = "marking" \/ (job'[j].phase = "storing" /\ e \notin job'[j].todo))
              => NoUpload(e)'
      BY <2>2, <2>7
    <3> QED
      BY <2>2, <2>6, <3>1, <3>2 DEF JobKept, ChunkId
  <2> QED
    BY <1>1, <1>4, <2>1, <2>2, <2>3, <2>4, <2>6, <2>8, WriteKeeps
<1> QED
  BY <1>1, <1>6, <1>7

LEMMA MarkForJobKeeps ==
  ASSUME KeepInv, BaseInv', NEW j \in Jobs, MarkForJob(j)
  PROVE  KeepInv'
<1>a. PICK d : d = Newest(job[j].todo)
  OBVIOUS
<1>1. /\ UNCHANGED <<vectors, upload, historyVars>> /\ job[j].phase = "marking"
      /\ \/ /\ SetIndexStatus(d, "ready")
            /\ IF job[j].todo = {d} THEN JobCompletes(j)
                                    ELSE job' = [job EXCEPT ![j].todo = @ \ {d}]
         \/ JobFails(j) /\ UNCHANGED knowledgeVars
  BY <1>a DEF MarkForJob, MayRaise
<1>2. /\ IndexTypes /\ KnowledgeInv /\ JobGood(j, job[j]) /\ JobKept(j)
  BY DEF KeepInv, BaseInv
<1>3. job[j].todo \in SUBSET Documents /\ job[j].todo # {}
      /\ job[j].todo \subseteq job[j].documents
  BY <1>1, <1>2, RowFacts DEF JobGood
<1>4. d \in job[j].todo /\ d \in Documents /\ d \in job[j].documents
  BY <1>a, <1>3, NewestIn
<1>5. \A c : Held(c) => Held(c)'
  BY <1>1, HeldSame
<1>6. CASE JobFails(j) /\ UNCHANGED knowledgeVars
  BY <1>1, <1>5, <1>6, EndedKeeps
<1>7. ASSUME SetIndexStatus(d, "ready"),
             IF job[j].todo = {d} THEN JobCompletes(j)
                                  ELSE job' = [job EXCEPT ![j].todo = @ \ {d}]
      PROVE  KeepInv'
  <2>1. /\ \A e \in Documents : StatusOf(e)' =
             IF e = d /\ StatusOf(e) # "absent" THEN "ready" ELSE StatusOf(e)
        /\ \A c \in ChunkId : LabelOf(c)' = LabelOf(c)
    BY <1>2, <1>4, <1>7, StatusEffect DEF IndexStatus
  <2>2. /\ job'[j].documents = job[j].documents
        /\ job'[j].phase \in {"ended", "marking"}
        /\ \A k \in Jobs : k # j => job'[k] = job[k]
    <3>1. CASE job[j].todo = {d}
      <4>1. JobCompletes(j) /\ job'[j].documents = job[j].documents
        BY <1>2, <1>7, <3>1 DEF JobCompletes, IndexTypes, JobState
      <4> QED
        BY <1>2, <4>1, JobMoved
    <3>2. CASE job[j].todo # {d}
      BY <1>1, <1>2, <1>7, <3>2, TodoMoves DEF Becomes, JobRow
    <3> QED
      BY <3>1, <3>2
  <2>3. \A e : NoUpload(e) => NoUpload(e)'
    BY <2>1, NoUploadStays
  <2>4. NoUpload(d) /\ NoUpload(d)'
    BY <1>1, <1>2, <1>4, <2>3 DEF JobKept
  <2>5. DocKept(d)
    BY <1>4 DEF KeepInv
  <2>6. \A c \in ChunkId : c.document = d /\ LabelOf(c)' # "absent" => Held(c)
    BY <2>1, <2>4, <2>5 DEF DocKept, NoUpload
  <2>7. upload[d].phase # "none" /\ \A e \in job[j].documents : upload'[e].phase # "none"
    BY <1>1, <1>2, <1>4 DEF JobKept
  <2>8. JobKept(j)'
    <3>1. \A c \in ChunkId : c.build = j /\ c.document \in job[j].documents => Held(c)'
      BY <1>1, <1>2, <1>5 DEF JobKept
    <3>2. \A e \in job[j].documents : NoUpload(e)'
      BY <1>1, <1>2, <2>3 DEF JobKept
    <3> QED
      BY <2>2, <2>7, <3>1, <3>2 DEF JobKept, ChunkId
  <2> QED
    BY <1>1, <1>4, <2>1, <2>2, <2>4, <2>6, <2>7, <2>8, WriteKeeps
<1> QED
  BY <1>1, <1>6, <1>7

LEMMA JobStepKeeps ==
  ASSUME KeepInv, BaseInv', NEW j \in Jobs, CreateJob(j) \/ JobStep(j)
  PROVE  KeepInv'
  BY CreateJobKeeps, ListForJobKeeps, ReplaceForJobKeeps, UpsertForJobKeeps,
     StoreForJobKeeps, MarkForJobKeeps DEF JobStep

-----------------------------------------------------------------------------
(* Searches, restarts, and the theorem *)

\* Steps that leave the tables, uploads and jobs alone.
LEMMA IdleKeeps ==
  ASSUME KeepInv, BaseInv', UNCHANGED <<knowledgeVars, upload, job>>,
         \A c : Held(c) => Held(c)'
  PROVE  KeepInv'
<1>1. /\ \A d \in Documents : StatusOf(d)' = StatusOf(d)
      /\ \A c \in ChunkId : LabelOf(c)' = LabelOf(c)
  BY KnowledgeSame
<1>2. \A d \in Documents : DocKept(d)' /\ UploadKept(d)'
  BY <1>1, DocStays, UploadStays DEF KeepInv
<1>3. \A d : NoUpload(d) => NoUpload(d)'
  BY <1>1, NoUploadStays
<1>4. \A j \in Jobs : JobKept(j)'
  BY <1>3, JobStays DEF KeepInv
<1> QED
  BY <1>2, <1>4 DEF KeepInv

LEMMA SearchKeeps ==
  ASSUME KeepInv, BaseInv', Search
  PROVE  KeepInv'
<1>1. /\ UNCHANGED <<knowledgeVars, upload, job, historyVars>>
      /\ \E o \in V!Look(vectors) : vectors' = o.store
  BY DEF Search, VectorCall
<1>2. StoreOk(vectors)
  BY DEF KeepInv, BaseInv
<1>3. PICK o \in V!Look(vectors) : vectors' = o.store
  BY <1>1
<1>4. Looked(vectors, o)
  BY <1>2, LookFacts
<1>5. \A c : Held(c) => Held(c)'
  BY <1>1, <1>3, <1>4, HeldLook
<1> QED
  BY <1>1, <1>5, IdleKeeps

LEMMA RestartKeeps ==
  ASSUME KeepInv, BaseInv', Restart
  PROVE  KeepInv'
<1>1. /\ UNCHANGED <<knowledgeVars, missed>> /\ vectors' = V!Reopened(vectors) /\ Takes
      /\ \A d \in Documents : upload[d].phase = "none" => upload'[d] = upload[d]
  BY DEF Restart, Uploading
<1>2. StoreOk(vectors) /\ IndexTypes
  BY DEF KeepInv, BaseInv
<1>3. \A c : Held(c) => Held(c)'
  BY <1>1, <1>2, HeldRestart
<1>4. /\ \A d \in Documents : StatusOf(d)' = StatusOf(d)
      /\ \A c \in ChunkId : LabelOf(c)' = LabelOf(c)
  BY <1>1, KnowledgeSame
<1>5. \A d : NoUpload(d) => NoUpload(d)'
  BY <1>4, NoUploadStays
<1>6. ASSUME NEW d \in Documents
      PROVE  DocKept(d)' /\ UploadKept(d)'
  <2>1. CASE upload'[d] = upload[d]
    BY <1>3, <1>4, <2>1, DocStays, UploadStays DEF KeepInv
  <2>2. CASE upload'[d].phase = "gone"
    <3>1. \A c \in ChunkId :
            (/\ c.document = d /\ LabelOf(c)' # "absent"
             /\ c.build # Upload \/ StatusOf(d)' = "ready") => Held(c)'
      BY <1>3, <1>4 DEF KeepInv, DocKept
    <3>2. DocKept(d)'
      BY <2>2, <3>1 DEF DocKept, ChunkId, Active
    <3> QED
      BY <2>2, <3>2, NothingWritten
  <2> QED
    BY <1>2, <2>1, <2>2, RestartMoves
<1>7. ASSUME NEW j \in Jobs
      PROVE  JobKept(j)'
  <2>1. CASE job'[j] = job[j]
    <3>1. job[j].documents \in SUBSET Documents /\ JobKept(j)
      BY <1>2, RowFacts DEF KeepInv
    <3>2. \A d \in job[j].documents : upload'[d].phase = "none" => upload[d].phase = "none"
      BY <1>2, <3>1, RestartMoves
    <3> QED
      BY <1>3, <1>5, <2>1, <3>1, <3>2, JobStays
  <2>2. CASE job'[j].phase = "gone"
    BY <2>2, IdleKept
  <2> QED
    BY <1>2, <2>1, <2>2, RestartMoves DEF JobRow
<1>8. (\A d \in Documents : DocKept(d)' /\ UploadKept(d)') /\ \A j \in Jobs : JobKept(j)'
  BY <1>6, <1>7
<1> QED
  BY <1>8 DEF KeepInv

LEMMA SameKeeps ==
  ASSUME KeepInv, BaseInv', UNCHANGED vars
  PROVE  KeepInv'
<1>1. UNCHANGED <<knowledgeVars, vectors, upload, job, historyVars>>
  BY DEF vars
<1> QED
  BY <1>1, HeldSame, IdleKeeps

LEMMA InitKeeps == Init => KeepInv
<1> SUFFICES ASSUME Init
             PROVE  KeepInv
  OBVIOUS
<1>1. BaseInv
  BY InitBase
<1>2. /\ \A d \in Documents : upload[d].phase = "none" /\ upload[d].chunk = 1
      /\ \A j \in Jobs : job[j].phase = "idle"
  BY DEF Init
<1>3. /\ \A d \in Documents : StatusOf(d) = "absent"
      /\ \A c \in ChunkId : LabelOf(c) = "absent"
  BY DEF Init, KnowledgeInit, EmptyTables, StatusOf, LabelOf
<1>4. \A d \in Documents : DocKept(d)
  BY <1>2, <1>3 DEF DocKept, Active
<1>5. \A d \in Documents : UploadKept(d)
  BY <1>2 DEF UploadKept, Wrote
<1>6. \A j \in Jobs : JobKept(j)
  BY <1>2 DEF JobKept
<1> QED
  BY <1>1, <1>4, <1>5, <1>6 DEF KeepInv

\* Whatever raises, restarts or overlaps, in a document that is ready the
\* vectors of all its chunks were written, and each is in the vector store,
\* where a search looks at it, unless replace_all or a restart took it or the
\* primary store of the two did not take it.
THEOREM ReadyStaysIndexed == Spec => []ReadyIsIndexed
<1>1. KeepInv /\ BaseInv' /\ [Next]_vars => KeepInv'
  <2> SUFFICES ASSUME KeepInv, BaseInv', [Next]_vars
               PROVE  KeepInv'
    OBVIOUS
  <2>1. CASE \E d \in Documents : StartUpload(d) \/ UploadStep(d)
    BY <2>1, StartUploadKeeps, UploadStepKeeps
  <2>2. CASE \E j \in Jobs : CreateJob(j) \/ JobStep(j)
    BY <2>2, JobStepKeeps
  <2>3. CASE Search
    BY <2>3, SearchKeeps
  <2>4. CASE Restart
    BY <2>4, RestartKeeps
  <2>5. CASE UNCHANGED vars
    BY <2>5, SameKeeps
  <2> QED
    BY <2>1, <2>2, <2>3, <2>4, <2>5 DEF Next
<1>2. KeepInv => ReadyIsIndexed
  <2> SUFFICES ASSUME KeepInv, NEW d \in Documents, StatusOf(d) = "ready",
                      NEW c \in GetDocumentChunks(d)
               PROVE  Held(c)
    BY DEF ReadyIsIndexed
  <2>1. DocKept(d) /\ c \in ChunkId /\ c.document = d /\ LabelOf(c) # "absent"
    BY DEF KeepInv, GetDocumentChunks
  <2> QED
    BY <2>1 DEF DocKept
<1> QED
  BY <1>1, <1>2, InitKeeps, IndexInvariant, PTL DEF Spec

=============================================================================
