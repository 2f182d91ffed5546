------------------------------ MODULE Retrieval ------------------------------
(***************************************************************************)
(* Searches of the knowledge base (app/rag/retriever.py,                   *)
(* advanced_retriever.py, parent_aggregation.py, reranker.py) next to an   *)
(* upload or a reindex job.                                                *)
(*                                                                         *)
(* One KnowledgeRetriever, one ParentChildRetriever and one                *)
(* FallbackEmbeddingProvider serve the whole process, while searches run   *)
(* in the threads of asyncio.to_thread (app/tools/executor.py), uploads on *)
(* the event loop and a reindex job in a thread of its own.  What they     *)
(* share is the stores, the attribute _last_embedding_signature and the    *)
(* attributes _bm25_index and _bm25_fingerprint; no lock guards the last   *)
(* three.  One action is one access to what is shared.                     *)
(*                                                                         *)
(* Relevance is data: a search finds its matches in any order, and any of  *)
(* the chunks by their words.                                              *)
(***************************************************************************)
EXTENDS Integers, FiniteSets, Sequences, SequencesExt

CONSTANTS
  Searches,       \* threads that search
  Builds,         \* index builds: the first is there, the second is made
  Nested,         \* those cut into parent blocks and children
  ChunksPerBuild, \* chunks (children) of a build, with one parent block
  Candidates,     \* vector_top_k and bm25_top_k: matches a search asks for
  WordHits,       \* bound: chunks a hybrid search finds by words; the code has none
  MaxEvidence,    \* max_evidence_children
  TopK            \* top_k

ASSUME RetrievalAssumption ==
  /\ Builds = {1, 2} /\ Nested \subseteq Builds
  /\ {ChunksPerBuild, Candidates, WordHits, MaxEvidence, TopK} \subseteq Nat \ {0}

Chunk == [build : Builds, index : 1..ChunksPerBuild]
Parent == [build : Builds, index : {0}]
Embedder == {"primary", "fallback"}
ChunksOf(b) == {c \in Chunk : c.build = b}

VARIABLES
  rows,        \* chunks of the knowledge store: their label, or "absent"
  vectors,     \* points of the vector store: who computed them, or "absent"
  last,        \* FallbackEmbeddingProvider._last_embedding_signature
  index,       \* ParentChildRetriever._bm25_index: the chunks it was built of
  fingerprint, \* ParentChildRetriever._bm25_fingerprint
  search,      \* the search of each thread
  writer,      \* the upload or reindex job that makes the second build
  mixed,       \* history: an embedding call came between the call of another
               \* thread and its reading of the signature
  raced        \* history: the index was written while another thread was in
               \* _get_bm25_index

vars == <<rows, vectors, last, index, fingerprint, search, writer, mixed, raced>>

\* A chunk or parent block with what supports it: the evidence in order of
\* discovery, the best rank of each list, 0 for none.
Candidate ==
  [id : Chunk \cup Parent, evidence : Seq(Chunk), vrank : Nat, lrank : Nat]

Search ==
  [pc : {"idle", "embed", "sign", "match", "filter", "list", "build",
         "mark", "find", "gather", "parent", "rank", "answered"},
   strategy : {"hybrid", "parent_child", "parent_child_rerank"},
   producer : Embedder, signature : Embedder,
   matches : SUBSET Chunk, vector : Seq(Chunk),
   chunks : SUBSET Chunk, lexical : Seq(Chunk),
   next : Nat, candidates : Seq(Candidate), followed : {"yes", "no"}]

NoSearch ==
  [pc |-> "idle", strategy |-> "hybrid", producer |-> "primary",
   signature |-> "primary", matches |-> {}, vector |-> <<>>, chunks |-> {},
   lexical |-> <<>>, next |-> 1, candidates |-> <<>>, followed |-> "no"]

Writer ==
  [kind : {"none", "upload", "reindex", "over"},
   pc : {"idle", "embed", "sign", "upsert", "label", "replace", "store",
         "delete", "unlabel"},
   producer : Embedder, signature : Embedder, next : 1..ChunksPerBuild]

NoWriter(kind) ==
  [kind |-> kind, pc |-> "idle", producer |-> "primary",
   signature |-> "primary", next |-> 1]

Stored == {c \in Chunk : rows[c] # "absent"}
Points == {c \in Chunk : vectors[c] # "absent"}

TypeOK ==
  /\ rows \in [Chunk -> Embedder \cup {"none", "absent"}]
  /\ vectors \in [Chunk -> Embedder \cup {"absent"}]
  /\ last \in Embedder
  /\ index \subseteq Chunk /\ fingerprint \subseteq Chunk
  /\ search \in [Searches -> Search]
  /\ \A s \in Searches :
       /\ search[s].next <= 2 * Candidates + 1
       /\ search[s].pc = "answered" =>
            /\ Len(search[s].candidates) <= TopK
            /\ \A i \in DOMAIN search[s].candidates :
                 Len(search[s].candidates[i].evidence) \in 1..MaxEvidence
  /\ writer \in Writer
  /\ mixed \in BOOLEAN /\ raced \in BOOLEAN

\* The first build was indexed with one of the two embedders.  No index of
\* words has been built yet: an empty one, whose fingerprint is ().
Init ==
  /\ \E e \in Embedder :
       /\ vectors = [c \in Chunk |-> IF c.build = 1 THEN e ELSE "absent"]
       /\ rows = [c \in Chunk |-> IF c.build = 1 THEN e ELSE "absent"]
       /\ last = e
  /\ index = {} /\ fingerprint = {}
  /\ search = [s \in Searches |-> NoSearch]
  /\ writer = NoWriter("none")
  /\ mixed = FALSE /\ raced = FALSE

-----------------------------------------------------------------------------
(* FallbackEmbeddingProvider *)

\* embed_query or embed_passages returns: of the primary provider, or of the
\* fallback when that raised.
Embeds(e) ==
  /\ last' = e
  /\ mixed' = (mixed \/ writer.pc = "sign" \/ \E s \in Searches : search[s].pc = "sign")

\* is_compatible_signature
IsCompatible(label, signature) == label = signature

-----------------------------------------------------------------------------
(* The writer: DocumentService.create_document, reindex_documents *)

WriterGoesTo(pc) == writer' = [writer EXCEPT !.pc = pc]
WriterEnds == writer' = NoWriter("over")

\* The document is stored first; its chunks have no label.
StartUpload ==
  /\ writer.kind = "none"
  /\ rows' = [c \in Chunk |-> IF c.build = 2 THEN "none" ELSE rows[c]]
  /\ writer' = [writer EXCEPT !.kind = "upload", !.pc = "embed"]
  /\ UNCHANGED <<vectors, last, index, fingerprint, search, mixed, raced>>

StartReindex ==
  /\ writer.kind = "none"
  /\ writer' = [writer EXCEPT !.kind = "reindex", !.pc = "embed"]
  /\ UNCHANGED <<rows, vectors, last, index, fingerprint, search, mixed, raced>>

EmbedPassages ==
  /\ writer.pc = "embed"
  /\ \E e \in Embedder :
       Embeds(e) /\ writer' = [writer EXCEPT !.pc = "sign", !.producer = e]
  /\ UNCHANGED <<rows, vectors, index, fingerprint, search, raced>>

\* Mutant of SignPassages: the signature the provider is configured with.
SignPassages_Configured ==
  /\ writer.pc = "sign"
  /\ writer' = [writer EXCEPT
       !.pc = IF writer.kind = "upload" THEN "upsert" ELSE "replace",
       !.signature = "primary"]
  /\ UNCHANGED <<rows, vectors, last, index, fingerprint, search, mixed, raced>>

\* embedding_signature = last_embedding_signature
SignPassages ==
  /\ writer.pc = "sign"
  /\ writer' = [writer EXCEPT
       !.pc = IF writer.kind = "upload" THEN "upsert" ELSE "replace",
       !.signature = last]
  /\ UNCHANGED <<rows, vectors, last, index, fingerprint, search, mixed, raced>>

NextChunk == [build |-> 2, index |-> writer.next]

\* The vector of the next chunk, then its label; an upsert may raise.
UpsertChunk ==
  /\ writer.pc = "upsert"
  /\ \/ /\ vectors' = [vectors EXCEPT ![NextChunk] = writer.producer]
        /\ WriterGoesTo("label")
     \/ WriterGoesTo("delete") /\ UNCHANGED vectors
  /\ UNCHANGED <<rows, last, index, fingerprint, search, mixed, raced>>

LabelChunk ==
  /\ writer.pc = "label"
  /\ rows' = [rows EXCEPT ![NextChunk] = writer.signature]
  /\ IF writer.next = ChunksPerBuild
       THEN WriterEnds
       ELSE writer' = [writer EXCEPT !.pc = "upsert", !.next = @ + 1]
  /\ UNCHANGED <<vectors, last, index, fingerprint, search, mixed, raced>>

\* _rollback_chunk_vectors, whose own failure is ignored; then the labels.
RollBackVectors ==
  /\ writer.pc = "delete"
  /\ writer' = [writer EXCEPT !.pc = "unlabel", !.next = 1]
  /\ vectors' \in {vectors, [c \in Chunk |-> IF c.build = 2 THEN "absent" ELSE vectors[c]]}
  /\ UNCHANGED <<rows, last, index, fingerprint, search, mixed, raced>>

UnlabelChunk ==
  /\ writer.pc = "unlabel"
  /\ rows' = [rows EXCEPT ![NextChunk] = "none"]
  /\ IF writer.next = ChunksPerBuild
       THEN WriterEnds
       ELSE writer' = [writer EXCEPT !.next = @ + 1]
  /\ UNCHANGED <<vectors, last, index, fingerprint, search, mixed, raced>>

\* replace_all and add_document of a reindex job: the document keeps its
\* name, its chunks and parent blocks are new ones.
ReplaceVectors ==
  /\ writer.pc = "replace"
  /\ vectors' = [c \in Chunk |-> IF c.build = 2 THEN writer.producer ELSE "absent"]
  /\ WriterGoesTo("store")
  /\ UNCHANGED <<rows, last, index, fingerprint, search, mixed, raced>>

StoreChunks ==
  /\ writer.pc = "store"
  /\ rows' = [c \in Chunk |-> IF c.build = 2 THEN writer.signature ELSE "absent"]
  /\ WriterEnds
  /\ UNCHANGED <<vectors, last, index, fingerprint, search, mixed, raced>>

WriterStep ==
  \/ StartUpload \/ StartReindex \/ EmbedPassages \/ SignPassages
  \/ UpsertChunk \/ LabelChunk \/ RollBackVectors \/ UnlabelChunk
  \/ ReplaceVectors \/ StoreChunks

-----------------------------------------------------------------------------
(* KnowledgeRetriever.search and ParentChildRetriever.search *)

Becomes(s, q) == search' = [search EXCEPT ![s] = q]
SearchGoesTo(s, pc) == Becomes(s, [search[s] EXCEPT !.pc = pc])

\* What a search ranks first, and whether it wants a reranker, is up to its
\* query; the model chooses it where it comes to matter.
Rankings(S, n) ==
  UNION {{q \in [1..m -> S] : IsInjective(q)} : m \in 0..n}

\* Bound: a search is followed to its answer when no other one runs from
\* its reading of the signature on; otherwise only its accesses to what
\* searches change are, and it has no answer.  What a search does between
\* them only reads the stores.
Alone(s) == \A t \in Searches \ {s} : search[t].pc = "idle"
Followed == {s \in Searches : search[s].followed = "yes"}

Forget(s) == Becomes(s, NoSearch)

StartSearch(s, strategy) ==
  /\ search[s].pc \in {"idle", "answered"} /\ Followed \subseteq {s}
  /\ Becomes(s, [NoSearch EXCEPT
       !.pc = IF strategy = "hybrid" THEN "list" ELSE "embed",
       !.strategy = strategy])
  /\ UNCHANGED <<rows, vectors, last, index, fingerprint, writer, mixed, raced>>

EmbedQuery(s) ==
  /\ search[s].pc = "embed"
  /\ \E e \in Embedder :
       Embeds(e) /\ Becomes(s, [search[s] EXCEPT !.pc = "sign", !.producer = e])
  /\ UNCHANGED <<rows, vectors, index, fingerprint, writer, raced>>

\* query_signature = last_embedding_signature
SignQuery(s) ==
  /\ search[s].pc = "sign"
  /\ \/ /\ Alone(s)
        /\ Becomes(s, [search[s] EXCEPT !.pc = "match", !.signature = last,
                                        !.followed = "yes"])
     \/ IF search[s].strategy = "hybrid" THEN Forget(s)
        ELSE Becomes(s, [search[s] EXCEPT !.pc = "list", !.producer = "primary"])
  /\ UNCHANGED <<rows, vectors, last, index, fingerprint, writer, mixed, raced>>

\* VectorStore.search: at most top_k, and none below MIN_VECTOR_SCORE.
MatchVectors(s) ==
  /\ search[s].pc = "match"
  /\ \E S \in {S \in SUBSET Points : Cardinality(S) <= Candidates} :
       Becomes(s, [search[s] EXCEPT !.pc = "filter", !.matches = S])
  /\ UNCHANGED <<rows, vectors, last, index, fingerprint, writer, mixed, raced>>

\* The next match: its chunk may be gone, or its vector may not compare.
FilterMatch(s) ==
  /\ search[s].pc = "filter" /\ search[s].matches # {}
  /\ \E c \in search[s].matches :
       Becomes(s, [search[s] EXCEPT
         !.matches = @ \ {c},
         !.vector = IF c \in Stored /\ IsCompatible(rows[c], search[s].signature)
                      THEN Append(@, c) ELSE @])
  /\ UNCHANGED <<rows, vectors, last, index, fingerprint, writer, mixed, raced>>

\* After the last match.  A hybrid search goes on with candidate_ids: what
\* it found by vectors and, of all the chunks it read first, by words.
FilteredAll(s) ==
  /\ search[s].pc = "filter" /\ search[s].matches = {}
  /\ IF search[s].strategy = "hybrid"
       THEN \E q \in Rankings(search[s].chunks, WordHits) :
              Becomes(s, [search[s] EXCEPT
                !.pc = "gather", !.lexical = q, !.chunks = {},
                !.matches = ToSet(search[s].vector) \cup ToSet(q)])
       ELSE Becomes(s, [search[s] EXCEPT !.pc = "list", !.producer = "primary",
                                         !.signature = "primary"])
  /\ UNCHANGED <<rows, vectors, last, index, fingerprint, writer, mixed, raced>>

-----------------------------------------------------------------------------
(* ParentChildRetriever._get_bm25_index *)

\* get_chunks; a hybrid search begins with it.
ListChunks(s) ==
  /\ search[s].pc = "list"
  /\ Becomes(s, [search[s] EXCEPT
       !.pc = IF search[s].strategy = "hybrid" THEN "embed" ELSE "build",
       !.chunks = Stored])
  /\ UNCHANGED <<rows, vectors, last, index, fingerprint, writer, mixed, raced>>

\* Mutant of IsFresh: only the number of chunks is compared.
IsFresh_SameSize(chunks) == Cardinality(fingerprint) = Cardinality(chunks)

IsFresh(chunks) == fingerprint = chunks

BuildIndex(s) ==
  /\ search[s].pc = "build"
  /\ IF IsFresh(search[s].chunks)
       THEN SearchGoesTo(s, "find") /\ UNCHANGED <<index, raced>>
       ELSE /\ SearchGoesTo(s, "mark")
            /\ index' = search[s].chunks
            /\ raced' = (raced \/ \E t \in Searches \ {s} :
                                    search[t].pc \in {"build", "mark", "find"})
  /\ UNCHANGED <<rows, vectors, last, fingerprint, writer, mixed>>

MarkIndex(s) ==
  /\ search[s].pc = "mark"
  /\ fingerprint' = search[s].chunks
  /\ SearchGoesTo(s, "find")
  /\ UNCHANGED <<rows, vectors, last, index, writer, mixed, raced>>

\* The index is read again where it is returned; Bm25Index.search finds
\* chunks with the words of the query.
FindWords(s) ==
  /\ search[s].pc = "find"
  /\ IF search[s].followed = "yes"
       THEN \E q \in Rankings(index, Candidates) :
              Becomes(s, [search[s] EXCEPT
                !.pc = "gather", !.lexical = q, !.chunks = {}])
       ELSE Forget(s)
  /\ UNCHANGED <<rows, vectors, last, index, fingerprint, writer, mixed, raced>>

-----------------------------------------------------------------------------
(* aggregate_parent_candidates: the vector signals, then those of BM25 *)

Signals(s) == search[s].vector \o search[s].lexical

\* The larger reciprocal rank is that of the smaller rank; 0 is none.
BestRank(old, new) == IF old = 0 \/ (new # 0 /\ new < old) THEN new ELSE old

\* Mutant of AddEvidence: a chunk found twice is evidence twice.
AddEvidence_Again(q, c) == Append(q, c)

AddEvidence(q, c) == IF Contains(q, c) THEN q ELSE Append(q, c)

\* _get_or_create_accumulator, add_evidence and the best ranks.
Supported(cs, id, c, vrank, lrank) ==
  LET known == {i \in DOMAIN cs : cs[i].id = id} IN
  IF known = {}
    THEN Append(cs, [id |-> id, evidence |-> <<c>>, vrank |-> vrank, lrank |-> lrank])
    ELSE [i \in DOMAIN cs |->
            IF i \notin known THEN cs[i]
            ELSE [cs[i] EXCEPT
                    !.evidence = AddEvidence(@, c),
                    !.vrank = BestRank(@, vrank), !.lrank = BestRank(@, lrank)]]

\* get_chunk; a chunk that is gone is skipped.
GatherSignal(s) ==
  /\ search[s].pc = "gather" /\ search[s].strategy # "hybrid"
  /\ IF search[s].next > Len(Signals(s)) THEN SearchGoesTo(s, "rank")
     ELSE IF Signals(s)[search[s].next] \in Stored THEN SearchGoesTo(s, "parent")
     ELSE Becomes(s, [search[s] EXCEPT !.next = @ + 1])
  /\ UNCHANGED <<rows, vectors, last, index, fingerprint, writer, mixed, raced>>

\* get_parent_block: a chunk without a parent block stands for itself.
FindParent(s) ==
  LET i == search[s].next
      c == Signals(s)[i]
      n == Len(search[s].vector)
      parent == c.build \in Nested /\ ChunksOf(c.build) \cap Stored # {}
      id == IF parent THEN [build |-> c.build, index |-> 0] ELSE c
  IN /\ search[s].pc = "parent"
     /\ Becomes(s, [search[s] EXCEPT
          !.pc = "gather", !.next = i + 1,
          !.candidates = Supported(@, id, c, IF i <= n THEN i ELSE 0,
                                             IF i <= n THEN 0 ELSE i - n)])
     /\ UNCHANGED <<rows, vectors, last, index, fingerprint, writer, mixed, raced>>

\* The hybrid search: get_chunk for each candidate.  candidate_ids is a set,
\* whose order only decides between equal scores; the model takes one.
RankIn(q, c) == IF Contains(q, c) THEN CHOOSE i \in DOMAIN q : q[i] = c ELSE 0
First(S) == CHOOSE c \in S : \A d \in S :
              c.build < d.build \/ (c.build = d.build /\ c.index <= d.index)

GatherCandidate(s) ==
  LET c == First(search[s].matches) IN
  /\ search[s].pc = "gather" /\ search[s].strategy = "hybrid"
  /\ IF search[s].matches = {}
       THEN SearchGoesTo(s, "rank")
       ELSE Becomes(s, [search[s] EXCEPT
              !.matches = @ \ {c},
              !.candidates =
                IF c \in Stored
                  THEN Append(@, [id |-> c, evidence |-> <<c>>,
                                  vrank |-> RankIn(search[s].vector, c),
                                  lrank |-> RankIn(search[s].lexical, c)])
                  ELSE @])
  /\ UNCHANGED <<rows, vectors, last, index, fingerprint, writer, mixed, raced>>

-----------------------------------------------------------------------------
(* The order of the hits *)

RrfConstant == 60

Atmost(q, n) == SubSeq(q, 1, IF Len(q) < n THEN Len(q) ELSE n)

\* Mutant of Fused: without a rank the reciprocal is that of rank 0.
Fused_MissingIsBest(c, vweight, lweight) ==
  LET denominator == (RrfConstant + c.vrank) * (RrfConstant + c.lrank)
      numerator == 10000 * (vweight * (RrfConstant + c.lrank)
                            + lweight * (RrfConstant + c.vrank))
  IN (2 * numerator + denominator) \div (2 * denominator)

\* Weighted reciprocal ranks in millionths, rounded; weights in hundredths.
Fused(c, vweight, lweight) ==
  LET v == IF c.vrank = 0 THEN 0 ELSE vweight
      l == IF c.lrank = 0 THEN 0 ELSE lweight
      denominator == (RrfConstant + c.vrank) * (RrfConstant + c.lrank)
      numerator == 10000 * (v * (RrfConstant + c.lrank) + l * (RrfConstant + c.vrank))
  IN (2 * numerator + denominator) \div (2 * denominator)

Bonus(c) == 10000 * (IF Len(c.evidence) < MaxEvidence THEN Len(c.evidence) ELSE MaxEvidence)

Score(strategy, c) ==
  IF strategy = "hybrid" THEN Fused(c, 70, 30) ELSE Fused(c, 55, 45) + Bonus(c)

\* sort(key=score, reverse=True) is stable: equal scores keep their order.
Before(strategy, cs, i, j) ==
  \/ Score(strategy, cs[i]) > Score(strategy, cs[j])
  \/ Score(strategy, cs[i]) = Score(strategy, cs[j]) /\ i < j
Sorted(strategy, cs) ==
  LET order == CHOOSE p \in [DOMAIN cs -> DOMAIN cs] :
                 \A i, j \in DOMAIN cs : i < j => Before(strategy, cs, p[i], p[j])
  IN [i \in DOMAIN cs |-> cs[order[i]]]

\* What the search returns: top_k of the hits, each with the first evidence.
Answer(strategy, cs) ==
  [NoSearch EXCEPT
    !.pc = "answered", !.strategy = strategy, !.followed = "yes",
    !.candidates = [i \in 1..Len(Atmost(cs, TopK)) |->
      [cs[i] EXCEPT !.evidence = Atmost(@, MaxEvidence)]]]

\* A cross encoder gives any scores; its failure leaves the order as it is,
\* or is raised when it comes from the second call of predict.
Rank(s) ==
  LET cs == Sorted(search[s].strategy, search[s].candidates) IN
  /\ search[s].pc = "rank"
  /\ \/ Becomes(s, Answer(search[s].strategy, cs))
     \/ /\ search[s].strategy = "parent_child"
        /\ \/ \E p \in {p \in [DOMAIN cs -> DOMAIN cs] : IsInjective(p)} :
                Becomes(s, Answer("parent_child_rerank", [i \in DOMAIN cs |-> cs[p[i]]]))
           \/ Forget(s)
  /\ UNCHANGED <<rows, vectors, last, index, fingerprint, writer, mixed, raced>>

SearchStep(s) ==
  \/ EmbedQuery(s) \/ SignQuery(s) \/ MatchVectors(s)
  \/ FilterMatch(s) \/ FilteredAll(s)
  \/ ListChunks(s) \/ BuildIndex(s) \/ MarkIndex(s) \/ FindWords(s)
  \/ GatherSignal(s) \/ FindParent(s) \/ GatherCandidate(s) \/ Rank(s)

Next ==
  \/ WriterStep
  \/ \E s \in Searches :
       \/ StartSearch(s, "parent_child")
       \/ StartSearch(s, "hybrid")
       \/ SearchStep(s)

Spec == Init /\ [][Next]_vars

-----------------------------------------------------------------------------
\* A search by words uses an index of exactly the chunks it read from the
\* store, unless another thread rebuilt the index while one was in
\* _get_bm25_index.  (Then fingerprint and index may come from different
\* threads, and the old index stays until the chunks change again.)
FreshIndex ==
  ~raced => \A s \in Searches :
    search[s].pc = "find" => index = search[s].chunks

\* A label names the embedder of its vector, and a vector score that counts
\* compares vectors of one embedder, also while labels are being written,
\* undone or replaced; unless another thread called the embedder between an
\* embedding and the reading of its signature.
LabelsTrue ==
  \A c \in Stored \cap Points : rows[c] # "none" => rows[c] = vectors[c]
OneEmbedder(s) ==
  \A c \in ToSet(search[s].vector) \cap Points : vectors[c] = search[s].producer

NoForeignScores ==
  ~mixed => /\ LabelsTrue
            /\ \A s \in Searches : search[s].pc = "filter" => OneEmbedder(s)

\* A chunk supports a hit once, which is its parent block or itself, and no
\* two hits are one.  A chunk supports both only if it has left the store in
\* the meantime: then two looks at the store saw two things.
EvidenceOnce ==
  \A s \in Searches : LET cs == search[s].candidates IN
    \A i, j \in DOMAIN cs :
      /\ IsInjective(cs[i].evidence)
      /\ \A c \in ToSet(cs[i].evidence) :
           cs[i].id \in {c, [build |-> c.build, index |-> 0]}
      /\ i # j =>
           /\ cs[i].id # cs[j].id
           /\ ToSet(cs[i].evidence) \cap ToSet(cs[j].evidence) \cap Stored = {}

\* Without a reranker no hit stands behind one that it beats in both lists,
\* unless that one shows more evidence, or both are hits of a hybrid search,
\* with a rank beyond FarRank, whose scores six digits do not tell apart.
Ahead(r, q) == r # 0 /\ (q = 0 \/ r < q)
AsGood(r, q) == r = q \/ Ahead(r, q)
Beats(c, d) ==
  /\ AsGood(c.vrank, d.vrank) /\ AsGood(c.lrank, d.lrank)
  /\ c.vrank # d.vrank \/ c.lrank # d.lrank
  /\ Len(c.evidence) >= Len(d.evidence)

FarRank == 488
RoundedAlike(c, d) ==
  /\ Fused(c, 70, 30) = Fused(d, 70, 30)
  /\ \E r \in {c.vrank, c.lrank, d.vrank, d.lrank} : r > FarRank

BestFirst ==
  \A s \in Searches :
    (search[s].pc = "answered" /\ search[s].strategy # "parent_child_rerank") =>
      LET cs == search[s].candidates IN
      \A i, j \in DOMAIN cs : i < j /\ Beats(cs[j], cs[i]) =>
        search[s].strategy = "hybrid" /\ RoundedAlike(cs[i], cs[j])
=============================================================================
