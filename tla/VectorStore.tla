----------------------------- MODULE VectorStore -----------------------------
(***************************************************************************)
(* The vector stores of app/rag/vector_store.py.                           *)
(*                                                                         *)
(* "memory" is a dictionary and never fails.  "qdrant_local" is one        *)
(* collection of a Qdrant database; a request to it may raise, before or   *)
(* after it took effect, but takes effect whole or not at all.  "qdrant"   *)
(* writes a dictionary first and then a collection on a server, and        *)
(* swallows what the server raises.                                        *)
(*                                                                         *)
(* An operation is a set of outcomes: the state after it, whether it       *)
(* raised, and how many faults it took to get there.                       *)
(***************************************************************************)
EXTENDS Integers, FiniteSets

CONSTANT Points \* chunk ids

\* QdrantBackedVectorStore: the collection on the server, and the client's
\* memory that it exists.
Collection == [points : SUBSET Points, exists : BOOLEAN, ready : BOOLEAN]

NoCollection == [points |-> {}, exists |-> FALSE, ready |-> FALSE]

Done(s) == [store |-> s, raised |-> FALSE, faults |-> 0]
Raised(s, n) == [store |-> s, raised |-> TRUE, faults |-> n]

\* What a collection with these points looks like to a client that wrote it.
Holding(S) == [points |-> S, exists |-> S # {}, ready |-> S # {}]

\* _ensure_collection trusts its flag.
EnsureCollection(q) ==
  IF q.ready THEN q ELSE [q EXCEPT !.exists = TRUE, !.ready = TRUE]

\* upsert: the collection is looked for and made unless the flag is set, then
\* the point is sent.  A request to a collection that is not there raises.
CollectionUpsert(q, c) ==
  LET made == EnsureCollection(q)
      full == [made EXCEPT !.points = @ \cup {c}]
      errors == {q, [q EXCEPT !.exists = TRUE], made, full}
  IN IF ~made.exists
       THEN {Raised(q, 0)}
       ELSE {Done(full)} \cup {Raised(s, 1) : s \in errors}

\* delete looks first whether the collection is there.
CollectionDelete(q, S) ==
  LET rest == [q EXCEPT !.points = @ \ S]
  IN IF q.exists
       THEN {Done(rest), Raised(q, 1), Raised(rest, 1)}
       ELSE {Done([q EXCEPT !.ready = FALSE]), Raised(q, 1)}

\* What _collection_exists leaves of the flag.
Seen(q) == [q EXCEPT !.ready = q.exists]

\* An error of that look, or of a request that follows it.
ReadErrors(q) == {Raised(q, 1)} \cup (IF q.exists THEN {Raised(Seen(q), 1)} ELSE {})

\* search and count.
CollectionLook(q) == {Done(Seen(q))} \cup ReadErrors(q)

\* _delete_collection, _ensure_collection and _upsert_points, in replace_all
\* and again in _restore_snapshot: what is there when one of their requests
\* raises.  The old points or no collection, then an empty one, then S.
RewriteErrors(q, S) ==
  LET deleting == {q, [NoCollection EXCEPT !.ready = q.ready]}
      filling == {NoCollection, [NoCollection EXCEPT !.exists = TRUE],
                  EnsureCollection(NoCollection), Holding(S)}
  IN IF S = {} THEN deleting ELSE deleting \cup filling

\* An error while the snapshot is taken changes nothing.  After a first error
\* later on the snapshot is written back, which a second error may stop.
CollectionReplaceAll(q, S) ==
  {Done(Holding(S))} \cup ReadErrors(q)
    \cup {Raised(Holding(q.points), 1)}
    \cup {Raised(s, 2) : s \in UNION {RewriteErrors(t, q.points) :
                                     t \in RewriteErrors(Seen(q), S)}}

-----------------------------------------------------------------------------
(* The store build_vector_store returns *)

Backend == {"memory", "qdrant_local", "qdrant"}

VectorState ==
  [backend : Backend, primary : Collection, fallback : SUBSET Points,
   available : BOOLEAN]

EmptyStore(backend) ==
  [backend |-> backend, primary |-> NoCollection, fallback |-> {},
   available |-> TRUE]

\* DualWriteFallbackVectorStore: the fallback becomes F, then the primary is
\* written; its error is only remembered.
Written(v, F, outcomes) ==
  {[store |-> [v EXCEPT !.fallback = F, !.primary = o.store,
                        !.available = ~o.raised],
    raised |-> FALSE, faults |-> o.faults] : o \in outcomes}

\* InMemoryVectorStore never raises.
MemoryWritten(v, F) == {Done([v EXCEPT !.fallback = F])}

LocalWritten(v, outcomes) ==
  {[o EXCEPT !.store = [v EXCEPT !.primary = o.store]] : o \in outcomes}

\* F: what a dictionary becomes.  outcomes: what the collection does.
Write(v, F, outcomes) ==
  CASE v.backend = "memory" -> MemoryWritten(v, F)
    [] v.backend = "qdrant_local" -> LocalWritten(v, outcomes)
    [] v.backend = "qdrant" -> Written(v, F, outcomes)

Upsert(v, c) == Write(v, v.fallback \cup {c}, CollectionUpsert(v.primary, c))
Delete(v, S) == Write(v, v.fallback \ S, CollectionDelete(v.primary, S))
ReplaceAll(v, S) == Write(v, S, CollectionReplaceAll(v.primary, S))

\* count and search of the dual store go to the primary while it is
\* believed to be available.
PrimaryLook(v) ==
  IF ~v.available THEN {Done(v)}
  ELSE {[store |-> [v EXCEPT !.primary = o.store, !.available = ~o.raised],
         raised |-> o.raised, faults |-> o.faults] :
          o \in CollectionLook(v.primary)}

Look(v) ==
  CASE v.backend = "memory" -> {Done(v)}
    [] v.backend = "qdrant_local" -> LocalWritten(v, CollectionLook(v.primary))
    [] v.backend = "qdrant" -> PrimaryLook(v)

\* The server process starts anew: dictionaries are empty.
Reopened(v) ==
  [v EXCEPT !.fallback = {}, !.available = TRUE, !.primary.ready = FALSE]

\* The vectors some copy has, and those a search looks at.
Vectors(v) == v.primary.points \cup v.fallback
Searched(v) == IF v.backend = "memory" THEN v.fallback ELSE v.primary.points
=============================================================================
