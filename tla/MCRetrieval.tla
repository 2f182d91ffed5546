----------------------------- MODULE MCRetrieval -----------------------------
\* Retrieval on a small instance.
EXTENDS Retrieval
Symm == Permutations(Searches)
=============================================================================
