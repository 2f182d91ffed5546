--------------------------- MODULE MCDocumentIndex ---------------------------
\* DocumentIndex on a small instance.
EXTENDS DocumentIndex, TLC
Symm == Permutations(Jobs)
=============================================================================
