------------------------------ MODULE MCRunStore ------------------------------
\* RunStoreClient on a small instance.
EXTENDS RunStoreClient
=============================================================================
