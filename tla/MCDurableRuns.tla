---------------------------- MODULE MCDurableRuns ----------------------------
\* DurableRuns on small instances.
EXTENDS DurableRuns
=============================================================================
