------------------------------ MODULE MCChatRun ------------------------------
\* ChatRun on a small instance.
EXTENDS ChatRun
=============================================================================
