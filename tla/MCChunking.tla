------------------------------ MODULE MCChunking ------------------------------
EXTENDS Chunking

\* Blocks too small to join two paragraphs, and blocks that join them.
Tried == {[parent |-> 4, child |-> 2, overlap |-> o] : o \in 0..2}
           \cup {[parent |-> 6, child |-> 4, overlap |-> o] : o \in {0, 1}}
=============================================================================
