SPECIFICATION Spec
CONSTANTS
  MaxDocuments = 2
  Jobs = {j1, j2}
  Upload = upload
  Builds = {j1, j2, upload}
  ChunksPerDocument = 1
  Hierarchical = TRUE
  MaxFaults = 2
SYMMETRY Symm
CHECK_DEADLOCK FALSE
INVARIANTS ReadyIsIndexed FailedLeavesNothing SameAnswers
