SPECIFICATION Spec
CONSTANTS
  MaxDocuments = 2
  Jobs = {j1}
  Upload = upload
  Builds = {j1, upload}
  ChunksPerDocument = 2
  Hierarchical = TRUE
  MaxFaults = 0
SYMMETRY Symm
CHECK_DEADLOCK FALSE
INVARIANT ReadyHasVectors
