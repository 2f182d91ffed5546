SPECIFICATION Spec
CONSTANTS
  Searches = {s1, s2}
  Builds = {1, 2}
  Nested = {1}
  ChunksPerBuild = 2
  Candidates = 2
  WordHits = 2
  MaxEvidence = 2
  TopK = 2
SYMMETRY Symm
INVARIANTS FreshIndex NoForeignScores EvidenceOnce BestFirst
