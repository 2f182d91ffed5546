SPECIFICATION SplitSpec
CONSTANTS
  MaxLength = 6
  Settings <- Tried
CHECK_DEADLOCK FALSE
INVARIANTS WordsOnceOver WithinSize OffsetsExact
PROPERTY SplitEnds
