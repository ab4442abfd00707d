CONSTANTS
  Pieces = 2
  MaxChunks = 5
  MaxPasses = 3
SPECIFICATION Spec
INVARIANT TypeAndLocksOK
PROPERTY StopEnds
CHECK_DEADLOCK FALSE
