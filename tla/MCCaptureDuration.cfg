CONSTANTS
  Timed = TRUE
  MaxChunks = 3
SPECIFICATION Spec
PROPERTY DurationEnds
CHECK_DEADLOCK FALSE
