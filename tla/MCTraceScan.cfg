CONSTANTS
  Pulses = 3
  Spacing = 6
  Block = 3
  Blocks = 8
  Starts <- MCStarts
  Losses <- MCLosses
  HalfRange = 16
  OtherTimes <- MCOtherTimes
  FoundAfter <- MCFoundAfter
  RingBuffer = 4
SPECIFICATION ScanSpec
INVARIANTS
  ScanTypeOK
  DelayIsTrue
  CommonPulseLogged
  LogTimeIsFirst
  StartsAligned
  RunsHaveData
PROPERTIES
  TraceEnds
CHECK_DEADLOCK FALSE
