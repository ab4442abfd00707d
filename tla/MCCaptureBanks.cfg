CONSTANTS
  Timed = TRUE
  MaxChunks = 5
SPECIFICATION Spec
INVARIANTS
  TypeOK
  BankExclusive
  FileInOrder
PROPERTIES
  IsFifo
  ChunkIsStored
  InterruptEnds
CHECK_DEADLOCK FALSE
