CONSTANTS
  Pieces = 2
  MaxChunks = 5
  MaxPasses = 3
SPECIFICATION Spec
INVARIANT BankExclusive
CHECK_DEADLOCK FALSE
