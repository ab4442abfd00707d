CONSTANTS
  Senders <- MCSenders
  NSlots = 32
SPECIFICATION Spec
INVARIANTS
  TypeOK
  NeverStops
  FillsTheSlots
  ClksAreShifted
  Complements
  TwinsFit
CHECK_DEADLOCK FALSE
