CONSTANTS
  StartRequests = {r1, r2}
  StopRequests = {q1}
  LateAnswers = FALSE
SPECIFICATION Spec
INVARIANT StartReplaces
CHECK_DEADLOCK FALSE
