CONSTANTS
  StartRequests = {r1, r2, r3}
  StopRequests = {r1, r2, r3}
  LateAnswers = TRUE
SPECIFICATION FairSpec
INVARIANTS TypeOK OneAtATime Reachable LeavesNothing
PROPERTIES RequestsEnd StopSilences
CHECK_DEADLOCK FALSE
