SPECIFICATION FairSpec
CONSTANTS
  p1 = p1
  p2 = p2
  p3 = p3
  Publishers = {p1, p2}
  MaxFailures = 3
  MaxAttempts = 2
INVARIANTS
  ClosedHasReason
  SessionOwnsClient
PROPERTIES
  FirstReasonWins
  DeadSessionEnds
CHECK_DEADLOCK FALSE
