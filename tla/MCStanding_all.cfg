SPECIFICATION FairSpec
CONSTANTS
  k1 = k1
  Keys = {k1}
  NoKey = NoKey
  MaxTasks = 5
  MaxSessions = 2
  MaxStops = 2
  MaxLate = 1
INVARIANTS
  NoOrphan
  RegisteredAlive
  StopClosedOnce
PROPERTIES
  StopStops
  KeepsPolling
CHECK_DEADLOCK FALSE
