SPECIFICATION FairSpec
CONSTANTS
  k1 = k1
  Keys = {k1}
  NoKey = NoKey
  MaxTasks = 2
  MaxSessions = 2
  MaxStops = 0
  MaxLate = 1
PROPERTY
  EndsWithSession
CHECK_DEADLOCK FALSE
