SPECIFICATION ListenFairSpec
CONSTANTS
  LineKinds = {"match", "other", "long"}
  PipeCap = 2
  LinesCap = 2
  QueueCap = 2
INVARIANTS
  NothingLeftBehind
PROPERTIES
  ReaderKeepsUp
  ListenStops
  Restarts
CHECK_DEADLOCK FALSE
