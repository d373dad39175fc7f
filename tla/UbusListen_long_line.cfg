SPECIFICATION ListenFairSpec
CONSTANTS
  LineKinds = {"match", "long"}
  PipeCap = 2
  LinesCap = 2
  QueueCap = 2
PROPERTY
  PipeNeverStalls
CHECK_DEADLOCK FALSE
