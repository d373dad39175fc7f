SPECIFICATION FairSpec
CONSTANTS
  c1 = c1
  c2 = c2
  p1 = p1
  p2 = p2
  Cmds = {c1}
  NoCmd = NoCmd
  Pkgs = {p1}
  Touches <- MCTouchesOne
  Base = Base
  MaxSeen = 2
  Window = 1
  MaxJobs = 2
  MaxSessions = 3
  MaxCrashes = 1
  DiskFaults = TRUE
PROPERTIES
  ImplementsCommitConfirm
  WatchdogResolves
  PendingAckDrains
  CommandsDrain
CHECK_DEADLOCK FALSE
