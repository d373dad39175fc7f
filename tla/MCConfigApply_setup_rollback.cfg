SPECIFICATION Spec
CONSTANTS
  c1 = c1
  c2 = c2
  p1 = p1
  p2 = p2
  Cmds = {c1}
  NoCmd = NoCmd
  Pkgs = {p1}
  Touches <- MCTouchesOne
  Base = Base
  MaxSeen = 2
  Window = 1
  MaxJobs = 1
  MaxSessions = 2
  MaxCrashes = 0
  DiskFaults = FALSE
PROPERTY
  RollbackOnlyOffline
CHECK_DEADLOCK FALSE
