SPECIFICATION Spec
CONSTANTS
  c1 = c1
  c2 = c2
  p1 = p1
  p2 = p2
  Cmds = {c1, c2}
  NoCmd = NoCmd
  Pkgs = {p1, p2}
  Touches <- MCTouches
  Base = Base
  MaxSeen = 2
  Window = 2
  MaxJobs = 2
  MaxSessions = 2
  MaxCrashes = 0
  DiskFaults = FALSE
INVARIANT
  ActiveWhileWaiting
CHECK_DEADLOCK FALSE
