SPECIFICATION Spec
CONSTANTS
  KeepConfig = {FALSE}
  MaxHandlers = 3
  MaxDrops = 2
  MaxRestarts = 1
  MaxFailures = 0
INVARIANT
  FlashedOnce
CHECK_DEADLOCK FALSE
