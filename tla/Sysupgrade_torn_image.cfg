SPECIFICATION Spec
CONSTANTS
  KeepConfig = {TRUE}
  MaxHandlers = 2
  MaxDrops = 1
  MaxRestarts = 0
  MaxFailures = 0
PROPERTY
  ExecsTestedImage
CHECK_DEADLOCK FALSE
