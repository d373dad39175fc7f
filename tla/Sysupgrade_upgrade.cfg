SPECIFICATION FairSpec
CONSTANTS
  KeepConfig = {TRUE, FALSE}
  MaxHandlers = 10
  MaxDrops = 2
  MaxRestarts = 2
  MaxFailures = 2
INVARIANTS
  FlashedAgainOnlyIfLost
  ReconnectsResume
PROPERTY
  UpgradeResolves
CHECK_DEADLOCK FALSE
