SPECIFICATION Spec
CONSTANTS
  HostKeys <- MCHostKeys
  DefaultPair <- MCDefault
  Replaced <- MCReplaced
  OtherPaths <- MCOther
  Commands <- MCCommands
  MaxHandlers = 2
  MaxRestarts = 1
  Hole = 0
  Corrupt = 97
  Factory = 99
INVARIANT
  NeverTorn
CHECK_DEADLOCK FALSE
