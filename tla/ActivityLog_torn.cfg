SPECIFICATION Spec
CONSTANTS
  Writers = {w1, w2}
  MaxSize = 6
  MaxLines = 9
  MaxCrashes = 1
  NoFile = NoFile
INVARIANT
  NeverTorn
CHECK_DEADLOCK FALSE
