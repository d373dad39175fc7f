SPECIFICATION Spec
CONSTANTS
  Writers = {w1, w2}
  MaxSize = 6
  MaxLines = 9
  MaxCrashes = 1
  NoFile = NoFile
INVARIANTS
  InOrder
  RecentKept
  PostTrimSurvives
  Bounded
CHECK_DEADLOCK FALSE
