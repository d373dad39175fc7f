SPECIFICATION Spec
CONSTANTS
  PackageLists <- Lists
  TriggerSets <- Triggers
  TrackTables <- Tables
  ScriptSets <- Scripts
  EnabledSets <- Enabled
INVARIANT
  EveryPackageReloaded
CHECK_DEADLOCK FALSE
