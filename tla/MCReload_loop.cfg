SPECIFICATION Spec
CONSTANTS
  PackageLists <- Lists
  TriggerSets <- Triggers
  TrackTables <- Tables
  ScriptSets <- Scripts
  EnabledSets <- Enabled
INVARIANTS
  DisabledOnlyByProcd
  ReloadedUnlessFirstDisabled
CHECK_DEADLOCK FALSE
