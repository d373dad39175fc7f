SPECIFICATION USpec
CONSTANTS
  Packages <- TwoPackages
  AnonIds <- MCAnonIds
  Images <- Images2
  Payloads <- Payloads2
  Scripts <- MCScripts
  MaxHandlers = 2
  Serial = TRUE
INVARIANTS
  AppliedExactly
  StageErrorChangesNothing
  NothingLeftStaged
  PackageWhole
  ScriptExact
CHECK_DEADLOCK FALSE
