SPECIFICATION USpec
CONSTANTS
  Packages <- OnePackage
  AnonIds <- MCAnonIds
  Images <- OneImage
  Payloads <- NoScripts
  Scripts <- AScripts
  MaxHandlers = 2
  Serial = TRUE
INVARIANT
  RedeliveredChangesNothing
CHECK_DEADLOCK FALSE
