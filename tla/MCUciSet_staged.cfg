SPECIFICATION USpec
CONSTANTS
  Packages <- OnePackage
  AnonIds <- MCAnonIds
  Images <- OneImage
  Payloads <- OnePayload
  Scripts <- AScripts
  MaxHandlers = 2
  Serial = TRUE
INVARIANT
  StagedStays
CHECK_DEADLOCK FALSE
