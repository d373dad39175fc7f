SPECIFICATION USpec
CONSTANTS
  Packages <- OnePackage
  AnonIds <- MCAnonIds
  Images <- OneImage
  Payloads <- OnePayload
  Scripts <- NoScripts
  MaxHandlers = 1
  Serial = TRUE
INVARIANT
  AppliedOrFailed
CHECK_DEADLOCK FALSE
