SPECIFICATION USpec
CONSTANTS
  Packages <- OnePackage
  AnonIds <- MCAnonIds
  Images <- OneImage
  Payloads <- OnePayload
  Scripts <- NoScripts
  MaxHandlers = 2
  Serial = FALSE
INVARIANT
  WholeCommands
CHECK_DEADLOCK FALSE
