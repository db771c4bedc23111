SPECIFICATION Spec
CONSTANTS
  NumSlots = 2
  WordBits = 2
  StartUp = FALSE
  Packets <- Requests
  ModemStatuses <- NoStatuses
  Garbles = FALSE
  Loses = FALSE
  MaxRequests = 2
  MaxFrames = 2
INVARIANT
  FreeArgumentValid
CHECK_DEADLOCK FALSE
