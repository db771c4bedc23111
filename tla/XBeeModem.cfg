SPECIFICATION Spec
CONSTANTS
  NumSlots = 2
  WordBits = 2
  StartUp = FALSE
  Packets <- OnlyReports
  ModemStatuses <- Resets
  Garbles = FALSE
  Loses = FALSE
  MaxRequests = 2
  MaxFrames = 3
INVARIANT
  CompletesItsRequest
CHECK_DEADLOCK FALSE
