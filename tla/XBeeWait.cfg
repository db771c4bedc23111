SPECIFICATION Spec
CONSTANTS
  NumSlots = 3
  WordBits = 2
  StartUp = TRUE
  Packets <- NoPackets
  ModemStatuses <- NoStatuses
  Garbles = FALSE
  Loses = FALSE
  MaxRequests = 2
  MaxFrames = 0
INVARIANT
  WaitedIsFilled
CHECK_DEADLOCK FALSE
