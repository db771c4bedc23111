SPECIFICATION Spec
CONSTANTS
  NumSlots = 2
  WordBits = 2
  StartUp = TRUE
  Packets <- AllPackets
  ModemStatuses <- Resets
  Garbles = TRUE
  Loses = TRUE
  MaxRequests = 3
  MaxFrames = 1
INVARIANTS
  TypeOK
PROPERTIES
  InOrderOnce
CHECK_DEADLOCK FALSE
