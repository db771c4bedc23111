SPECIFICATION FairSpec
CONSTANTS
  NumSlots = 2
  WordBits = 2
  StartUp = TRUE
  Packets <- OnlyReports
  ModemStatuses <- NoStatuses
  Garbles = FALSE
  Loses = FALSE
  MaxRequests = 3
  MaxFrames = 1
INVARIANTS
  WaitIsOwed
PROPERTIES
  MainProceeds
  
CHECK_DEADLOCK FALSE
