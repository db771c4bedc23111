SPECIFICATION FairSpec
CONSTANTS
  NumSlots = 2
  WordBits = 2
  StartUp = FALSE
  Packets <- OnlyReports
  ModemStatuses <- NoStatuses
  Garbles = FALSE
  Loses = FALSE
  MaxRequests = 5
  MaxFrames = 5
INVARIANTS
  NoFault
  SlotExclusive
  PendingIsClaimed
  NoLeakedSlot
PROPERTIES
  SlotRecycled
  QueuedIsDispatched
