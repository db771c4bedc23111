SPECIFICATION FairSpec
CONSTANTS
  MaxFds = 3
  Names = {1, 2}
  FirstName = 1
  MaxFiles = 0
  MaxUnplugs = 1
  Watchdog = FALSE
CHECK_DEADLOCK FALSE
PROPERTIES HeartbeatEnds Recovers
