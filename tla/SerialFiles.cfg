SPECIFICATION Spec
CONSTANTS
  MaxFds = 3
  Names = {1, 2}
  FirstName = 1
  MaxFiles = 1
  MaxUnplugs = 2
  Watchdog = TRUE
CHECK_DEADLOCK FALSE
INVARIANTS TypeOK BetweenHeartbeats
