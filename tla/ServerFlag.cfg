SPECIFICATION ServerSpec
CONSTANTS
  MaxFds = 3
  MaxContents = 2
  MaxCloses = 2
  MaxRefusals = 1
CHECK_DEADLOCK FALSE
INVARIANT FlagIsAboutThisSocket
