SPECIFICATION FairSpec
CONSTANTS
  MaxFds = 3
  MaxContents = 2
  MaxCloses = 2
  MaxRefusals = 1
  NS = 4
  TimeoutSeconds = 1
  LeastWait = 1
  MaxSeconds = 3
  Servers = {1, 2, 3}
  FirstServer = 1
  Naps = 2
  Nap = 2
  MaxCrashes = 2
  MaxReceiverIds = 2
  Ids = {s1, s2}
  Limit = 2
  Block = 2
  Retries = 3
  Chunks = {1, 3, 7}
  MaxAnswer = 14
  Radios = {r1, r2}
  OldRadios = {o1}
  MaxIds = 2
  MaxReplies = 1
  MaxAsked = 1
  Bytes = {{}, {0}, {4}, {1, 3, 4, 6}, {7}, {0, 1, 2, 3, 4, 5, 6, 7}}
  MaxLength = 3
CHECK_DEADLOCK FALSE
INVARIANTS
  ServerTypeOK
  HeartbeatOnAckedSocket
  ContentsInOrder
  WatchdogTypeOK
  RestartIsDeserved
  UpdaterTypeOK
  ServerIsConfirmed
  LossNeedsCrashInStore
  MemoryIsStored
  AtMostOneId
  IdIsStored
  NullIsInAdd
  AnswerFits
  OutcomeIsEarned
  IdsAreDistinct
  IsTheRemainder
  ChangeIsNoticed
PROPERTIES
  Replaced
  QueuedLeaves
  VersionsAreChecked
  OnlyTheSilentAreMarked
  SilenceIsNoticed
  ReportingStaysActive
  ReportEnds
