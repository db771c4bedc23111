SPECIFICATION PacketsSpec
CONSTANTS
  Radios = {r1, r2}
  OldRadios = {o1}
  MaxIds = 2
  MaxReplies = 1
  MaxAsked = 2
CHECK_DEADLOCK FALSE
INVARIANT SignalIsItsSensors
