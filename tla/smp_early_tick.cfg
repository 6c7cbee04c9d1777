SPECIFICATION FairSpec
CONSTANTS
  LastCore = 1
  EarlyTick = TRUE
PROPERTY LockReleased
CHECK_DEADLOCK FALSE
