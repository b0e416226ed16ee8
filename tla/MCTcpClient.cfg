CONSTANTS
  None = None
  MaxRetryDelay = 3
  TimerIds = {1, 2, 3, 4}
  Threads = {t, u}
  EnableRetry = TRUE
  MaxConnects = 1
  MaxCalls = 3
SPECIFICATION FairSpec
INVARIANTS
  NoAssertionFails
  NothingDangles
PROPERTIES
  StopIsFinal
  TriesAgain
CHECK_DEADLOCK FALSE
