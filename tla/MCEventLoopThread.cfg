CONSTANTS
  NumThreads = 3
  Threads = {t, u}
  MaxStarts = 4
SPECIFICATION FairSpec
INVARIANT ListensWhenReady
PROPERTY CallsReturn
CHECK_DEADLOCK FALSE
