CONSTANTS
  Threads = {t}
  MaxTimers = 2
  MaxTime = 2
  Intervals = {0, 1}
  Lag = 1
SPECIFICATION FairSpec
INVARIANTS
  TypeOK
  SetsAgree
  EachInOnePlace
  CancelledIsDeleted
  ArmedForTheFirst
PROPERTIES
  ExpiredIsCalled
