CONSTANTS
  Threads = {t1, t2}
  Functors = {f1, f2, f3}
  IoChannels = {io}
  WakeupChannel = wakeup
SPECIFICATION FairSpec
INVARIANTS
  TypeOK
  NoLostWakeup
PROPERTIES
  BatchOnlyShrinks
  ImplementsExecutor
  QueuedIsExecuted
  BatchIsExecuted
  QuitStopsLoop
