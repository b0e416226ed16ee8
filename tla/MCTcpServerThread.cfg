CONSTANTS
  base = base
  io1 = io1
  io2 = io2
  Base = base
  Pool <- OneThread
  MaxConns = 2
  Fds = {7, 8}
  Threads = {t, u}
  Sender <- FirstByThread
  MaxPending = 2
  Callers = {"own"}
  ClientsWait = TRUE
  UserKeeps = TRUE
SPECIFICATION FairSpec
INVARIANTS
  NoAssertionFails
PROPERTIES
  DestroyedForGood
