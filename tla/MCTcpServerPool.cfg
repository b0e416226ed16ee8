CONSTANTS
  base = base
  io1 = io1
  io2 = io2
  Base = base
  Pool <- OneThread
  MaxConns = 2
  Fds = {7, 8}
  Threads = {}
  Sender <- ByCallbacks
  MaxPending = 0
  Callers = {"own"}
  ClientsWait = FALSE
  UserKeeps = FALSE
SPECIFICATION FairSpec
INVARIANTS
  TypeOK
  NoAssertionFails
  NothingDangles
  MapAgrees
PROPERTIES
  ClosedIsDestroyed
