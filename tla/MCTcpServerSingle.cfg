CONSTANTS
  base = base
  io1 = io1
  io2 = io2
  Base = base
  Pool <- NoPool
  MaxConns = 2
  Fds = {7, 8}
  Threads = {}
  Sender <- ByCallbacks
  MaxPending = 0
  Callers = {"own", "cross"}
  ClientsWait = FALSE
  UserKeeps = FALSE
SPECIFICATION FairSpec
INVARIANTS
  NoAssertionFails
  NothingDangles
PROPERTIES
  ClosedIsDestroyed
