CONSTANTS
  base = base
  io1 = io1
  io2 = io2
  Base = base
  Pool <- NoPool
  MaxConns = 2
  Fds = {7}
  Threads = {t}
  Sender <- ByThread
  MaxPending = 1
  Callers = {}
  ClientsWait = FALSE
  UserKeeps = FALSE
SPECIFICATION Spec
INVARIANT ChannelsMatch
