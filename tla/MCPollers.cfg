CONSTANTS
  None = None
  Fds = {0, 1}
  Generations = 2
  Requests <- MCRequests
  Ready <- MCReady
  InitEventListSize = 1
SPECIFICATION Spec
INVARIANTS
  NothingFails
PROPERTIES
  EPollerImplementsDemux
  PollersAgree
