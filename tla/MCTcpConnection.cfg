CONSTANTS
  Threads = {t}
  InLoop = callback
  MaxSends = 2
  MessageSizes = {2}
  SockSize = 2
SPECIFICATION FairSpec
INVARIANTS
  TypeOK
PROPERTIES
  ImplementsStream
  WriteCompleteTold
  ShutdownSendsFin
  AcceptedIsWritten
