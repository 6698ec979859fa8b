SPECIFICATION Spec
CONSTANTS
  MaxSessions = 2
  Backlog = 1
  HeaderBytes = 2
  MaxPacketBytes = 3
  RxBufferBytes = 4
  Sizes = {3}
  MaxSent <- MCMaxSent
INVARIANT NoSplice
CHECK_DEADLOCK FALSE
