SPECIFICATION FairSpec
CONSTANTS
  MaxSessions = 2
  Backlog = 1
  HeaderBytes = 2
  MaxPacketBytes = 3
  RxBufferBytes = 4
  Sizes = {3}
  MaxSent <- MCMaxSent
INVARIANTS AlwaysRoom OnceAndInOrder CleanSessionIsFramed
PROPERTIES CommandsGetThrough PeerGoneIsNoticed
CHECK_DEADLOCK FALSE
