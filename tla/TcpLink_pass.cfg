SPECIFICATION Spec
CONSTANTS
  MaxSessions = 2
  Backlog = 1
  TxQueueBytes = 3
  SocketBytes = 2
  PacketSizes = {1, 2}
  MaxPackets = 5
INVARIANT NothingIsLost
PROPERTIES ImplementsChannel EventuallyRead
CHECK_DEADLOCK FALSE
