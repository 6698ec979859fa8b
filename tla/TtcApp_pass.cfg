SPECIFICATION TtcSpec
CONSTANTS
  SeqModulus = 3
  CountModulus = 2
  Frames <- MCFrames
  MaxFrames = 2
  MaxBuilt = 3
  MaxSessions = 2
  Backlog = 1
  MaxQueued = 2
INVARIANTS AnswersStayInSession ReceivedIsParsed
CHECK_DEADLOCK FALSE
