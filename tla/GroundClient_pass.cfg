SPECIFICATION GroundSpec
CONSTANTS
  Apids = {2047}
  Payloads = {13, 1017}
  Starts = {0, 16382}
  Params = 2
  ReportPayload = 23
  MaxBuilt = 2
INVARIANTS FramedExactly AnswersMatchUntilATimeout
PROPERTY EveryWaitEnds
CHECK_DEADLOCK FALSE
