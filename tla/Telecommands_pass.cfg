SPECIFICATION Spec
CONSTANTS
  SeqModulus = 3
  CountModulus = 2
  Frames <- MCFrames
  MaxFrames = 2
  MaxBuilt = 3
INVARIANTS LossIsVisible HandledIsAnswered StatisticsMatch
CHECK_DEADLOCK FALSE
