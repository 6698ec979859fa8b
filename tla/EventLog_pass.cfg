SPECIFICATION LogSpec
CONSTANTS
  Items <- MCItems
  NoItem = none
  Capacity = 2
  CountModulus = 4
  EventIds <- MCEventIds
  Severity <- MCSeverity
  Aux <- MCAux
  MaxRaised = 5
INVARIANTS TypeOK OnlyWrittenSlots HistoryIsTheNewest CountersAgree SinkMissesNothing
PROPERTY ImplementsHistory
CHECK_DEADLOCK FALSE
