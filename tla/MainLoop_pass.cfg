SPECIFICATION LoopSpec
CONSTANTS
  Requests <- MCRequests
  MaxTasks = 2
  Period = 2
  LoadWindow = 2
  TickModulus = 64
  MaxTicks = 3
  MaxExec = 4
  MaxOverhead = 1
  EarlyWake = 1
  LateWake = 1
  UnitsPerMilli = 1
  ResetModulus = 8
  Timeout = 6
INVARIANTS TypeOK NeverAhead NoCascade BlamesTheSlowest EveryDividerTicks ResetsNeedOverruns
PROPERTIES WedgeIsCaught KicksGoOn
CHECK_DEADLOCK FALSE
