SPECIFICATION HkSpec
CONSTANTS
  Structures = {"SYS_HK", "ADCS_HK"}
  Periods = {1, 2, 4}
  Default <- MCDefault
  Gaps = {1, 2, 5}
  MaxRuns = 4
  MaxChanges = 3
INVARIANT OnSchedule
CHECK_DEADLOCK FALSE
