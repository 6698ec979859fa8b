SPECIFICATION Spec
CONSTANTS
  Builds <- FlightOnly
  Grid = 3
  Inputs <- MCInputs
  NaN <- MCNaN
  MaxBoots = 3
PROPERTY RestartKeepsEveryTable
CHECK_DEADLOCK FALSE
