SPECIFICATION Spec
CONSTANTS
  Builds <- AllBuilds
  Grid = 3
  Inputs <- MCInputs
  NaN <- MCNaN
  MaxBoots = 2
INVARIANTS ValuesAreVouched CleanMeansUnchanged
PROPERTIES BootsOnASavedTable RestartKeepsTheTable
CHECK_DEADLOCK FALSE
