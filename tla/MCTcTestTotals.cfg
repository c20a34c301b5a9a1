SPECIFICATION Spec
CONSTANTS
  NumTests = 3
  MaxCrashes = 4
  Signals <- MCSignals
INVARIANTS
  NumPassedIsTrue
CHECK_DEADLOCK FALSE
