SPECIFICATION Spec
CONSTANTS
  NumTests = 3
  MaxCrashes = 4
  Signals <- MCSignals
INVARIANTS
  EveryCrashCaught
  LineIsOwn
  SummaryIsTrue
  CleanedOnce
CHECK_DEADLOCK FALSE
