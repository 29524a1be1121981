SPECIFICATION FairSpec
CONSTANTS
  MaxRuns = 3
  MaxLate = 2
  MaxOwed = 1
INVARIANTS
  OneRunPerTimer
PROPERTIES
  TimeoutsBelong
  GoroutinesEnd
CHECK_DEADLOCK FALSE
