CONSTANTS
  MinTime = 2
  MaxTime = 8
  TimeOut = 6
  MaxCov = 3
  NoLine = NoLine
  Other = Other
SPECIFICATION Spec
INVARIANTS
  FlatIsStopped
CHECK_DEADLOCK FALSE
