CONSTANTS
  b1 = b1
  b2 = b2
  NotHit = NotHit
  Absent = Absent
  Branches <- MCBranches
  Bits <- MCBits
  Feasible <- MCFeasible
  Removed = Removed
  Kept = Kept
  Logged = Logged
  Failures = {Removed}
  Samples = 2
  RoundSucc = 1
  ConvergeRound = 2
  Recheck = TRUE
  Budget = 2
  ShuffleAfter = 3
  MaxId = 6
SPECIFICATION FairSpec
PROPERTIES
  QuietRoundsAreQuiet
CHECK_DEADLOCK FALSE
