CONSTANTS
  b1 = b1
  b2 = b2
  NotHit = NotHit
  Absent = Absent
  Branches <- MCBranches
  Bits <- MCBits
  Feasible <- MCFeasible
  Removed = Removed
  Kept = Kept
  Logged = Logged
  Failures = {Removed}
  Samples = 2
  RoundSucc = 1
  ConvergeRound = 2
  Recheck = TRUE
  Budget = 3
  ShuffleAfter = 3
  MaxId = 8
SPECIFICATION FairSpec
INVARIANTS
  SeedsReachCoverage
  NothingDismissed
  QueueIsOnDisk
  CreditIsUnique
  ProfilesAreKept
PROPERTIES
  MinimizeLosesNothing
  ImplementsPool
  LoopEnds
CHECK_DEADLOCK FALSE
