CONSTANTS
  b1 = b1
  b2 = b2
  NotHit = NotHit
  Absent = Absent
  Branches <- MCBranches
  Bits <- MCBits
  Feasible <- MCFeasible
  Removed = Removed
  Kept = Kept
  Logged = Logged
  Failures = {Removed, Kept, Logged}
  Samples = 1
  RoundSucc = 1
  ConvergeRound = 2
  Recheck = FALSE
  Budget = 3
  ShuffleAfter = 2
  MaxId = 4
  ExponentBranch = FALSE
  MaxSessions = 2
SPECIFICATION CampaignSpec
PROPERTIES
  ResumedIdsAreFresh
CHECK_DEADLOCK FALSE
