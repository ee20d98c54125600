CONSTANTS
  b1 = b1
  b2 = b2
  NotHit = NotHit
  Absent = Absent
  Branches <- MCBranches
  Bits <- MCBits
  Feasible <- MCFeasible
  Removed = Removed
  Kept = Kept
  Logged = Logged
  Failures = {Removed, Kept, Logged}
  Samples = 1
  RoundSucc = 2
  ConvergeRound = 2
  Recheck = FALSE
  Budget = 4
  ShuffleAfter = 2
  MaxId = 5
  ExponentBranch = FALSE
  MaxSessions = 2
SPECIFICATION CampaignSpec
PROPERTIES
  ResumeKeepsCoverage
  ResumeKeepsCredit
CHECK_DEADLOCK FALSE
