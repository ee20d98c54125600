SPECIFICATION GenSpec
CONSTANTS
  RetryN = 5
  Budget = 3
  Absent = Absent
  Torn = Torn
  RoundMax = 2
  MaxCost = 8
  MaxSessions = 4
  a1 = a1
  a2 = a2
  a3 = a3
  a4 = a4
  CountedApis = {a1, a2}
  CountedPrompts = {{a1}, {a1, a2}}
  PromptApis = {a1, a2, a3, a4}
  SeedCalls <- MCSeedCalls
  MaxCount = 2
  Probes = 3
  CombLen = 3
  MaxLen = 4
  Delta = 2
INVARIANTS
  UsageIsSaved
  BudgetHolds
  OrphansAreExplained
  PromptAsIntended
PROPERTIES
  OneCallBehind
  GenerationEnds
CHECK_DEADLOCK FALSE
