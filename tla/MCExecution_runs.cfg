SPECIFICATION ExecSpec
CONSTANTS
  NumFiles = 5
  CpuCount = 3
  MinTime = 2
  MaxTime = 8
  TimeOut = 6
  MaxCov = 3
  NoLine = NoLine
  Other = Other
  c1 = c1
  c2 = c2
  s1 = s1
  e1 = e1
  e2 = e2
  NoDir = NoDir
  Cases = {c1, c2}
  Seeds = {s1}
  Expes = {e1, e2}
  Workers = 2
  MaxCommands = 2
INVARIANTS
  ResultIsExact
  WaitsOnlyAfterPanic
  VerdictIsExplained
  RecordsAreOfOneRun
  ProfileHasRecords
PROPERTY ExecutionsEnd
CHECK_DEADLOCK FALSE
