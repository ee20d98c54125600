SPECIFICATION FilesSpec
CONSTANTS
  f1 = f1
  f2 = f2
  f3 = f3
  m = m
  a = a
  b = b
  c = c
  d = d
  none = none
  Features <- MCFeatures
  Initial <- MCInitial
  Corpora <- MCCorpora
  NumPrograms = 3
  Core = 2
INVARIANTS
  BackedByCorpus
  FoundIsKept
  MisjudgedByOverlap
  WrittenIsOnDisk
  TreesAreLinked
  AnalysisIsRight
PROPERTY ReadingEnds
CHECK_DEADLOCK FALSE
