SPECIFICATION Spec
CONSTANTS
  f = f
  g = g
  L = L
  M = M
  NoFunc = NoFunc
  NoLoop = NoLoop
  Funcs <- MCFuncs
  Loops <- MCLoops
  LoopFunc <- MCLoopFunc
  LoopParent <- MCLoopParent
  ExitEdges <- MCExitEdges
  SharedExits <- MCSharedExits
  CallSites <- RecursiveCalls
  Abnormal = TRUE
  LOOP_LIMIT = 1
  MaxStack = 4
  MaxHits = 2
  MaxLoops = 4
  MaxCount = 4
INVARIANTS
  FramesEmbedded
  PopNeverUnderflows
  LockOnOutermostRepeat
  OnlyTopExceeds
PROPERTY LockIsStable
CHECK_DEADLOCK FALSE
