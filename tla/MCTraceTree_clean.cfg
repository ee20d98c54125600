SPECIFICATION TreeSpec
CONSTANTS
  f = f
  g = g
  L = L
  M = M
  N = N
  NoFunc = NoFunc
  NoLoop = NoLoop
  Funcs <- MCFuncs
  Names <- MCFuncs
  NameOf <- OwnNames
  Loops <- MCLoops
  LoopFunc <- MCLoopFunc
  LoopParent <- MCLoopParent
  ExitEdges <- MCExitEdges
  SharedExits <- MCSharedExits
  CallSites <- RecursionOutsideLoops
  Abnormal = FALSE
  LOOP_LIMIT = 1
  MaxStack = 6
  MaxHits = 3
  MaxLoops = 5
  MaxCount = 5
INVARIANTS
  PathIsCallPath
  RecursionIsLeaf
  StackIsCallStack
  LoopGuardExact
  LinesAreEnded
PROPERTY FollowsCalls
CHECK_DEADLOCK FALSE
