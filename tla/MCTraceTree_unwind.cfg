SPECIFICATION TreeSpec
CONSTANTS
  f = f
  g = g
  L = L
  M = M
  N = N
  NoFunc = NoFunc
  NoLoop = NoLoop
  Funcs <- MCFuncs
  Names <- MCFuncs
  NameOf <- OwnNames
  Loops <- MCLoops
  LoopFunc <- MCLoopFunc
  LoopParent <- MCLoopParent
  ExitEdges <- MCExitEdges
  SharedExits <- MCSharedExits
  CallSites <- NoRecursion
  Abnormal = TRUE
  LOOP_LIMIT = 1
  MaxStack = 4
  MaxHits = 3
  MaxLoops = 4
  MaxCount = 5
INVARIANT RecursionIsLeaf
CHECK_DEADLOCK FALSE
