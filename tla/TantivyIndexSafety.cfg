CONSTANTS
  c1 = c1
  c2 = c2
  k1 = k1
  k2 = k2
  Callers = {c1, c2}
  Keys = {k1}
  BadKey = BadKey
  Free = Free
  Batches <- MCOneKeyBatches
  MaxCalls = 4
  MaxFaults = 1
SPECIFICATION Spec
SYMMETRY Symmetry
VIEW LiveState
CHECK_DEADLOCK FALSE
INVARIANTS
  TypeOK
  WritesHoldTheLock
  RejectedCallLeavesNothing
PROPERTIES
  ReadYourCommits
  CommitsWholeBatches
  PoisonFreezes
  ReadsOneVersion
  ImplementsAtomicIndex
