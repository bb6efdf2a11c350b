CONSTANTS
  c1 = c1
  c2 = c2
  k1 = k1
  k2 = k2
  Callers = {c1, c2}
  Keys = {k1}
  BadKey = BadKey
  Free = Free
  Batches <- MCOneKeyBatches
  MaxCalls = 2
  MaxFaults = 2
SPECIFICATION FairSpec
CHECK_DEADLOCK FALSE
PROPERTIES
  EveryCallReturns
  BehindIsTemporary
