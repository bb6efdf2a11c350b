CONSTANTS
  c1 = c1
  c2 = c2
  k1 = k1
  k2 = k2
  Clients = {c1, c2}
  Keys = {k1, k2}
  BadKey = BadKey
  Free = Free
  Batches <- MCBatches
  MaxOps = 3
  MaxCalls = 6
  MaxFaults = 2
SPECIFICATION Spec
SYMMETRY Symmetry
VIEW LiveState
CHECK_DEADLOCK FALSE
INVARIANTS
  TypeOK
  BlocksAreWhole
  FailureIsContained
  AcknowledgedIsDurable
  OneIdentity
