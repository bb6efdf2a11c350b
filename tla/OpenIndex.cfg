CONSTANTS
  t1 = t1
  t2 = t2
  n1 = n1
  n2 = n2
  b1 = b1
  dir = dir
  stored = stored
  Threads = {t1, t2}
  Builders = {b1}
  Paths = {dir}
  Names = {n1, n2}
  Options = {stored}
  None = None
  MaxFields = 2
  MaxOpens = 3
  MaxFaults = 2
SPECIFICATION Spec
SYMMETRY Symmetry
VIEW ActiveState
CHECK_DEADLOCK FALSE
INVARIANTS
  TypeOK
  LockMatchesWriters
  SchemaInUseStays
  BuilderIsUsedOnce
