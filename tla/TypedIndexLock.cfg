CONSTANTS
  m1 = m1
  m2 = m2
  io = io
  Main = Main
  IO = IO
  None = None
  Actors = {m1, m2, io}
  Home <- MCHome
  IOWorkers = 2
  MaxNative = 2
  MaxStarts = 4
SPECIFICATION FairSpec
CHECK_DEADLOCK FALSE
INVARIANTS
  TypeOK
  LockNeverLost
  NoUseAfterDestroy
PROPERTIES
  ClosedIsFinal
  ImplementsSerialHandle
  EveryCallReturns
