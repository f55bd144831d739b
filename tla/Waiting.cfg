SPECIFICATION MCSpec
CONSTANTS
  Thread = {t1, t2}
  NoThread = NoThread
  MaxTime = 2
  Thr = {1, 2}
  Os = {o1, f}
  Foreign = {f}
  Main = Main
  None = None
  Limbo = Limbo
  MaxRefs = 1
  MaxStarts = 2
  Obj = {a, b}
  ConstantObj = {}
  Hole = Hole
  ChunkSize = 1
  CountModulus = 16
  Steps = {1}
  BulkSize = 2
  MaxPools = 2
  MaxSlots = 2
  MaxCalls = 2
  AllocInDealloc = FALSE
  DrainsWalked = FALSE
PROPERTIES TimedLockReturns EveryThreadGetsTheLock TeardownComes JoinComesBack CallsEnd
