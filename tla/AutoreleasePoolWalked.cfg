SPECIFICATION Spec
CONSTANTS
  Obj = {a, b}
  ConstantObj = {}
  Hole = Hole
  ChunkSize = 2
  CountModulus = 16
  Steps = {1}
  BulkSize = 1
  MaxPools = 1
  MaxSlots = 2
  MaxRefs = 1
  MaxCalls = 3
  AllocInDealloc = FALSE
  DrainsWalked = TRUE
INVARIANT NotOutOfNowhere
