SPECIFICATION Spec
CONSTANTS
  Obj = {a, b}
  ConstantObj = {}
  Hole = Hole
  ChunkSize = 2
  CountModulus = 16
  Steps = {1, 2}
  BulkSize = 2
  MaxPools = 2
  MaxSlots = 3
  MaxRefs = 2
  MaxCalls = 2
  AllocInDealloc = TRUE
  DrainsWalked = FALSE
INVARIANT NotOutOfNowhere
