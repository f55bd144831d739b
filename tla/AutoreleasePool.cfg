SPECIFICATION MCSpec
CONSTANTS
  Obj = {a, b}
  ConstantObj = {}
  Hole = Hole
  ChunkSize = 2
  CountModulus = 16
  Steps = {1}
  BulkSize = 2
  MaxPools = 2
  MaxSlots = 3
  MaxRefs = 2
  MaxCalls = 2
  DrainsWalked = FALSE
  AllocInDealloc = TRUE
SYMMETRY Symmetry
CONSTRAINT FourSlots
INVARIANTS RetainBalance MapIsExact CursorsValid
