SPECIFICATION Spec
CONSTANTS
  a = a
  b = b
  Thread = {t1, t2}
  Obj = {a, b}
  Invocation = {a}
  Strategies <- MCStrategies
  None = None
  HasNoThread = HasNoThread
  IsThreadSafe = IsThreadSafe
  MaxPools = 2
  MaxRefs = 2
SYMMETRY Symmetry
INVARIANT AccessIsExclusive ReferencesBalance GraphFollows
