SPECIFICATION Spec
CONSTANTS
  Thread = {t1, t2}
  Property = {p}
  Value = {v}
  Mutable = {}
  NULL = NULL
  MaxRefs = 1
INVARIANT NeededAccessorIsMissing
CHECK_DEADLOCK FALSE
