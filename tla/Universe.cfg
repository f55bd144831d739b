SPECIFICATION Spec
CONSTANTS
  Thread = {t1, t2}
  Obj = {a, b, c, d}
  nil = nil
  MaxRefs = 2
SYMMETRY Symmetry
INVARIANTS OneSharedInstance TeardownLeavesNothing
CHECK_DEADLOCK FALSE
