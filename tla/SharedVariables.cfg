SPECIFICATION MCSpec
CONSTANTS
  Thread = {t1, t2}
  Bits = {0, 1}
  Obj = {a, b}
  nil = nil
  MaxRefs = 3
  String = {s1, s2, s3}
  NULL = NULL
  Os = {m, o}
  Main = m
  Thr = {x, y, z}
  MaxLookups = 1
SYMMETRY Symmetry
INVARIANTS IvarReferencesBalance NamesAreSafe ThreadsAreFound
PROPERTIES IntegersAreAtomic IdsAreAtomic
CHECK_DEADLOCK FALSE
