SPECIFICATION Spec
CONSTANTS
  Thr = {t1, t2, t3}
  Os = {o1, o2, f}
  Foreign = {f}
  Main = Main
  None = None
  Limbo = Limbo
  MaxRefs = 2
  MaxStarts = 2
SYMMETRY Symmetry
CONSTRAINT OneStartsAgain
INVARIANT TypeOK ReferencesHaveHolders UniverseOutlivesThreads TeardownIsQuiet NSThreadOutlivesUse ArgumentHandover
