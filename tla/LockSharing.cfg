SPECIFICATION Spec
CONSTANTS
  Thread = {t1, t2}
  NoThread = NoThread
  Object = {1, 2}
  NoLock = NoLock
  SharesEarly = FALSE
  LocksByHand = TRUE
  MaxCalls = 2
INVARIANT MethodsExclude
