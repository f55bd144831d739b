SPECIFICATION MCSpec
CONSTANTS
  Thread = {t1, t2, t3}
  Value = {v1, v2}
  NoThread = NoThread
  LockRequests <- AnyCall
  UnlockValues <- AnyValue
  Broadcasts = {TRUE}
  RawUse = TRUE
  Caller = {c1, c2}
  Object = {1, 2}
  NoLock = NoLock
  SharesEarly = TRUE
  LocksByHand = TRUE
  MaxCalls = 2
  MaxTime = 2
SYMMETRY Symmetry
CONSTRAINT ExchangesInBounds
INVARIANT TypeOK LockIsSafe NoLostWakeup LockExcludes MethodsExclude LocksBalance
PROPERTY ImplementsGuardedLock
