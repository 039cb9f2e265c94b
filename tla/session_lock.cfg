\* Two threads set savepoints, one more only executes statements.
SPECIFICATION FairLockSpec
CONSTANTS
  NoThread = NoThread
  Workers = {t1, t2, t3}
  Savers = {t1, t2}
  MaxRequests = 2
  MaxStatements = 2
INVARIANT LockTypeOK SharedCount NoLostWakeup
PROPERTY ImplementsGuard RequestsEnd
CHECK_DEADLOCK FALSE
