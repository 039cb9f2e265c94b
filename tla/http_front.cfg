\* A plain connection whose client may leave, one to the admin port, failures, silent clients, time.
SPECIFICATION Spec
CONSTANTS
  Channels = {p, a}
  Secure = {a}
  Admin = {a}
  Leaving = {p}
  PoolThreads = 1
  MaxAttempts = 1
  MaxRequests = 2
  Failing = TRUE
  Patient = TRUE
CHECK_DEADLOCK FALSE
INVARIANT NothingLost
PROPERTY Served
PROPERTY Reaped
