\* Three threads, one of which sets savepoints, a client that keeps order, and
\* another session that competes for the connection.
SPECIFICATION FairSpec
CONSTANTS
  NoThread = NoThread
  NoConn = NoConn
  Threads = {t1, t2, t3}
  Savers = {t1}
  Others = {other}
  Conns = {c1}
  Quiescent = TRUE
  Expiry = "idle"
  Failing = TRUE
INVARIANT TypeOK OneOwner OwnWork ClientsExact NothingLeft
PROPERTY Answered
CHECK_DEADLOCK FALSE
