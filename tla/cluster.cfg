\* Two HTTP processes and a REST process, one that dies and a stop; and three starts of
\* processes that write and read five logins in two extends of two.
SPECIFICATION ClusterSpec
CONSTANTS
  Https = 2
  Servers = 1
  Pids = {1, 2, 3, 4}
  MaxMishaps = 2
  MaxStops = 1
  Extends = 2
  Slots = 2
  Writers = {w, s}
  Callers = {c}
  Requests = {q}
  MaxLogins = 5
  MaxStarts = 3
INVARIANT InOrder AcceptedOnce
PROPERTY Restored Stops
CHECK_DEADLOCK FALSE
