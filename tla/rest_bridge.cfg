\* Two threads of the HTTP process, payloads of both kinds, a crash and a restart.
SPECIFICATION Spec
CONSTANTS
  Threads = {t1, t2}
  Home <- SharedHome
  Extents = 3
  Fits = {TRUE, FALSE}
  MaxRequests = 2
  MaxStarts = 2
  MaxClients = 2
CHECK_DEADLOCK FALSE
INVARIANT Routed
INVARIANT AtMostOnce
 
PROPERTY Delivered
PROPERTY SendEnds
