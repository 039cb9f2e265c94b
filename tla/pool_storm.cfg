\* Everything at once: requests during start-up, failures, time-outs, probes.
SPECIFICATION Spec
CONSTANTS
  NoConn = NoConn
  Threads = {t1, t2}
  Conns = {c1, c2}
  Min = 1
  Max = 2
  Uses = {"pooled", "own", "dedicated", "probe"}
  Cold = TRUE
  Failing = TRUE
  Impatient = TRUE
  Proxy = TRUE
  Drift = 1
SYMMETRY PoolSymmetry
INVARIANT NoSharing
