\* A filled pool, a database that does not fail, patient sessions.
SPECIFICATION Spec
CONSTANTS
  NoConn = NoConn
  Threads = {t1, t2, t3}
  Conns = {c1, c2, c3, c4, c5}
  Min = 1
  Max = 2
  Uses = {"pooled", "own"}
  Cold = FALSE
  Failing = FALSE
  Impatient = FALSE
  Proxy = FALSE
  Drift = 0
SYMMETRY PoolSymmetry
INVARIANT TypeOK SizeIsExact WithinMax
PROPERTY ImplementsLender
