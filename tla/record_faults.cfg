CONSTANTS
  Rows = {r1}
  Values = {a, b}
  Null = Null
  Gone = Gone
  NoRecord = NoRecord
  Copies = 3
  LockModes = {"None", "Optimistic", "Pessimistic"}
  Strategies = {"Row", "Block"}
  Faults = {"busy", "error", "refused"}
  Dates = FALSE
  UndoesUnflushed = TRUE
SPECIFICATION Spec
SYMMETRY Symmetry
INVARIANT LocksAgree
