CONSTANTS
  Rows = {r1, r2}
  Values = {a, b}
  Null = Null
  Gone = Gone
  NoRecord = NoRecord
  Copies = 2
  LockModes = {"Pessimistic"}
  Strategies = {"Block"}
  Faults = {}
  Dates = FALSE
  UndoesUnflushed = TRUE
SPECIFICATION Spec
SYMMETRY Symmetry
PROPERTY DeletesAreAsked
