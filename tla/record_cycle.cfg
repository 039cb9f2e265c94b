CONSTANTS
  Rows = {r1, r2}
  Values = {a, b}
  Null = Null
  Gone = Gone
  NoRecord = NoRecord
  Copies = 2
  LockModes = {"Optimistic", "Pessimistic"}
  Strategies = {"Block"}
  Faults = {"busy", "error"}
  Dates = FALSE
  UndoesUnflushed = FALSE
SPECIFICATION Spec
SYMMETRY Symmetry
INVARIANT TypeOK
INVARIANT NothingForgotten
PROPERTY NoLostUpdate
PROPERTY CommitSaves
