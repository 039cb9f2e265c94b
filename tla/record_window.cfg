SPECIFICATION Spec
CONSTANTS
  Rows = 2
  Array = 2
  Tables <- Whole
  MaxInserts <- Inserts
  MaxDeletes = 1
  Refusing = TRUE
  Users = {"patient", "hasty"}
CHECK_DEADLOCK FALSE
INVARIANT TypeOK
INVARIANT Aligned
INVARIANT NoFalseEnd
INVARIANT RightRecord
