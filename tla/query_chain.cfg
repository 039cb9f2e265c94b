\* A master and two details that are linked by different fields, two events at a time.
SPECIFICATION Spec
CONSTANTS
  Blocks = {"m", "d", "e"}
  Details <- Siblings
  Field <- SiblingsField
  Orphans = {"e"}
  Rows = 2
  Found = {0, 2}
  Events = {e1, e2}
  MaxChains = 3
  Failing = TRUE
  Users = {"patient", "hasty"}
CHECK_DEADLOCK FALSE
INVARIANT OneQuery
INVARIANT DetailsFollow
PROPERTY EventsEnd
