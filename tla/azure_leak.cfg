\* One failed call while Azure infrastructure is destroyed.
SPECIFICATION Spec
CONSTANTS
  HDs = {h1}
  InfraIDs = {i1, i2}
  NoID = none
  NoOwner = none
  h1 = h1
  h2 = h2
  i1 = i1
  i2 = i2
  none = none
  Platform = "Azure"
  NewObjects <- PlainObject
  UserOverrides = {}
  EditsDeleting = FALSE
  ReadsOwnWrites = TRUE
  MaxFaults = 1
  MaxEdits = 0
INVARIANT NothingLeftBehind
CHECK_DEADLOCK FALSE
