\* One object on Azure, any valid spec, one fault, two edits of the override at any time.
SPECIFICATION Spec
CONSTANTS
  HDs = {h1}
  InfraIDs = {i1, i2}
  NoID = none
  NoOwner = none
  h1 = h1
  h2 = h2
  i1 = i1
  i2 = i2
  none = none
  Platform = "Azure"
  NewObjects <- AnyObject
  UserOverrides = {"none", "ORPHAN", "DELETE-HOSTING-NAMESPACE"}
  EditsDeleting = TRUE
  ReadsOwnWrites = TRUE
  MaxFaults = 1
  MaxEdits = 2
INVARIANTS WorkNotLeaked ReadyIsTrue
PROPERTY InfrastructureWaits
CHECK_DEADLOCK FALSE
