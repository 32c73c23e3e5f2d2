\* One object on AWS, one edit of the override.
SPECIFICATION Spec
CONSTANTS
  HDs = {h1}
  InfraIDs = {i1}
  NoID = none
  NoOwner = none
  h1 = h1
  h2 = h2
  i1 = i1
  i2 = i2
  none = none
  Platform = "AWS"
  NewObjects <- ChosenObject
  UserOverrides = {"ORPHAN"}
  EditsDeleting = FALSE
  ReadsOwnWrites = TRUE
  MaxFaults = 0
  MaxEdits = 1
PROPERTY EditsKept
CHECK_DEADLOCK FALSE
