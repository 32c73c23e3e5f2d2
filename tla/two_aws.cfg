\* Two objects on AWS with infra IDs chosen by the controller, one fault.
SPECIFICATION Spec
CONSTANTS
  HDs = {h1, h2}
  InfraIDs = {i1, i2}
  NoID = none
  NoOwner = none
  h1 = h1
  h2 = h2
  i1 = i1
  i2 = i2
  none = none
  Platform = "AWS"
  NewObjects <- EitherObject
  UserOverrides = {}
  EditsDeleting = FALSE
  ReadsOwnWrites = TRUE
  MaxFaults = 1
  MaxEdits = 0
INVARIANTS NothingLeftBehind WorkNotLeaked ReadyIsTrue
PROPERTIES InfrastructureIsLastStep ImplementsLife
CHECK_DEADLOCK FALSE
