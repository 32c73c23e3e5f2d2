\* Both controllers on one object with infrastructure; one fault, or one act of a user.
SPECIFICATION HubSpec
CONSTANTS
  HDs = {h1}
  InfraIDs = {i1}
  NoID = none
  NoOwner = none
  h1 = h1
  i1 = i1
  n1 = n1
  none = none
  Names = {n1}
  ClusterName <- OneName
  NewObjects <- ChosenID
  ReadsOwnWrites = TRUE
  MaxFaults = 1
  Platform = "AWS"
  UserOverrides = {}
  EditsDeleting = FALSE
  MaxEdits = 0
  UserAnnotations = {"false"}
  MaxInterventions = 1
CONSTRAINT OneDisturbance
INVARIANTS ImportTypeOK ReadyIsTrue WorkIsComplete GuardedWhenSettled NothingStuck
PROPERTIES InfrastructureIsLastStep RemovedSafely
CHECK_DEADLOCK FALSE
