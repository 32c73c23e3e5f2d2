\* One object on AWS, any valid spec, two faults, one edit of the override.
SPECIFICATION FairSpec
CONSTANTS
  HDs = {h1}
  InfraIDs = {i1, i2}
  NoID = none
  NoOwner = none
  h1 = h1
  h2 = h2
  i1 = i1
  i2 = i2
  none = none
  Platform = "AWS"
  NewObjects <- AnyObject
  UserOverrides = {"ORPHAN", "DELETE-HOSTING-NAMESPACE"}
  EditsDeleting = FALSE
  ReadsOwnWrites = TRUE
  MaxFaults = 2
  MaxEdits = 1
INVARIANTS TypeOK InfraNotLeaked WorkNotLeaked ReadyIsTrue WorkIsComplete
PROPERTIES InfrastructureIsLastStep DeletedAsTold DeletionCompletes DeploymentCompletes ImplementsLife
CHECK_DEADLOCK FALSE
