\* One object on AWS, reconciles on caches of any age, no fault.
SPECIFICATION FairSpec
CONSTANTS
  HDs = {h1}
  InfraIDs = {i1}
  NoID = none
  NoOwner = none
  h1 = h1
  h2 = h2
  i1 = i1
  i2 = i2
  none = none
  Platform = "AWS"
  NewObjects <- ChosenObject
  UserOverrides = {}
  EditsDeleting = FALSE
  ReadsOwnWrites = FALSE
  MaxFaults = 0
  MaxEdits = 0
PROPERTIES DeletionCompletes DeploymentCompletes
CHECK_DEADLOCK FALSE
