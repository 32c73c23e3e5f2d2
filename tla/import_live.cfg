\* Both controllers on one object without infrastructure, no fault, no act of a user but its deletion.
SPECIFICATION HubFairSpec
CONSTANTS
  HDs = {h1}
  InfraIDs = {i1}
  NoID = none
  NoOwner = none
  h1 = h1
  i1 = i1
  n1 = n1
  none = none
  Names = {n1}
  ClusterName <- OneName
  NewObjects <- SpecGiven
  ReadsOwnWrites = TRUE
  MaxFaults = 0
  Platform = "AWS"
  UserOverrides = {}
  EditsDeleting = FALSE
  MaxEdits = 0
  UserAnnotations = {}
  MaxInterventions = 0
PROPERTIES ImportCompletes ImportedDeletionCompletes
CHECK_DEADLOCK FALSE
