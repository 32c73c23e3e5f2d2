\* Every kind of object, one fault, two changes by users, the agent or on the hub.
SPECIFICATION FairSpec
CONSTANTS
  za = za
  zb = zb
  zc = zc
  p = p
  s1 = s1
  s2 = s2
  none = none
  k1 = k1
  k2 = k2
  user = user
  nokey = nokey
  PoolNames = {za, zb, zc, p}
  ClusterPool = p
  Zones <- MCZones
  GeneratedKeys = {k1, k2}
  UserKey = user
  NoKey = nokey
  NewObjects <- ContentObjects
  Hubs <- FullHub
  Fleets <- FullFleet
  Providers <- WithPrincipal
  UserPools <- EditedPools
  AgentSays <- Reported
  ClusterSets = {s1, s2}
  NoSet = none
  ValidateClusterSecurity = TRUE
  ReadsOwnWrites = TRUE
  MaxFaults = 1
  MaxChanges = 2
INVARIANTS ContentTypeOK PayloadClosed SettledStatus
PROPERTIES TagsSettled SeenKeyKept CheckedBeforeWritten DeployedWhenPossible
CHECK_DEADLOCK FALSE
