\* A reconcile may start on a cache that does not have the work of the last one yet.
SPECIFICATION Spec
CONSTANTS
  za = za
  zb = zb
  zc = zc
  p = p
  s1 = s1
  s2 = s2
  none = none
  k1 = k1
  k2 = k2
  user = user
  nokey = nokey
  PoolNames = {za, zb, zc, p}
  ClusterPool = p
  Zones <- MCZones
  GeneratedKeys = {k1, k2}
  UserKey = user
  NoKey = nokey
  NewObjects <- KeyObjects
  Hubs <- EmptyHub
  Fleets <- FullFleet
  Providers <- WithPrincipal
  UserPools <- EditedPools
  AgentSays <- Reported
  ClusterSets = {s1, s2}
  NoSet = none
  ValidateClusterSecurity = FALSE
  ReadsOwnWrites = FALSE
  MaxFaults = 0
  MaxChanges = 0
PROPERTY EtcdKeyKept
CHECK_DEADLOCK FALSE
