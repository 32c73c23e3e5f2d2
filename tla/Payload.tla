------------------------------- MODULE Payload -------------------------------
(***************************************************************************)
(* What the controller puts into a ManifestWork: the HostedCluster and     *)
(* NodePools it scaffolds, and the secrets and config maps they name, from *)
(* the provider secret, from the namespace of the HypershiftDeployment on  *)
(* the hub, from the work as it was, or made on the spot.                  *)
(***************************************************************************)
EXTENDS Integers, Sequences

CONSTANTS Zones,         \* the node pools the controller makes on AWS, one for each zone
          ClusterPool,   \* the node pool it makes on Azure
          GeneratedKeys, \* the etcd keys it can generate
          UserKey,       \* the etcd key a user provides
          NoKey

ASSUME PayloadAssumption ==
  /\ Len(Zones) > 0
  /\ UserKey \notin GeneratedKeys /\ NoKey \notin GeneratedKeys \cup {UserKey}

(***************************************************************************)
(* What a HostedCluster names.  "cloud" is the Azure credential, "key" the *)
(* active AES key of etcd, "kms" the credential of a KMS that is used in   *)
(* its place, "signing" any other secret of its configuration, "bundle" a  *)
(* config map of the HostedCluster or of a NodePool.                       *)
(***************************************************************************)
ReferenceSecrets     == {"pull", "cloud", "ssh"}
ConfigurationSecrets == {"key", "kms", "signing"}
ConfigMaps           == {"bundle"}
Names == ReferenceSecrets \cup ConfigurationSecrets \cup ConfigMaps

-----------------------------------------------------------------------------
(* scaffoldHostedClusterSpec, ScaffoldAWSNodePoolSpec and the Azure ones *)

Pool(name) == [name |-> name, subnet |-> FALSE, matches |-> TRUE]

Generated(o) ==
  IF o.platform = "AWS" THEN [i \in 1..Len(Zones) |-> Pool(Zones[i])] ELSE <<Pool(ClusterPool)>>

\* Mutant: the generated node pools are added to the ones that are there.
NodePools_AlwaysGenerated(o) == o.pools \o Generated(o)

NodePools(o) == IF o.pools # <<>> THEN o.pools ELSE Generated(o)

\* Zones[count]: a node pool without subnet takes the one of the zone at its own position.
OutOfZones(o) ==
  /\ o.platform = "AWS"
  /\ \E i \in 1..Len(o.pools) : ~o.pools[i].subnet /\ i > Len(Zones)

\* The owner's tag is appended each time; the count stops at 2, more than once.
Tagged(tags) == IF tags < 2 THEN tags + 1 ELSE tags

Scaffolded(o) ==
  LET pools == NodePools(o) IN
  [o EXCEPT
    !.pools = [i \in 1..Len(pools) |->
                 [pools[i] EXCEPT !.subnet = @ \/ o.platform = "AWS", !.matches = TRUE]],
    !.tags  = IF o.platform = "AWS" THEN Tagged(@) ELSE @,
    !.names = @ \cup {"pull"} \cup (IF "kms" \in o.names THEN {} ELSE {"key"})
                \cup (IF o.platform = "Azure" THEN {"cloud"} ELSE {})]

-----------------------------------------------------------------------------
(* appendHostedClusterReferenceSecrets, its steps in this order *)

ByRef(o) == o.refs # {}   \* HostedClusterRef and NodePoolsRef, no HostedClusterSpec

\* With configure the pull secret comes out of the provider secret.
PullMissing(o, hub) == "pull" \in o.names \ hub /\ ~o.configure

\* Without a readable principal it returns at that point, without an error or a secret.
GivesUp(o, provider) == o.platform = "Azure" /\ ~provider.principal

\* ScaffoldAzureCloudCredential takes the name from a HostedClusterSpec that is not there.
NilDereference(o, provider, hub) ==
  ~PullMissing(o, hub) /\ o.platform = "Azure" /\ provider.principal /\ ByRef(o)

ReferenceSecretMissing(o, provider, hub) ==
  PullMissing(o, hub) \/ ("ssh" \in o.names \ hub /\ ~GivesUp(o, provider))

\* What the HostedCluster names in the end: the provider's ssh key if it named none.
NamedWith(o, provider) ==
  o.names \cup (IF provider.ssh /\ ~GivesUp(o, provider) THEN {"ssh"} ELSE {})

ReferenceSecretsFor(o, provider) ==
  IF GivesUp(o, provider) THEN {} ELSE NamedWith(o, provider) \cap ReferenceSecrets

-----------------------------------------------------------------------------
(* ensureConfiguration: the hub's own, else the work's, else a generated key. *)

Generates(o, name) == name = "key" /\ o.configure

Found(o, hub, old, name) ==
  name \in hub \/ name \in old.secrets \ ConfigMaps \/ Generates(o, name)

Configuration(o) == o.names \cap (ConfigurationSecrets \cup ConfigMaps)

\* Mutant: what is not found is left out.
ConfigurationMissing_Ignored(o, hub, old) == FALSE

ConfigurationMissing(o, hub, old) == \E name \in Configuration(o) : ~Found(o, hub, old, name)

\* Mutant: the work as it was is not looked at.
EtcdKeys_NotReused(o, hub, old, fresh) ==
  IF "key" \notin o.names THEN {NoKey}
  ELSE IF "key" \in hub THEN {UserKey} ELSE fresh

\* The keys the payload may get; a generated one is one of those not in use.
EtcdKeys(o, hub, old, fresh) ==
  IF "key" \notin o.names THEN {NoKey}
  ELSE IF "key" \in hub THEN {UserKey}
  ELSE IF "key" \in old.secrets THEN {old.key}
  ELSE fresh
=============================================================================
