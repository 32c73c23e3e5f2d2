----------------------------- MODULE WorkContent -----------------------------
(***************************************************************************)
(* The way of one HypershiftDeployment that is not being deleted into its  *)
(* ManifestWork and back: createOrUpdateMainfestwork, with the scaffolding *)
(* of the spec before it, one action per API call.  DeploymentReconciler   *)
(* has the calls around it, the deletion and the cloud; here it is the     *)
(* data: which references, cluster sets and secrets a reconcile reads, one *)
(* after the other, what it writes, and what the agent's reports become.   *)
(***************************************************************************)
EXTENDS StatusFeedback, Payload, FiniteSets

CONSTANTS NewObjects,    \* the object as its user submits it
          Hubs,          \* the secrets and config maps a hub may start with
          Fleets,        \* the facts about cluster sets that may hold at first
          Providers,     \* what the provider secret may hold at first
          UserPools,     \* the node pools users edit the object to have
          AgentSays,     \* the reports the work agent may send
          ClusterSets, NoSet,
          ValidateClusterSecurity,  \* the flag of the manager
          ReadsOwnWrites,           \* a reconcile starts on caches that are caught up
          MaxFaults,     \* how many calls fail and how often the process dies
          MaxChanges     \* how many times a user or the agent changes something

VARIABLES hyd, hydCache,   \* the object in the API server and in the informer cache
          queued,          \* its key is in the work queue
          pc, mem,         \* what the worker does next, with what it has read
          work, workCache, \* the ManifestWork in the API server and in the cache
          hub,             \* the secrets and config maps in the object's namespace
          provider,        \* the content of the provider secret
          references,      \* the referenced HostedCluster and NodePools are there and match
          fleet,           \* the facts about cluster sets
          seen,            \* the facts there were since the reconcile began
          faults, changes  \* the faults and changes still to come

hubVars == <<hub, provider, references, fleet>>
vars == <<hyd, hydCache, queued, pc, mem, work, workCache, hubVars, seen, faults, changes>>

(***************************************************************************)
(* The facts validateSecurityConstraints reads: a ManagedClusterSet        *)
(* exists, a bound ManagedClusterSetBinding for it is in the namespace,    *)
(* its selector selects the hosting cluster, and the hosting cluster is a  *)
(* ManagedCluster.                                                         *)
(***************************************************************************)
Exists(s)  == <<"exists", s>>
Bound(s)   == <<"bound", s>>
Selects(s) == <<"selects", s>>
HostingCluster == <<"cluster", NoSet>>
Facts == {Exists(s) : s \in ClusterSets} \cup {Bound(s) : s \in ClusterSets}
           \cup {Selects(s) : s \in ClusterSets} \cup {HostingCluster}

Conditions == [work : {"none", "True", "False"}, nodePool : ReportedStatus, available : ReportedStatus]

NodePool == [name : PoolNames, subnet : BOOLEAN, matches : BOOLEAN]

Object == [platform  : {"AWS", "Azure"},
           configure : BOOLEAN,
           complete  : BOOLEAN,            \* with a hosting cluster and a HostedCluster
           refs      : SUBSET PoolNames,   \* spec.nodePoolsRef, and a hostedClusterRef
           pools     : Seq(NodePool),
           set       : ClusterSets \cup {NoSet},  \* spec.hostedManagedClusterSet
           tags      : 0..2,               \* the owner's resource tags
           names     : SUBSET Names,       \* what the HostedCluster names
           ready     : BOOLEAN,                \* platform and IAM are configured
           status    : Conditions]

Provider == [principal : BOOLEAN, ssh : BOOLEAN]   \* osServicePrincipal.json, an ssh key pair

Keys == GeneratedKeys \cup {UserKey, NoKey}

Work == [exists  : BOOLEAN,
         names   : SUBSET Names,      \* what its HostedCluster names
         secrets : SUBSET Names,      \* the secrets and config maps in it
         key     : Keys,
         pools   : SUBSET PoolNames,
         reports : Seq(Report)]

NoWork == [exists |-> FALSE, names |-> {}, secrets |-> {}, key |-> NoKey,
           pools |-> {}, reports |-> <<>>]

DistinctNames(pools) == \A i, j \in 1..Len(pools) : pools[i].name = pools[j].name => i = j

DistinctPools(o) == DistinctNames(o.pools)

OneHostedCluster(reports) ==
  \A i, j \in 1..Len(reports) :
    reports[i].manifest = HostedCluster /\ reports[j].manifest = HostedCluster => i = j

(***************************************************************************)
(* A user submits an object without conditions, a resource has one name,   *)
(* a region has one zone of a name, and a work has one HostedCluster.      *)
(***************************************************************************)
ASSUME ContentAssumption ==
  /\ NewObjects \subseteq Object
  /\ \A o \in NewObjects : ~o.ready /\ DistinctPools(o) /\ (ByRef(o) => ~o.configure /\ o.pools = <<>>)
  /\ UserPools \subseteq Seq(NodePool) /\ \A pools \in UserPools : DistinctNames(pools)
  /\ AgentSays \subseteq Seq(Report) /\ \A reports \in AgentSays : OneHostedCluster(reports)
  /\ NoSet \notin ClusterSets
  /\ \A f \in Fleets : f \subseteq Facts
  /\ \A h \in Hubs : h \subseteq Names
  /\ Providers \subseteq Provider
  /\ Zones \in Seq(PoolNames) /\ \A i, j \in 1..Len(Zones) : Zones[i] = Zones[j] => i = j
  /\ ClusterPool \in PoolNames
  /\ ValidateClusterSecurity \in BOOLEAN /\ ReadsOwnWrites \in BOOLEAN
  /\ MaxFaults \in Nat /\ MaxChanges \in Nat

PoolNamesOf(o) == {o.pools[i].name : i \in 1..Len(o.pools)}

DeployedPools(o) == IF ByRef(o) THEN o.refs ELSE PoolNamesOf(o)

NoConditions == [work |-> "none", nodePool |-> "none", available |-> "none"]

ZeroObject == [platform |-> "AWS", configure |-> FALSE, complete |-> FALSE, refs |-> {},
               pools |-> <<>>, set |-> NoSet, tags |-> 0, names |-> {}, ready |-> FALSE,
               status |-> NoConditions]

\* What a reconcile has read and made so far.
Memory == [o        : Object,
           status   : Conditions,   \* the conditions of its copy
           provider : Provider,
           sets     : SUBSET ClusterSets,
           old      : Work,         \* the work as it was read before the payload is made
           payload  : Work]

Nothing == [o |-> ZeroObject, status |-> NoConditions,
            provider |-> [principal |-> FALSE, ssh |-> FALSE],
            sets |-> {}, old |-> NoWork, payload |-> NoWork]

Init ==
  /\ hyd \in NewObjects /\ hydCache = hyd
  /\ queued = TRUE /\ pc = "idle" /\ mem = Nothing
  /\ work = NoWork /\ workCache = NoWork
  /\ hub \in Hubs /\ provider \in Providers /\ references = TRUE /\ fleet \in Fleets
  /\ seen = {}
  /\ faults = MaxFaults /\ changes = MaxChanges

-----------------------------------------------------------------------------
(* How a reconcile goes on and how it ends. *)

Fault   == faults > 0 /\ faults' = faults - 1
NoFault == UNCHANGED faults

Goto(step) == pc' = step /\ UNCHANGED <<queued, seen>>

Return  == pc' = "idle" /\ mem' = Nothing /\ seen' = {}
Done    == Return /\ UNCHANGED queued
Requeue == Return /\ queued' = TRUE   \* an error, or a result with a RequeueAfter

\* A patch of the conditions; when none of them changes it may be sent for its text alone.
Patches(base, status) ==
  {[hyd EXCEPT !.status = status]} \cup (IF status = base THEN {hyd} ELSE {})

NotConfigured == [mem.status EXCEPT !.work = "False"]

ReportNotConfigured == hyd' \in Patches(mem.status, NotConfigured)

\* WorkConfigured is False, and the next reconcile comes whether or not that got through.
Reject ==
  /\ \/ ReportNotConfigured /\ NoFault
     \/ UNCHANGED hyd /\ Fault
  /\ Requeue

\* Without a readable principal ProviderSecretConfigured turns True and False again in every
\* reconcile, and the events of that bring the next one.
Start ==
  /\ pc = "idle" /\ queued
  /\ ReadsOwnWrites => hydCache = hyd /\ workCache = work
  /\ queued' = (hydCache.configure /\ GivesUp(hydCache, provider))
  /\ pc' = IF hydCache.configure /\ ~hydCache.ready THEN "scaffold" ELSE "validate"
  /\ mem' = [Nothing EXCEPT !.o = hydCache, !.provider = provider, !.status = hydCache.status]
  /\ seen' = fleet
  /\ UNCHANGED <<hyd, hydCache, work, workCache, hubVars, faults, changes>>

-----------------------------------------------------------------------------
(* The end of the infrastructure step: scaffold the spec and report it. *)

\* The merge patch: a field in which the copy and the cache differ is written.
Merge(server, base, mine) == IF mine = base THEN server ELSE mine

Patched(mine) ==
  [hyd EXCEPT !.pools = Merge(@, hydCache.pools, mine.pools),
              !.tags  = Merge(@, hydCache.tags, mine.tags),
              !.names = Merge(@, hydCache.names, mine.names)]

ScaffoldSpec ==
  /\ pc = "scaffold" /\ ~OutOfZones(mem.o) /\ ~GivesUp(mem.o, mem.provider)
  /\ \/ /\ hyd' = Patched(Scaffolded(mem.o)) /\ NoFault
        /\ mem' = [mem EXCEPT !.o = hyd', !.status = hyd'.status] /\ Goto("ready")
     \/ Fault /\ Requeue /\ UNCHANGED hyd
  /\ UNCHANGED <<hydCache, work, workCache, hubVars, changes>>

\* Azure without a readable principal builds nothing.
BadPrincipal ==
  /\ pc = "scaffold" /\ GivesUp(mem.o, mem.provider) /\ Done
  /\ UNCHANGED <<hyd, hydCache, work, workCache, hubVars, faults, changes>>

\* Mutant: an error of the status update is ignored.
PlatformReady_IgnoresError ==
  /\ pc = "ready"
  /\ \/ hyd' = [hyd EXCEPT !.ready = TRUE] /\ NoFault
     \/ UNCHANGED hyd /\ Fault
  /\ mem' = [mem EXCEPT !.o.ready = TRUE] /\ Goto("validate")
  /\ UNCHANGED <<hydCache, work, workCache, hubVars, changes>>

\* The platform and, on AWS, the IAM condition, which DeploymentReconciler tells apart.
PlatformReady ==
  /\ pc = "ready"
  /\ \/ /\ hyd' = [hyd EXCEPT !.ready = TRUE, !.status = mem.o.status] /\ NoFault
        /\ mem' = [mem EXCEPT !.o = hyd'] /\ Goto("validate")
     \/ Fault /\ Requeue /\ UNCHANGED hyd
  /\ UNCHANGED <<hydCache, work, workCache, hubVars, changes>>

-----------------------------------------------------------------------------
(* The validations of createOrUpdateMainfestwork *)

\* A hosting cluster, a HostedCluster, and node pools that belong to it.
Valid(o) ==
  /\ o.complete
  /\ ByRef(o) => references
  /\ \A i \in 1..Len(o.pools) : o.pools[i].matches

\* An object that is not valid ends the reconcile for good.
Validate ==
  /\ pc = "validate"
  /\ \/ /\ Valid(mem.o)
        /\ Goto(IF ValidateClusterSecurity THEN "set" ELSE "work")
        /\ UNCHANGED <<hyd, mem, faults>>
     \/ ~Valid(mem.o) /\ ReportNotConfigured /\ NoFault /\ Done
     \/ ~Valid(mem.o) /\ UNCHANGED hyd /\ Fault /\ Requeue
  /\ UNCHANGED <<hydCache, work, workCache, hubVars, changes>>

CheckSet ==
  /\ pc = "set"
  /\ \/ /\ mem.o.set = NoSet \/ Exists(mem.o.set) \in fleet
        /\ Goto("bindings") /\ UNCHANGED <<hyd, mem, faults>>
     \/ /\ mem.o.set # NoSet /\ Exists(mem.o.set) \notin fleet
        /\ Reject
  /\ UNCHANGED <<hydCache, work, workCache, hubVars, changes>>

BoundSets == {s \in ClusterSets : Bound(s) \in fleet}

\* Mutant: any binding is enough, also when the object names a cluster set.
BindingsSuffice_Any(o, sets) == sets # {}

BindingsSuffice(o, sets) == sets # {} /\ (o.set # NoSet => o.set \in sets)

CheckBindings ==
  /\ pc = "bindings"
  /\ \/ /\ BindingsSuffice(mem.o, BoundSets)
        /\ mem' = [mem EXCEPT !.sets = IF mem.o.set = NoSet THEN BoundSets ELSE {mem.o.set}]
        /\ Goto("cluster") /\ UNCHANGED <<hyd, faults>>
     \/ ~BindingsSuffice(mem.o, BoundSets) /\ Reject
  /\ UNCHANGED <<hydCache, work, workCache, hubVars, changes>>

CheckCluster ==
  /\ pc = "cluster"
  /\ \/ HostingCluster \in fleet /\ Goto("member") /\ UNCHANGED <<hyd, mem, faults>>
     \/ HostingCluster \notin fleet /\ Reject
  /\ UNCHANGED <<hydCache, work, workCache, hubVars, changes>>

\* GetClusterSetsOfCluster: the cluster sets there are that select the hosting cluster.
SetsOfCluster == {s \in ClusterSets : Exists(s) \in fleet /\ Selects(s) \in fleet}

IsClusterInClusterSet(sets) == \E s \in SetsOfCluster : s \in sets

CheckMember ==
  /\ pc = "member"
  /\ \/ IsClusterInClusterSet(mem.sets) /\ Goto("work") /\ UNCHANGED <<hyd, mem, faults>>
     \/ ~IsClusterInClusterSet(mem.sets) /\ Reject
  /\ UNCHANGED <<hydCache, work, workCache, hubVars, changes>>

-----------------------------------------------------------------------------
(* The payload, the write and the status *)

\* The feedback of the work goes into the copy of the status; no work, no feedback.
GetWork ==
  /\ pc = "work"
  /\ mem' = [mem EXCEPT !.old = workCache,
                        !.status = Synced(@, PoolNamesOf(mem.o), workCache.reports)]
  /\ Goto("manifests")
  /\ UNCHANGED <<hyd, hydCache, work, workCache, hubVars, faults, changes>>

\* The HostedCluster and NodePools; a referenced one is read from the API server.
LoadManifests ==
  /\ pc = "manifests"
  /\ \/ /\ ByRef(mem.o) => references
        /\ mem' = [mem EXCEPT !.payload.pools = DeployedPools(mem.o)]
        /\ Goto("secrets") /\ UNCHANGED <<hyd, faults>>
     \/ ByRef(mem.o) /\ ~references /\ Reject
     \/ ByRef(mem.o) /\ references /\ Fault /\ Requeue /\ (ReportNotConfigured \/ UNCHANGED hyd)
  /\ UNCHANGED <<hydCache, work, workCache, hubVars, changes>>

LoadReferenceSecrets ==
  /\ pc = "secrets" /\ ~NilDereference(mem.o, mem.provider, hub)
  /\ \/ /\ ~ReferenceSecretMissing(mem.o, mem.provider, hub)
        /\ mem' = [mem EXCEPT !.payload.names   = NamedWith(mem.o, mem.provider),
                              !.payload.secrets = ReferenceSecretsFor(mem.o, mem.provider)]
        /\ Goto("configuration")
     \/ ReferenceSecretMissing(mem.o, mem.provider, hub) /\ Requeue
  /\ UNCHANGED <<hyd, hydCache, work, workCache, hubVars, faults, changes>>

\* Every key the payload may get, with a generated one that is not in use yet.
KeysFor(o) == EtcdKeys(o, hub, mem.old, GeneratedKeys \ {work.key, workCache.key})

\* Mutant: an error of a manifest function ends the reconcile without an error.
EnsureConfiguration_NoRequeue ==
  /\ pc = "configuration"
  /\ \/ /\ ~ConfigurationMissing(mem.o, hub, mem.old)
        /\ \E key \in KeysFor(mem.o) :
             mem' = [mem EXCEPT !.payload.key = key, !.payload.secrets = @ \cup Configuration(mem.o)]
        /\ Goto("write")
     \/ ConfigurationMissing(mem.o, hub, mem.old) /\ Done
  /\ UNCHANGED <<hyd, hydCache, work, workCache, hubVars, faults, changes>>

EnsureConfiguration ==
  LET found == {name \in Configuration(mem.o) : Found(mem.o, hub, mem.old, name)} IN
  /\ pc = "configuration"
  /\ \/ /\ ~ConfigurationMissing(mem.o, hub, mem.old)
        /\ \E key \in KeysFor(mem.o) :
             mem' = [mem EXCEPT !.payload.key = key, !.payload.secrets = @ \cup found]
        /\ Goto("write")
     \/ ConfigurationMissing(mem.o, hub, mem.old) /\ Requeue
  /\ UNCHANGED <<hyd, hydCache, work, workCache, hubVars, faults, changes>>

\* CreateOrUpdate reads the work from the cache once more; an update carries its version.
WriteWork ==
  /\ pc = "write"
  /\ \/ /\ workCache.exists => workCache = work
        /\ ~workCache.exists => ~work.exists
        /\ work' = [mem.payload EXCEPT !.exists = TRUE, !.reports = work.reports]
        /\ mem' = [mem EXCEPT !.status.work = "True"]
        /\ Goto("report") /\ NoFault
     \/ /\ workCache # work /\ (work.exists \/ workCache.exists)
        /\ Requeue /\ UNCHANGED work /\ NoFault
     \/ Fault /\ Requeue /\ UNCHANGED work
  /\ UNCHANGED <<hyd, hydCache, workCache, hubVars, changes>>

PatchStatus ==
  /\ pc = "report"
  /\ \/ hyd' \in Patches(mem.o.status, mem.status) /\ NoFault /\ Done
     \/ Fault /\ Requeue /\ UNCHANGED hyd
  /\ UNCHANGED <<hydCache, work, workCache, hubVars, changes>>

Step ==
  \/ ScaffoldSpec \/ BadPrincipal \/ PlatformReady
  \/ Validate \/ CheckSet \/ CheckBindings \/ CheckCluster \/ CheckMember
  \/ GetWork \/ LoadManifests \/ LoadReferenceSecrets \/ EnsureConfiguration
  \/ WriteWork \/ PatchStatus

\* An index or a pointer that is not there: the manager dies and starts over.
Panic ==
  /\ \/ pc = "scaffold" /\ OutOfZones(mem.o)
     \/ pc = "secrets" /\ NilDereference(mem.o, mem.provider, hub)
  /\ Requeue
  /\ UNCHANGED <<hyd, hydCache, work, workCache, hubVars, faults, changes>>

-----------------------------------------------------------------------------
(* What runs next to the worker. *)

Crash ==
  /\ pc # "idle" /\ Fault /\ Requeue
  /\ UNCHANGED <<hyd, hydCache, work, workCache, hubVars, changes>>

ObserveObject ==
  /\ hydCache # hyd
  /\ hydCache' = hyd /\ queued' = TRUE
  /\ UNCHANGED <<hyd, pc, mem, work, workCache, hubVars, seen, faults, changes>>

ObserveWork ==
  /\ workCache # work
  /\ workCache' = work /\ queued' = TRUE
  /\ UNCHANGED <<hyd, hydCache, pc, mem, work, hubVars, seen, faults, changes>>

\* The periodic resync; secrets, references and cluster sets are not watched.
Resync ==
  /\ ~queued /\ queued' = TRUE
  /\ UNCHANGED <<hyd, hydCache, pc, mem, work, workCache, hubVars, seen, faults, changes>>

Change == changes > 0 /\ changes' = changes - 1

AgentReports ==
  /\ Change /\ work.exists
  /\ \E reports \in AgentSays : work' = [work EXCEPT !.reports = reports]
  /\ UNCHANGED <<hyd, hydCache, queued, pc, mem, workCache, hubVars, seen, faults>>

UserEdits ==
  /\ Change /\ ~ByRef(hyd)
  /\ \E pools \in UserPools : hyd' = [hyd EXCEPT !.pools = pools]
  /\ UNCHANGED <<hydCache, queued, pc, mem, work, workCache, hubVars, seen, faults>>

Flipped(set, x) == IF x \in set THEN set \ {x} ELSE set \cup {x}

\* Someone creates or deletes what the controller reads on the hub.
HubChanges ==
  /\ Change
  /\ \/ /\ \E name \in hyd.names \ {"cloud"} : hub' = Flipped(hub, name)
        /\ UNCHANGED <<provider, references, fleet>>
     \/ /\ \E field \in {"principal", "ssh"} : provider' = [provider EXCEPT ![field] = ~@]
        /\ UNCHANGED <<hub, references, fleet>>
     \/ references' = ~references /\ ByRef(hyd) /\ UNCHANGED <<hub, provider, fleet>>
     \/ /\ \E fact \in Facts : fleet' = Flipped(fleet, fact)
        /\ UNCHANGED <<hub, provider, references>>
  /\ seen' = IF pc = "idle" THEN {} ELSE seen \cup fleet'
  /\ UNCHANGED <<hyd, hydCache, queued, pc, mem, work, workCache, faults>>

Next ==
  \/ Start \/ Step \/ Panic \/ Crash
  \/ ObserveObject \/ ObserveWork \/ Resync
  \/ AgentReports \/ UserEdits \/ HubChanges

Spec == Init /\ [][Next]_vars

\* The worker and the informers run on; users, agent, resync and faults owe nothing.
Fairness ==
  /\ WF_vars(Step) /\ WF_vars(Panic) /\ SF_vars(Start)
  /\ WF_vars(ObserveObject) /\ WF_vars(ObserveWork)

FairSpec == Spec /\ Fairness

-----------------------------------------------------------------------------
(* Properties *)

Steps == {"idle", "scaffold", "ready", "validate", "set", "bindings", "cluster", "member",
          "work", "manifests", "secrets", "configuration", "write", "report"}

(***************************************************************************)
(* The types, and that the scaffolding, however often it is retried, never *)
(* makes a NodePool of a name that is there already.                       *)
(***************************************************************************)
ContentTypeOK ==
  /\ hyd \in Object /\ hydCache \in Object /\ DistinctPools(hyd)
  /\ queued \in BOOLEAN /\ pc \in Steps /\ mem \in Memory
  /\ work \in Work /\ workCache \in Work
  /\ hub \subseteq Names /\ provider \in Provider /\ references \in BOOLEAN
  /\ fleet \subseteq Facts /\ seen \subseteq Facts
  /\ faults \in 0..MaxFaults /\ changes \in 0..MaxChanges

(***************************************************************************)
(* ensureConfiguration: whatever is created and deleted on the hub between *)
(* the reads of a reconcile, a ManifestWork is never written without a     *)
(* configuration secret or config map that its HostedCluster names, nor,   *)
(* on AWS, without a pull secret or ssh key.                               *)
(***************************************************************************)
PayloadClosed ==
  work.names \ work.secrets \subseteq (IF hyd.platform = "AWS" THEN {} ELSE ReferenceSecrets)

(***************************************************************************)
(* createOrUpdateMainfestwork: when nothing is left to do, the object says *)
(* of its HostedCluster and NodePools what the agent reported of them, and *)
(* the ManifestWork has the node pools of the object, although reports and *)
(* edits come in at any step of a reconcile that works on old copies.      *)
(***************************************************************************)
Settled == pc = "idle" /\ ~queued /\ hydCache = hyd /\ workCache = work

SettledStatus ==
  Settled /\ hyd.status.work = "True" =>
    /\ TellsTruth(hyd.status.nodePool, PoolNamesOf(hyd), work.reports)
    /\ TellsTruth(hyd.status.available, {HostedCluster}, work.reports)
    /\ work.pools = DeployedPools(hyd)

(***************************************************************************)
(* ScaffoldAWSHostedClusterSpec appends the owner's tag in each try; the   *)
(* tries are over before there is a ManifestWork, so a HostedCluster that  *)
(* is deployed does not get new tags ("to prevent the work always          *)
(* updating").                                                             *)
(***************************************************************************)
TagsSettled == [][work.exists => hyd'.tags = hyd.tags]_vars

(***************************************************************************)
(* ensureConfiguration: the etcd key that was generated for a HostedCluster*)
(* encrypts its data, so a later reconcile sends the same key, or one that *)
(* the user provides, and never another generated one.                     *)
(***************************************************************************)
EtcdKeyKept ==
  [][work.key \in GeneratedKeys => work'.key \in {work.key, UserKey}]_vars

\* The same on caches of any age: what a reconcile has found in the ManifestWork it does not replace.
SeenKeyKept ==
  [][work.key \in GeneratedKeys /\ mem.old.key = work.key
     => work'.key \notin GeneratedKeys \ {work.key}]_vars

(***************************************************************************)
(* validateSecurityConstraints: with ValidateClusterSecurity a reconcile   *)
(* writes the ManifestWork only if, since it began, the hosting cluster    *)
(* existed and one cluster set, the one the object names if it names one,  *)
(* existed, was bound to the namespace and had the hosting cluster in it.  *)
(***************************************************************************)
CheckedBeforeWritten ==
  [][ValidateClusterSecurity /\ pc = "write" /\ pc' = "report" =>
       /\ HostingCluster \in seen
       /\ \E s \in ClusterSets :
            {Exists(s), Bound(s), Selects(s)} \subseteq seen /\ mem.o.set \in {s, NoSet}]_vars

(***************************************************************************)
(* What a deployment needs on the hub.                                     *)
(***************************************************************************)
OnHub(o) == o.names \ ({"cloud"} \cup (IF o.configure THEN {"pull", "key"} ELSE {}))

Allowed(o) ==
  \E s \in ClusterSets : {HostingCluster, Exists(s), Bound(s), Selects(s)} \subseteq fleet
                           /\ o.set \in {s, NoSet}

Deployable ==
  /\ Valid(hyd) /\ OnHub(hyd) \subseteq hub
  /\ ValidateClusterSecurity => Allowed(hyd)
  /\ hyd.configure /\ ~hyd.ready => ~OutOfZones(hyd)
  /\ hyd.platform = "Azure" => provider.principal /\ ~ByRef(hyd)

Deployed == work.exists /\ hyd.status.work = "True" /\ work.pools = DeployedPools(hyd)

(***************************************************************************)
(* An object that has what it needs in the end is deployed, with the node  *)
(* pools it then has, although secrets, config maps and cluster sets are   *)
(* not watched: every failure asks for another reconcile.  For references  *)
(* it does not, so they must be there all along.                           *)
(***************************************************************************)
DeployedWhenPossible ==
  /\ ByRef(hyd) => []references
  /\ <>[]Deployable
  => <>[]Deployed
=============================================================================
