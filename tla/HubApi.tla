------------------------------- MODULE HubApi -------------------------------
(***************************************************************************)
(* The HypershiftDeployment objects as the two controllers see them        *)
(* through the Kubernetes API of the hub: what the API server stores       *)
(* (hd), what the manager's informer cache holds (cache), and the writes   *)
(* the controllers make.  None of the writes below carries an optimistic   *)
(* lock: a merge patch is the difference of two copies of the writer, and  *)
(* the server applies it to whatever it stores at that time.               *)
(***************************************************************************)
EXTENDS Integers, FiniteSets

CONSTANTS HDs,        \* the HypershiftDeployments, by namespace and name
          InfraIDs,   \* the values spec.infra-id can take
          NoID,       \* spec.infra-id is empty
          NoOwner,    \* no HypershiftDeployment
          NewObjects, \* the HypershiftDeployments as users submit them
          ReadsOwnWrites,  \* whether a reconcile starts on caches that are caught up
          MaxFaults   \* how many calls fail and how often the process dies

VARIABLES hd,         \* the objects in the API server
          cache,      \* the objects in the informer cache of the manager
          faults      \* the faults still to come

DestroyFinalizer == "finalizer"
ManagedClusterCleanupFinalizer == "managedcluster-cleanup"
Finalizers == {DestroyFinalizer, ManagedClusterCleanupFinalizer}

Overrides == {"none", "ORPHAN", "INFRA-ONLY", "DELETE-HOSTING-NAMESPACE"}

(***************************************************************************)
(* The parts of the spec the controller fills in: "roles" is the           *)
(* deprecated role list (the only part the controller takes away), "infra" *)
(* the HostedCluster and NodePools scaffolded from the infrastructure,     *)
(* "iam" the role ARNs and issuer URL, "defaults" the cluster ID and the   *)
(* OLM placement.                                                          *)
(***************************************************************************)
Parts == {"roles", "infra", "iam", "defaults"}

\* The status conditions the reconciler branches on, when they are True.
Conditions == {"PlatformConfigured", "PlatformIAMConfigured"}

Object == [exists     : BOOLEAN,
           deleting   : BOOLEAN,              \* deletionTimestamp is set
           finalizers : SUBSET Finalizers,
           infraID    : InfraIDs \cup {NoID},
           override   : Overrides,
           configure  : BOOLEAN,              \* spec.infrastructure.configure
           createMC   : {"absent", "true", "false"},
           parts      : SUBSET Parts,
           ready      : SUBSET Conditions]

\* The zero value of the struct, which is also what is left of a gone object.
ZeroObject == [exists |-> FALSE, deleting |-> FALSE, finalizers |-> {},
               infraID |-> NoID, override |-> "none",
               configure |-> FALSE, createMC |-> "absent", parts |-> {}, ready |-> {}]

ASSUME HubAssumption ==
  /\ NoID \notin InfraIDs /\ NoOwner \notin HDs
  /\ NewObjects \subseteq {o \in Object : /\ o.exists /\ ~o.deleting
                                          /\ o.finalizers = {} /\ o.ready = {}
                                          /\ o.configure => o.parts \subseteq {"roles", "defaults"}}
  /\ ReadsOwnWrites \in BOOLEAN
  /\ MaxFaults \in Nat

Fault   == faults > 0 /\ faults' = faults - 1
NoFault == UNCHANGED faults
FaultIf(allowed) == IF allowed THEN Fault ELSE NoFault  \* a call that would have succeeded

(***************************************************************************)
(* A JSON merge patch: a field the writer changed from base to mine        *)
(* replaces the server's; any other keeps the server's value.  The         *)
(* finalizers are a list, replaced as a whole; the parts are fields of a   *)
(* struct, merged one by one.                                              *)
(***************************************************************************)
MergeField(server, base, mine) == IF mine = base THEN server ELSE mine

MergeStruct(server, base, mine) ==
  (server \ (base \ mine)) \cup (mine \ base)

\* The API server removes an object that is being deleted with its last finalizer.
Settle(o) == [o EXCEPT !.exists = o.exists /\ (o.deleting => o.finalizers # {})]

\* What a merge patch of the main resource leaves in the server; status is not written.
Patched(server, base, mine) ==
  Settle([server EXCEPT
    !.finalizers = MergeField(server.finalizers, base.finalizers, mine.finalizers),
    !.infraID    = MergeField(server.infraID, base.infraID, mine.infraID),
    !.override   = MergeField(server.override, base.override, mine.override),
    !.createMC   = MergeField(server.createMC, base.createMC, mine.createMC),
    !.parts      = MergeStruct(server.parts, base.parts, mine.parts)])

\* What a merge patch of the status leaves: the condition list is replaced as a whole.
StatusPatched(server, mine) == [server EXCEPT !.ready = mine.ready]

\* The server accepts a write: the object is there, and gets no new finalizer once deleting.
Admits(server, result) ==
  /\ server.exists
  /\ server.deleting => result.finalizers \subseteq server.finalizers

(***************************************************************************)
(* The client decodes the response of a write into the caller's struct: a  *)
(* field the response omits because it is empty keeps the caller's value.  *)
(***************************************************************************)
Decoded(mine, response) ==
  [response EXCEPT
    !.finalizers = IF @ = {} THEN mine.finalizers ELSE @,
    !.infraID    = IF @ = NoID THEN mine.infraID ELSE @,
    !.override   = IF @ = "none" THEN mine.override ELSE @,
    !.createMC   = IF @ = "absent" THEN mine.createMC ELSE @,
    !.parts      = @ \cup mine.parts]
=============================================================================
