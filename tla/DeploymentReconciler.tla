------------------------ MODULE DeploymentReconciler ------------------------
(***************************************************************************)
(* The main controller: HypershiftDeploymentReconciler.Reconcile and every *)
(* function it calls that changes state, one action per API or cloud call. *)
(* One worker (MaxConcurrentReconciles is 1) takes a key from the work     *)
(* queue, copies the object out of the informer cache into mem and works   *)
(* on that copy; users, the informers, the work agent of the hosting       *)
(* cluster and the other controller run between any two of its calls.      *)
(***************************************************************************)
EXTENDS HubApi

CONSTANTS Platform,        \* spec.infrastructure.platform: "AWS" or "Azure"
          UserOverrides,   \* the values users edit spec.override to
          EditsDeleting,   \* whether users edit an object that is being deleted
          MaxEdits         \* how many edits users make

ASSUME ReconcilerAssumption ==
  /\ Platform \in {"AWS", "Azure"}
  /\ UserOverrides \subseteq Overrides
  /\ EditsDeleting \in BOOLEAN
  /\ MaxEdits \in Nat

VARIABLES queue,      \* the work queue: a set, the queue removes duplicates
          pc, key,    \* what the worker does next, and for which object
          mem,        \* its copy of that object
          fresh,      \* mem carries the server's current resourceVersion
          infra, iam, \* the infra IDs with infrastructure, with IAM, in the cloud
          work,       \* the ManifestWorks in the API server, by infra ID
          workCache,  \* the ManifestWorks in the informer cache
          hosted,     \* what the work agent keeps on the hosting cluster
          edits       \* the edits still to come

workerVars == <<pc, key, mem, fresh>>
cloudVars  == <<infra, iam>>
workVars   == <<work, workCache, hosted>>
vars == <<hd, cache, queue, workerVars, cloudVars, workVars, faults, edits>>

Options == {"Orphan", "SelectivelyOrphan", "Foreground"}

Work == [state    : {"absent", "present", "deleting"},
         option   : Options,
         observed : BOOLEAN,   \* Available is True for the current generation
         parts    : SUBSET Parts,
         owner    : HDs \cup {NoOwner}]

NoWork == [state |-> "absent", option |-> "Orphan", observed |-> FALSE,
           parts |-> {}, owner |-> NoOwner]

\* The work agent keeps the HostedCluster with its NodePools and the hosting namespace.
Kept == {"HostedCluster", "Namespace"}

Steps == {"idle", "migrate", "secret", "finalizer", "dispatch", "infra", "create",
          "scaffold", "platformTrue", "iamFalse", "createIAM", "patchIAM", "iamTrue",
          "badSecret", "notApplicable", "apply", "work", "destroy", "deleteWork",
          "deleteWorkNow", "destroyInfra", "callDestroy", "destroyIAM",
          "unfinalize"}

TypeOK ==
  /\ hd \in [HDs -> Object] /\ cache \in [HDs -> Object]
  /\ queue \subseteq HDs
  /\ pc \in Steps /\ key \in HDs /\ mem \in Object /\ fresh \in BOOLEAN
  /\ infra \subseteq InfraIDs /\ iam \subseteq InfraIDs
  /\ work \in [InfraIDs -> Work] /\ workCache \in [InfraIDs -> Work]
  /\ hosted \in [InfraIDs -> SUBSET Kept]
  /\ faults \in 0..MaxFaults /\ edits \in 0..MaxEdits

Init ==
  /\ hd \in [HDs -> NewObjects] /\ cache = hd
  /\ queue = HDs
  /\ pc = "idle" /\ key \in HDs /\ mem = ZeroObject /\ fresh = FALSE
  /\ infra = {} /\ iam = {}
  /\ work = [id \in InfraIDs |-> NoWork] /\ workCache = work
  /\ hosted = [id \in InfraIDs |-> {}]
  /\ faults = MaxFaults /\ edits = MaxEdits

-----------------------------------------------------------------------------
(* How a reconcile goes on and how it ends. *)

Goto(step, copy) == pc' = step /\ mem' = copy /\ UNCHANGED key

Return == pc' = "idle" /\ mem' = ZeroObject /\ fresh' = FALSE /\ UNCHANGED key

Done    == Return /\ UNCHANGED queue
Requeue == Return /\ queue' = queue \cup {key}   \* an error, or a result with Requeue

Store(o) == hd' = [hd EXCEPT ![key] = o]

(***************************************************************************)
(* patchHypershiftDeploymentResource: the base of the patch is read from   *)
(* the cache again, so every field in which the copy and the cache differ  *)
(* is written, whoever changed it.                                         *)
(***************************************************************************)
PatchResult(copy) == Patched(hd[key], cache[key], copy)
PatchAdmitted(copy) == cache[key].exists /\ Admits(hd[key], PatchResult(copy))

PatchObject(copy, next) ==
  /\ PatchAdmitted(copy) /\ NoFault
  /\ Store(PatchResult(copy))
  /\ Goto(next, Decoded(copy, PatchResult(copy))) /\ fresh' = TRUE
  /\ UNCHANGED queue

PatchObjectFails(copy) == FaultIf(PatchAdmitted(copy))

(***************************************************************************)
(* updateStatusConditionsOnChange with the given conditions True: nothing  *)
(* is sent when no condition changes, and a patch that is sent brings back *)
(* the server's object.  The text, reason and generation of a condition    *)
(* are not modelled, so a patch may also be sent for these alone.          *)
(***************************************************************************)
SendStatus_CopyKeepsVersion(copy, next) ==     \* mutant: the copy keeps its old resourceVersion
  /\ hd[key].exists /\ NoFault
  /\ Store(StatusPatched(hd[key], copy))
  /\ Goto(next, Decoded(copy, StatusPatched(hd[key], copy))) /\ fresh' = FALSE

SendStatus(copy, next) ==
  /\ hd[key].exists /\ NoFault
  /\ Store(StatusPatched(hd[key], copy))
  /\ Goto(next, Decoded(copy, StatusPatched(hd[key], copy))) /\ fresh' = TRUE

StatusUnchanged(ready, next) ==
  /\ ready = mem.ready /\ NoFault
  /\ Goto(next, mem) /\ UNCHANGED <<hd, fresh>>

StatusFails == FaultIf(hd[key].exists) /\ UNCHANGED hd

\* The callers that return the error of the status update.
SetReady(ready, next) ==
  \/ /\ \/ SendStatus([mem EXCEPT !.ready = ready], next)
        \/ StatusUnchanged(ready, next)
     /\ UNCHANGED queue
  \/ StatusFails /\ Requeue

\* The callers that ignore it and keep the condition in their copy.
SetReadyIgnoringError(ready, next) ==
  /\ \/ SendStatus([mem EXCEPT !.ready = ready], next)
     \/ StatusUnchanged(ready, next)
     \/ StatusFails /\ Goto(next, [mem EXCEPT !.ready = ready]) /\ UNCHANGED fresh
  /\ UNCHANGED queue

\* The last status update of a reconcile that ends: it reaches the server or not.
ReportReady(ready) ==
  \/ UNCHANGED hd
  \/ hd[key].exists /\ Store([hd[key] EXCEPT !.ready = ready])

-----------------------------------------------------------------------------
(* Reconcile, up to the choice between deletion and creation. *)

Start(h) ==
  /\ pc = "idle" /\ h \in queue
  /\ ReadsOwnWrites => cache = hd /\ workCache = work
  /\ queue' = queue \ {h}
  /\ key' = h
  /\ IF cache[h].exists
     THEN /\ pc' = "migrate" /\ mem' = cache[h]
          /\ fresh' = (cache[h] = hd[h])
     ELSE UNCHANGED <<pc, mem, fresh>>
  /\ UNCHANGED <<hd, cache, cloudVars, workVars, faults, edits>>

MigrateRoles ==
  LET migrated == [mem EXCEPT !.parts = @ \ {"roles"}] IN
  /\ pc = "migrate"
  /\ \/ /\ "roles" \in mem.parts
        /\ \/ PatchObject(migrated, "secret")
           \/ PatchObjectFails(migrated) /\ Requeue /\ UNCHANGED hd
     \/ "roles" \notin mem.parts /\ Goto("secret", mem) /\ UNCHANGED <<hd, queue, fresh, faults>>
  /\ UNCHANGED <<cache, cloudVars, workVars, edits>>

\* The provider secret is in the way of everything that follows, deletion included.
ReadProviderSecret ==
  /\ pc = "secret"
  /\ \/ /\ mem.configure \/ Platform = "Azure"
        /\ \/ SetReady(mem.ready, "finalizer")
           \/ Fault /\ Requeue /\ ReportReady(mem.ready)   \* the secret is missing
     \/ /\ ~mem.configure /\ Platform # "Azure"
        /\ Goto("finalizer", mem) /\ UNCHANGED <<hd, queue, fresh, faults>>
  /\ UNCHANGED <<cache, cloudVars, workVars, edits>>

\* utilrand.String: a random infra ID is one that is used nowhere.
Used == {hd[h].infraID : h \in HDs} \cup {cache[h].infraID : h \in HDs}
          \cup infra \cup iam \cup {id \in InfraIDs : work[id].state # "absent"}
NewIDs_NotGenerated == {mem.infraID}    \* mutant: an empty infra ID stays empty
NewIDs == IF mem.infraID = NoID THEN InfraIDs \ Used ELSE {mem.infraID}

EnsureFinalizer ==
  /\ pc = "finalizer"
  /\ \E id \in NewIDs :
       LET named == [mem EXCEPT !.infraID = id]
           final == [named EXCEPT !.finalizers = @ \cup {DestroyFinalizer}]
       IN  IF DestroyFinalizer \in mem.finalizers
           THEN Goto("dispatch", named) /\ UNCHANGED <<hd, queue, fresh, faults>>
           ELSE \/ PatchObject(final, "dispatch")
                \/ PatchObjectFails(final) /\ Requeue /\ UNCHANGED hd
  /\ UNCHANGED <<cache, cloudVars, workVars, edits>>

Dispatch ==
  /\ pc = "dispatch"
  /\ Goto(IF mem.deleting THEN "destroy" ELSE IF mem.configure THEN "infra" ELSE "notApplicable", mem)
  /\ UNCHANGED <<hd, cache, queue, fresh, cloudVars, workVars, faults, edits>>

-----------------------------------------------------------------------------
(* createAWSInfra and createAzureInfra *)

Configured(o) == IF Platform = "AWS" THEN o.ready = Conditions
                                     ELSE "PlatformConfigured" \in o.ready

\* Azure marks its IAM condition True in its copy, next to the first status update.
BeingConfigured ==
  (IF Platform = "AWS" THEN mem.ready ELSE mem.ready \cup {"PlatformIAMConfigured"})
    \ {"PlatformConfigured"}

\* The provider secret holds no readable service principal.
NoServicePrincipal ==
  /\ Platform = "Azure" /\ Fault
  /\ Goto("badSecret", mem) /\ UNCHANGED <<hd, queue, fresh>>

(***************************************************************************)
(* ProviderSecretConfigured turns False again, which wakes the worker, and *)
(* the reconcile goes on as if the platform step had succeeded.  In        *)
(* destroyHypershift an error of the status update has no requeue.         *)
(***************************************************************************)
ReportBadSecret ==
  /\ pc = "badSecret"
  /\ \/ /\ SendStatus(mem, IF mem.deleting THEN "unfinalize" ELSE "apply")
        /\ queue' = queue \cup {key}
     \/ StatusFails /\ IF mem.deleting THEN Done ELSE Requeue
  /\ UNCHANGED <<cache, cloudVars, workVars, edits>>

BeginInfra ==
  /\ pc = "infra"
  /\ \/ Configured(mem) /\ Goto("apply", mem) /\ UNCHANGED <<hd, queue, fresh, faults>>
     \/ ~Configured(mem) /\ SetReadyIgnoringError(BeingConfigured, "create")
     \/ NoServicePrincipal
  /\ UNCHANGED <<cache, cloudVars, workVars, edits>>

\* Mutant: a failure does not ask for another reconcile.
CreateInfra_NoRequeue ==
  /\ pc = "create"
  /\ \/ infra' = infra \cup {mem.infraID} /\ NoFault
        /\ Goto("scaffold", mem) /\ UNCHANGED <<hd, queue, fresh>>
     \/ infra' \in {infra, infra \cup {mem.infraID}} /\ Fault
        /\ Done /\ ReportReady(mem.ready)
  /\ UNCHANGED <<cache, iam, workVars, edits>>

\* A creator that fails may leave some of what it creates behind.
CreateInfra ==
  /\ pc = "create"
  /\ \/ infra' = infra \cup {mem.infraID} /\ NoFault
        /\ Goto("scaffold", mem) /\ UNCHANGED <<hd, queue, fresh>>
     \/ infra' \in {infra, infra \cup {mem.infraID}} /\ Fault
        /\ Requeue /\ ReportReady(mem.ready)
  /\ UNCHANGED <<cache, iam, workVars, edits>>

\* Mutant: an error of the patch is logged only.
ScaffoldSpec_IgnoresError ==
  LET scaffolded == [mem EXCEPT !.parts = @ \cup {"infra"}] IN
  /\ pc = "scaffold"
  /\ \/ PatchObject(scaffolded, "platformTrue")
     \/ PatchObjectFails(scaffolded) /\ Goto("platformTrue", scaffolded) /\ UNCHANGED <<hd, queue, fresh>>
  /\ UNCHANGED <<cache, cloudVars, workVars, edits>>

ScaffoldSpec ==
  LET scaffolded == [mem EXCEPT !.parts = @ \cup {"infra"}] IN
  /\ pc = "scaffold"
  /\ \/ PatchObject(scaffolded, "platformTrue")
     \/ PatchObjectFails(scaffolded) /\ Requeue /\ ReportReady(mem.ready)
  /\ UNCHANGED <<cache, cloudVars, workVars, edits>>

PlatformTrue ==
  /\ pc = "platformTrue"
  /\ SetReady(mem.ready \cup {"PlatformConfigured"},
              IF Platform = "AWS" THEN "iamFalse" ELSE "apply")
  /\ UNCHANGED <<cache, cloudVars, workVars, edits>>

IAMFalse ==
  /\ pc = "iamFalse"
  /\ SetReady(mem.ready \ {"PlatformIAMConfigured"}, "createIAM")
  /\ UNCHANGED <<cache, cloudVars, workVars, edits>>

\* Mutant: an error is logged only.
CreateIAM_IgnoresError ==
  /\ pc = "createIAM"
  /\ \/ iam' = iam \cup {mem.infraID} /\ NoFault /\ Goto("patchIAM", mem)
     \/ iam' \in {iam, iam \cup {mem.infraID}} /\ Fault /\ Goto("iamTrue", mem)
  /\ UNCHANGED <<hd, cache, queue, fresh, infra, workVars, edits>>

\* Without the OIDC bucket secret the reconcile ends, and the event of its report starts the next.
CreateIAM ==
  /\ pc = "createIAM"
  /\ \/ iam' = iam \cup {mem.infraID} /\ NoFault
        /\ Goto("patchIAM", mem) /\ UNCHANGED <<hd, queue, fresh>>
     \/ iam' \in {iam, iam \cup {mem.infraID}} /\ Fault   \* UNCHANGED iam: no bucket secret
        /\ Requeue /\ ReportReady(mem.ready)
  /\ UNCHANGED <<cache, infra, workVars, edits>>

\* A failed patch is reported in the status; its event, or its error, starts the next reconcile.
PatchIAM ==
  LET filled == [mem EXCEPT !.parts = @ \cup {"iam"}] IN
  /\ pc = "patchIAM"
  /\ \/ PatchObject(filled, "iamTrue")
     \/ PatchObjectFails(filled) /\ Requeue /\ ReportReady(mem.ready)
  /\ UNCHANGED <<cache, cloudVars, workVars, edits>>

IAMTrue ==
  /\ pc = "iamTrue"
  /\ SetReady(mem.ready \cup {"PlatformIAMConfigured"}, "apply")
  /\ UNCHANGED <<cache, cloudVars, workVars, edits>>

NotApplicable ==
  /\ pc = "notApplicable"
  /\ SetReadyIgnoringError({}, "apply")
  /\ UNCHANGED <<cache, cloudVars, workVars, edits>>

-----------------------------------------------------------------------------
(* setDefaultValueForHostedCluster and createOrUpdateMainfestwork *)

Applies_ReadyOnly == mem.override # "INFRA-ONLY" /\ mem.ready = Conditions     \* mutant
Applies == /\ mem.override # "INFRA-ONLY"
           /\ mem.ready = Conditions \/ ~mem.configure

SetDefaults ==
  LET set == [mem EXCEPT !.parts = @ \cup {"defaults"}] IN
  /\ pc = "apply"
  /\ \/ ~Applies /\ Done /\ UNCHANGED <<hd, faults>>
     \/ /\ Applies /\ "defaults" \in mem.parts
        /\ Goto("work", mem) /\ UNCHANGED <<hd, queue, fresh, faults>>
     \/ /\ Applies /\ "defaults" \notin mem.parts
        /\ \/ PatchObject(set, "work")
           \/ PatchObjectFails(set) /\ Requeue /\ UNCHANGED hd
  /\ UNCHANGED <<cache, cloudVars, workVars, edits>>

(***************************************************************************)
(* CreateOrUpdate: a create, or an update with the resourceVersion of the  *)
(* cached work.  An update is always sent, since a payload of objects      *)
(* never equals one of raw bytes; one that says nothing new may still list *)
(* the ManifestConfigs in another order, and then the agent starts anew.   *)
(***************************************************************************)
WriteWork(id) ==
  \/ /\ workCache[id].state = "absent" /\ work[id].state = "absent"
     /\ work' = [work EXCEPT ![id] = [NoWork EXCEPT !.state = "present",
                                        !.parts = mem.parts, !.owner = key]]
  \/ /\ workCache[id].state # "absent" /\ workCache[id] = work[id]
     /\ \E seen \in {FALSE, work[id].observed /\ work[id].parts = mem.parts} :
          work' = [work EXCEPT ![id].parts = mem.parts, ![id].observed = seen]

\* The create meets an existing object, or the update a newer one.
WorkConflict(id) ==
  \/ workCache[id].state = "absent" /\ work[id].state # "absent"
  \/ workCache[id].state # "absent" /\ workCache[id] # work[id]

\* The validation and payload errors before the write, and an error of the write itself.
ApplyWork ==
  LET id == mem.infraID IN
  /\ pc = "work"
  /\ \/ WriteWork(id) /\ hd[key].exists /\ NoFault /\ Done /\ ReportReady(mem.ready)
     \/ WriteWork(id) /\ StatusFails /\ Requeue
     \/ WorkConflict(id) /\ NoFault /\ Requeue /\ UNCHANGED <<hd, work>>
     \/ Fault /\ Requeue /\ ReportReady(mem.ready) /\ UNCHANGED work
  /\ UNCHANGED <<cache, cloudVars, workCache, hosted, edits>>

-----------------------------------------------------------------------------
(* destroyHypershift and deleteManifestworkWaitCleanUp *)

BeginDestroy ==
  /\ pc = "destroy"
  /\ IF ManagedClusterCleanupFinalizer \in mem.finalizers
     THEN Done    \* the other controller removes it, which wakes this one
     ELSE /\ Goto(IF mem.override = "INFRA-ONLY" THEN "destroyInfra" ELSE "deleteWork", mem)
          /\ UNCHANGED <<queue, fresh>>
  /\ UNCHANGED <<hd, cache, cloudVars, workVars, faults, edits>>

DeleteOption(override) ==
  CASE override = "ORPHAN" -> "Orphan"
    [] override = "DELETE-HOSTING-NAMESPACE" -> "Foreground"
    [] OTHER -> "SelectivelyOrphan"

\* No ManifestWork in the cache: it is taken to be gone from the hosting cluster.
WorkGone ==
  /\ pc = "deleteWork" /\ workCache[mem.infraID].state = "absent"
  /\ SetReadyIgnoringError(mem.ready, "destroyInfra")
  /\ UNCHANGED <<cache, cloudVars, workVars, edits>>

\* Mutant: the deletion goes on while the work agent is cleaning up.
WorkDeleting_DoesNotWait ==
  /\ pc = "deleteWork" /\ workCache[mem.infraID].state = "deleting"
  /\ SetReadyIgnoringError(mem.ready, "destroyInfra")
  /\ UNCHANGED <<cache, cloudVars, workVars, edits>>

WorkDeleting ==
  /\ pc = "deleteWork" /\ workCache[mem.infraID].state = "deleting"
  /\ Requeue /\ ReportReady(mem.ready) /\ NoFault
  /\ UNCHANGED <<cache, cloudVars, workVars, edits>>

\* Mutant: the delete option the ManifestWork was created with is taken as it is.
SetDeleteOption_NotPatched ==
  /\ pc = "deleteWork" /\ workCache[mem.infraID].state = "present"
  /\ Goto("deleteWorkNow", mem)
  /\ UNCHANGED <<hd, cache, queue, fresh, cloudVars, workVars, faults, edits>>

(***************************************************************************)
(* setManifestWorkSelectivelyDeleteOption: a new option is patched in and  *)
(* the delete waits until the agent has observed it; an orphaning delete   *)
(* neither patches nor waits.                                              *)
(***************************************************************************)
SetDeleteOption ==
  LET id     == mem.infraID
      option == DeleteOption(mem.override)
      seen   == workCache[id]
      patch  == option # "Orphan" /\ option # seen.option
      result == IF patch /\ work[id].option # option
                THEN [work[id] EXCEPT !.option = option, !.observed = FALSE]
                ELSE work[id]
      ready  == option = "Orphan" \/ (IF patch THEN result.observed ELSE seen.observed)
  IN
  /\ pc = "deleteWork" /\ seen.state = "present"
  /\ \/ /\ patch => work[id].state # "absent"
        /\ work' = [work EXCEPT ![id] = result] /\ NoFault
        /\ IF ready THEN Goto("deleteWorkNow", mem) /\ UNCHANGED <<hd, queue, fresh>>
                    ELSE Requeue /\ ReportReady(mem.ready)
     \/ /\ patch /\ FaultIf(work[id].state # "absent")
        /\ Requeue /\ ReportReady(mem.ready) /\ UNCHANGED work
  /\ UNCHANGED <<cache, cloudVars, workCache, hosted, edits>>

DeleteWork ==
  LET id == mem.infraID IN
  /\ pc = "deleteWorkNow"
  /\ \/ /\ work' = IF work[id].state = "present" THEN [work EXCEPT ![id].state = "deleting"] ELSE work
        /\ NoFault
     \/ UNCHANGED work /\ Fault
  /\ Requeue /\ ReportReady(mem.ready)
  /\ UNCHANGED <<cache, cloudVars, workCache, hosted, edits>>

BeginDestroyInfra ==
  /\ pc = "destroyInfra"
  /\ \/ /\ mem.override = "ORPHAN" \/ ~mem.configure
        /\ Goto("unfinalize", mem) /\ UNCHANGED <<hd, queue, fresh, faults>>
     \/ /\ mem.override # "ORPHAN" /\ mem.configure
        /\ \/ SetReadyIgnoringError(mem.ready \ {"PlatformConfigured"}, "callDestroy")
           \/ NoServicePrincipal
  /\ UNCHANGED <<cache, cloudVars, workVars, edits>>

\* The Azure result asks for a requeue in a way destroyHypershift does not look at.
DestroyInfra ==
  /\ pc = "callDestroy"
  /\ \/ /\ infra' = infra \ {mem.infraID}
        /\ IF Platform = "AWS"
           THEN SetReadyIgnoringError(mem.ready \ {"PlatformIAMConfigured"}, "destroyIAM")
           ELSE NoFault /\ Goto("unfinalize", mem) /\ UNCHANGED <<hd, queue, fresh>>
     \/ /\ UNCHANGED infra /\ Fault
        /\ IF Platform = "AWS"
           THEN Requeue /\ ReportReady(mem.ready)
           ELSE \/ hd[key].exists /\ Store(StatusPatched(hd[key], mem)) /\ UNCHANGED queue
                   /\ Goto("unfinalize", Decoded(mem, StatusPatched(hd[key], mem))) /\ fresh' = TRUE
                \/ Requeue /\ UNCHANGED hd
  /\ UNCHANGED <<cache, iam, workVars, edits>>

\* Mutant: the finalizer is removed although the IAM is still there.
DestroyIAM_IgnoresError ==
  /\ pc = "destroyIAM"
  /\ \/ iam' = iam \ {mem.infraID} /\ NoFault
     \/ UNCHANGED iam /\ Fault
  /\ Goto("unfinalize", mem)
  /\ UNCHANGED <<hd, cache, queue, fresh, infra, workVars, edits>>

\* Mutant: a failure does not ask for another reconcile.
DestroyIAM_NoRequeue ==
  /\ pc = "destroyIAM"
  /\ \/ iam' = iam \ {mem.infraID} /\ NoFault
        /\ Goto("unfinalize", mem) /\ UNCHANGED <<hd, queue, fresh>>
     \/ UNCHANGED iam /\ Fault /\ Done /\ ReportReady(mem.ready)
  /\ UNCHANGED <<cache, infra, workVars, edits>>

DestroyIAM ==
  /\ pc = "destroyIAM"
  /\ \/ iam' = iam \ {mem.infraID} /\ NoFault
        /\ Goto("unfinalize", mem) /\ UNCHANGED <<hd, queue, fresh>>
     \/ UNCHANGED iam /\ Fault /\ Requeue /\ ReportReady(mem.ready)
  /\ UNCHANGED <<cache, infra, workVars, edits>>

\* The only write with a resourceVersion: an Update of the whole main resource.
Unfinalized == Settle([mem EXCEPT !.finalizers = @ \ {DestroyFinalizer},
                                  !.exists = TRUE, !.ready = hd[key].ready])

RemoveDestroyFinalizer ==
  /\ pc = "unfinalize"
  /\ \/ /\ fresh /\ Admits(hd[key], Unfinalized) /\ NoFault
        /\ Store(Unfinalized) /\ Done
     \/ /\ FaultIf(fresh /\ Admits(hd[key], Unfinalized))
        /\ Requeue /\ UNCHANGED hd
  /\ UNCHANGED <<cache, cloudVars, workVars, edits>>

Step ==
  \/ MigrateRoles \/ ReadProviderSecret \/ EnsureFinalizer \/ Dispatch
  \/ BeginInfra \/ ReportBadSecret \/ CreateInfra \/ ScaffoldSpec \/ PlatformTrue
  \/ IAMFalse \/ CreateIAM \/ PatchIAM \/ IAMTrue \/ NotApplicable
  \/ SetDefaults \/ ApplyWork
  \/ BeginDestroy \/ WorkGone \/ WorkDeleting \/ SetDeleteOption \/ DeleteWork
  \/ BeginDestroyInfra \/ DestroyInfra \/ DestroyIAM \/ RemoveDestroyFinalizer

-----------------------------------------------------------------------------
(* What runs next to the worker. *)

\* The process ends in the middle of a reconcile; the next one lists every object.
Crash ==
  /\ pc # "idle" /\ Fault
  /\ Return /\ queue' = HDs
  /\ UNCHANGED <<hd, cache, cloudVars, workVars, edits>>

\* Mutant: an event counts only when the spec or the deletion timestamp has changed.
ObserveObject_NewGeneration(h) ==
  /\ cache[h] # hd[h]
  /\ cache' = [cache EXCEPT ![h] = hd[h]]
  /\ queue' = IF [cache[h] EXCEPT !.finalizers = {}, !.ready = {}] = [hd[h] EXCEPT !.finalizers = {}, !.ready = {}]
              THEN queue ELSE queue \cup {h}
  /\ UNCHANGED <<hd, workerVars, cloudVars, workVars, faults, edits>>

\* The informers catch up with the API server; an event puts its object in the queue.
ObserveObject(h) ==
  /\ cache[h] # hd[h]
  /\ cache' = [cache EXCEPT ![h] = hd[h]]
  /\ queue' = queue \cup {h}
  /\ UNCHANGED <<hd, workerVars, cloudVars, workVars, faults, edits>>

ObserveWork(id) ==
  /\ workCache[id] # work[id]
  /\ workCache' = [workCache EXCEPT ![id] = work[id]]
  /\ queue' = queue \cup ({work[id].owner, workCache[id].owner} \cap HDs)
  /\ UNCHANGED <<hd, cache, workerVars, cloudVars, work, hosted, faults, edits>>

\* The periodic resync, and the events of changes that are not modelled.
Resync(h) ==
  /\ h \notin queue /\ cache[h].exists
  /\ queue' = queue \cup {h}
  /\ UNCHANGED <<hd, cache, workerVars, cloudVars, workVars, faults, edits>>

\* A write of anyone else leaves the worker's copy without the current version.
WriteByOther(h, o) ==
  /\ hd' = [hd EXCEPT ![h] = o]
  /\ fresh' = (fresh /\ h # key)

UserDeletes(h) ==
  /\ hd[h].exists /\ ~hd[h].deleting
  /\ WriteByOther(h, Settle([hd[h] EXCEPT !.deleting = TRUE]))
  /\ UNCHANGED <<cache, queue, pc, key, mem, cloudVars, workVars, faults, edits>>

UserEdits(h) ==
  /\ edits > 0 /\ edits' = edits - 1
  /\ hd[h].exists /\ (hd[h].deleting => EditsDeleting)
  /\ \E o \in UserOverrides \ {hd[h].override} :
       WriteByOther(h, [hd[h] EXCEPT !.override = o])
  /\ UNCHANGED <<cache, queue, pc, key, mem, cloudVars, workVars, faults>>

\* The work agent applies the current generation and reports it Available.
AgentApplies(id) ==
  /\ work[id].state = "present" /\ ~work[id].observed
  /\ work' = [work EXCEPT ![id].observed = TRUE]
  /\ hosted' = [hosted EXCEPT ![id] = Kept]
  /\ UNCHANGED <<hd, cache, queue, workerVars, cloudVars, workCache, faults, edits>>

\* It removes what the delete option does not orphan, then lets the work go.
AgentCleansUp(id) ==
  /\ work[id].state = "deleting"
  /\ hosted' = [hosted EXCEPT ![id] = CASE work[id].option = "Orphan" -> @
                                        [] work[id].option = "Foreground" -> {}
                                        [] OTHER -> @ \ {"HostedCluster"}]
  /\ work' = [work EXCEPT ![id] = NoWork]
  /\ UNCHANGED <<hd, cache, queue, workerVars, cloudVars, workCache, faults, edits>>

Next ==
  \/ Step \/ Crash
  \/ \E h \in HDs : Start(h) \/ ObserveObject(h) \/ Resync(h)
                      \/ UserDeletes(h) \/ UserEdits(h)
  \/ \E id \in InfraIDs : ObserveWork(id) \/ AgentApplies(id) \/ AgentCleansUp(id)

Spec == Init /\ [][Next]_vars

(***************************************************************************)
(* The worker runs on, the queue is served in order, the informers and the *)
(* work agent do their part.  Users, the resync and faults owe nothing.    *)
(***************************************************************************)
Fairness ==
  /\ WF_vars(Step)
  /\ \A h \in HDs : SF_vars(Start(h)) /\ WF_vars(ObserveObject(h))
  /\ \A id \in InfraIDs : /\ WF_vars(ObserveWork(id))
                          /\ WF_vars(AgentApplies(id)) /\ WF_vars(AgentCleansUp(id))

FairSpec == Spec /\ Fairness

-----------------------------------------------------------------------------
(* Properties. *)

\* h answers for the cloud resources of id: it still has to remove them, or was to leave them.
AnswersFor(h, id) ==
  /\ hd[h].infraID = id /\ hd[h].configure
  /\ IF hd[h].exists THEN DestroyFinalizer \in hd[h].finalizers
                     ELSE hd[h].override = "ORPHAN"

(***************************************************************************)
(* No infrastructure and no IAM in the cloud without a HypershiftDeployment *)
(* that still has the destroy finalizer, under the infra ID it was created *)
(* with, or that was deleted with the override ORPHAN: what createAWSInfra *)
(* and createAzureInfra create, destroyHypershift finds again.             *)
(***************************************************************************)
InfraNotLeaked == \A id \in infra \cup iam : \E h \in HDs : AnswersFor(h, id)

(***************************************************************************)
(* What destroyHypershift promises to the user: the cloud resources of an  *)
(* object that is gone are gone, unless its override was ORPHAN.           *)
(***************************************************************************)
NothingLeftBehind ==
  \A h \in HDs : hd[h].exists \/ hd[h].override = "ORPHAN" \/ ~hd[h].configure
                  \/ hd[h].infraID \notin infra \cup iam

(***************************************************************************)
(* A ManifestWork in the API server has a HypershiftDeployment that still  *)
(* has the destroy finalizer and its infra ID, so that                     *)
(* deleteManifestworkWaitCleanUp will find and delete it.                  *)
(***************************************************************************)
WorkNotLeaked ==
  \A id \in InfraIDs : work[id].state # "absent" =>
    \E h \in HDs : /\ hd[h].exists /\ hd[h].infraID = id
                   /\ DestroyFinalizer \in hd[h].finalizers

\* The infra ID of an object, once in the API server, is never replaced by another.
InfraIDImmutable ==
  [][\A h \in HDs : hd[h].infraID # NoID => hd'[h].infraID = hd[h].infraID]_vars

(***************************************************************************)
(* "Infrastructure is the last step": the cloud resources of an ID are     *)
(* only taken away when no ManifestWork and no HostedCluster uses them.    *)
(***************************************************************************)
InfrastructureIsLastStep ==
  [][\A id \in (infra \ infra') \cup (iam \ iam') :
       work[id].state = "absent" /\ "HostedCluster" \notin hosted[id]]_vars

\* "Wait for the nodepools and hostedcluster in hosting namespace is deleted (via the work agent)":
\* while a ManifestWork is in the API server the cloud resources of its ID stay.
InfrastructureWaits ==
  [][\A id \in (infra \ infra') \cup (iam \ iam') : work[id].state = "absent"]_vars

(***************************************************************************)
(* The conditions that open the way to the ManifestWork tell the truth:    *)
(* while an object is not being deleted, the platform it reports           *)
(* configured is in the cloud and its outputs are in the spec.             *)
(***************************************************************************)
ReadyIsTrue ==
  \A h \in HDs : hd[h].exists /\ ~hd[h].deleting =>
    /\ "PlatformConfigured" \in hd[h].ready =>
         hd[h].infraID \in infra /\ "infra" \in hd[h].parts
    /\ Platform = "AWS" /\ "PlatformIAMConfigured" \in hd[h].ready =>
         hd[h].infraID \in iam /\ "iam" \in hd[h].parts

(***************************************************************************)
(* "ORPHAN: the ManifestWork items are left behind": a work is deleted     *)
(* with the delete option the override of its object calls for at that     *)
(* time, although the option is patched in by an earlier reconcile and the *)
(* override read from a copy.                                              *)
(***************************************************************************)
DeletedAsTold ==
  [][\A id \in InfraIDs : work[id].state = "present" /\ work'[id].state = "deleting" =>
       /\ (work[id].option = "Orphan") = (hd[key].override = "ORPHAN")
       /\ (work[id].option = "Foreground") = (hd[key].override = "DELETE-HOSTING-NAMESPACE")]_vars

\* "When the HypershiftDeployment resource is updated, the changes are made": what a user
\* writes into the spec is not taken back by a patch of the controller.
EditsKept ==
  [][\A h \in HDs :
       hd[h].exists /\ hd'[h].exists /\ hd'[h].override # hd[h].override => edits' # edits]_vars

\* Every object a user deletes goes away in the end, through any finite number of faults.
DeletionCompletes == \A h \in HDs : hd[h].deleting ~> ~hd[h].exists

\* Every object is deployed in the end, deleted, or kept from it by its override.
DeploymentCompletes ==
  \A h \in HDs : hd[h].exists ~>
    \/ hd[h].deleting \/ hd[h].override = "INFRA-ONLY"
    \/ hd[h].infraID # NoID /\ "HostedCluster" \in hosted[hd[h].infraID]

\* What is sent to the hosting cluster was scaffolded from finished infrastructure.
WorkIsComplete ==
  \A id \in InfraIDs : work[id].state # "absent" /\ hd[work[id].owner].configure =>
    (IF Platform = "AWS" THEN {"infra", "iam"} ELSE {"infra"}) \subseteq work[id].parts

=============================================================================
