--------------------------- MODULE DeletionProofs ---------------------------
(***************************************************************************)
(* The order of a deletion and the option it is carried out with, for      *)
(* every set of objects and infra IDs, on either platform.  The reconcile  *)
(* starts on caches that are caught up, users leave an object alone that   *)
(* they have deleted, and they do not clear an override: the decoding of a *)
(* patch response does not see an override that was cleared.               *)
(***************************************************************************)
EXTENDS WorkProofs

DeletionTerms ==
  ReadsOwnWrites = TRUE /\ EditsDeleting = FALSE /\ "none" \notin UserOverrides

-----------------------------------------------------------------------------
(* The override of an object that is being deleted.                        *)

\* A copy that knows of the deletion has the override of the object, and none is not mistaken.
FrozenOverride ==
  pc # "idle" => /\ mem.deleting => mem.override = hd[key].override
                 /\ hd[key].override = "none" => mem.override = "none"

\* Nobody will change the override of h any more.
Frozen(h) == hd[h].deleting /\ (pc # "idle" /\ key = h => mem.deleting)

LEMMA OverrideKeeps ==
  ASSUME DeletionTerms, TypeInv, IDInv, FrozenOverride, [Next]_vars PROVE FrozenOverride'
<1>1. CASE Step
  BY <1>1, StepWorker, StepOverride, StepObject
     DEF OverrideMoves, Answered, FrozenOverride
<1>2. CASE Beside
  <2>1. ASSUME pc # "idle"
        PROVE  /\ mem.deleting => hd'[key].override = hd[key].override
               /\ hd'[key].override = "none" => hd[key].override = "none"
    BY <1>2, <2>1, BesideObjects
       DEF UserMay, DeletionTerms, IDInv, Mirror, TypeInv, CallInv, WorkerInv
  <2>2. CASE UNCHANGED <<pc, key, mem>>
    BY <2>1, <2>2 DEF FrozenOverride
  <2>3. CASE pc' = "idle" \/ (mem' = hd[key'] /\ hd' = hd)
    BY <2>3 DEF FrozenOverride
  <2> QED BY <1>2, <2>2, <2>3, BesideWorker DEF DeletionTerms
<1> QED BY <1>1, <1>2, NextSplit

LEMMA FrozenKept ==
  ASSUME DeletionTerms, TypeInv, IDInv, FrozenOverride, [Next]_vars,
         NEW h \in HDs, Frozen(h)
  PROVE  Frozen(h)' /\ hd'[h].override = hd[h].override
<1>1. CASE Step
  <2>1. pc # "idle" /\ key' = key /\ OverrideMoves /\ OthersStay
        /\ (pc' # "idle" => (mem.deleting => mem'.deleting))
    BY <1>1, StepWorker, StepOverride, StepObject
  <2>2. CASE h # key
    BY <2>1, <2>2 DEF OthersStay, Frozen
  <2>3. CASE h = key
    <3>1. mem.deleting /\ hd'[key].override = hd[key].override
      BY <2>1, <2>3 DEF Frozen, FrozenOverride, OverrideMoves
    <3>2. hd'[key].deleting
      <4>1. CASE AllFollow
        BY <2>3, <4>1 DEF AllFollow, Follows, Frozen
      <4>2. ASSUME NEW p, NEW id, Store(p), AdoptsAs(p, id) PROVE hd'[key].deleting
        BY <2>3, <4>2 DEF Store, AdoptsAs, Adopts, Frozen, TypeInv, CallInv
      <4>3. CASE Store(Unfinalized) /\ Unfinalized.deleting
        BY <2>3, <4>3 DEF Store, TypeInv, CallInv
      <4> QED BY <1>1, <2>1, <4>1, <4>2, <4>3, StepSplit, OrdinaryTame, TameFollows,
                 EnsureFinalizerEffect, RemoveEffect DEF IDInv, Sends
    <3> QED BY <2>1, <2>3, <3>1, <3>2 DEF Frozen
  <2> QED BY <2>2, <2>3
<1>2. CASE Beside
  <2>1. hd'[h].deleting /\ hd'[h].override = hd[h].override
    BY <1>2, BesideObjects DEF UserMay, Follows, Frozen, DeletionTerms
  <2> QED BY <1>2, <2>1, BesideWorker DEF Frozen, DeletionTerms
<1> QED BY <1>1, <1>2, NextSplit

\* The object that the worker deletes is frozen.
LEMMA KeyFrozen ==
  ASSUME TypeInv, IDInv, FrozenOverride, pc \in Destroying
  PROVE  Frozen(key) /\ mem.override = hd[key].override /\ mem.infraID = hd[key].infraID
         /\ key \in HDs /\ mem.infraID \in InfraIDs
BY MemFacts DEF IDInv, Guarded, Mirror, Destroying, Early, Frozen, FrozenOverride,
                TypeInv, CallInv, WorkerInv

-----------------------------------------------------------------------------
(* The state and the delete option of the ManifestWorks, step by step.     *)

\* What the worker does to the work of id.
Created(id) == /\ pc = "work" /\ pc' = "idle" /\ id = mem.infraID
               /\ work[id].state = "absent"
               /\ work'[id].state = "present" /\ work'[id].option = "Orphan"

Updated(id) == /\ pc = "work" /\ pc' = "idle" /\ id = mem.infraID
               /\ work'[id].state = work[id].state /\ work'[id].option = work[id].option

Told(id) == /\ pc = "deleteWork" /\ pc' \in {"idle", "deleteWorkNow"} /\ id = mem.infraID
            /\ work[id].state # "absent" /\ work'[id].state = work[id].state
            /\ work'[id].option = DeleteOption(mem.override)

Deleted(id) == /\ pc = "deleteWorkNow" /\ pc' = "idle" /\ id = mem.infraID
               /\ work[id].state = "present" /\ work'[id].state = "deleting"
               /\ work'[id].option = work[id].option

LEMMA StepMoves ==
  ASSUME TypeInv, Step, NEW id \in InfraIDs
  PROVE  \/ work'[id] = work[id]
         \/ Created(id) \/ Updated(id) \/ Told(id) \/ Deleted(id)
<1>1. work \in [InfraIDs -> Work] /\ work[id] \in Work
  BY DEF TypeInv, RestInv
<1>2. CASE ApplyWork
  <2>1. mem.infraID \in InfraIDs /\ work[mem.infraID] \in Work
    BY <1>2, MemFacts DEF ApplyWork, Early, TypeInv, RestInv
  <2>2. pc = "work" /\ pc' = "idle" /\ (WriteWork(mem.infraID) \/ UNCHANGED work)
    BY <1>2 DEF ApplyWork, Done, Requeue, Return
  <2>3. CASE WriteWork(mem.infraID)
    <3>1. CASE /\ work[mem.infraID].state = "absent"
               /\ work' = [work EXCEPT ![mem.infraID] = [NoWork EXCEPT !.state = "present",
                                                            !.parts = mem.parts, !.owner = key]]
      BY <1>1, <2>1, <2>2, <3>1 DEF Created, NoWork
    <3>2. ASSUME NEW seen,
                 work' = [work EXCEPT ![mem.infraID].parts = mem.parts,
                                      ![mem.infraID].observed = seen]
          PROVE  work'[id] = work[id] \/ Updated(id)
      BY <1>1, <2>1, <2>2, <3>2 DEF Updated, Work
    <3> QED BY <2>3, <3>1, <3>2 DEF WriteWork
  <2> QED BY <2>2, <2>3
<1>3. CASE SetDeleteOption
  <2>1. /\ pc = "deleteWork" /\ mem.infraID \in InfraIDs
        /\ pc' \in {"idle", "deleteWorkNow"}
    BY <1>3, MemFacts DEF SetDeleteOption, Early, Goto, Requeue, Return
  <2> DEFINE w == [work[mem.infraID] EXCEPT !.option = DeleteOption(mem.override), !.observed = FALSE]
  <2>2. \/ work' = work \/ work' = [work EXCEPT ![mem.infraID] = work[mem.infraID]]
        \/ work' = [work EXCEPT ![mem.infraID] = w] /\ work[mem.infraID].state # "absent"
    BY <1>3 DEF SetDeleteOption
  <2>3. w.state = work[mem.infraID].state /\ w.option = DeleteOption(mem.override)
    BY <1>1, <2>1 DEF Work, TypeInv, RestInv
  <2> HIDE DEF w
  <2> QED BY <1>1, <2>1, <2>2, <2>3 DEF Told
<1>4. CASE DeleteWork
  <2>1. /\ pc = "deleteWorkNow" /\ mem.infraID \in InfraIDs /\ pc' = "idle"
        /\ \/ UNCHANGED work
           \/ /\ work[mem.infraID].state = "present"
              /\ work' = [work EXCEPT ![mem.infraID].state = "deleting"]
    BY <1>4, MemFacts DEF DeleteWork, Early, Requeue, Return
  <2> QED BY <1>1, <2>1 DEF Deleted, Work
<1>5. CASE ~(ApplyWork \/ SetDeleteOption \/ DeleteWork)
  <2>1. UNCHANGED work
    BY <1>5 DEF Step, MigrateRoles, ReadProviderSecret, EnsureFinalizer, Dispatch, BeginInfra,
         ReportBadSecret, CreateInfra, ScaffoldSpec, PlatformTrue, IAMFalse, CreateIAM, PatchIAM,
         IAMTrue, NotApplicable, SetDefaults, BeginDestroy, WorkGone, WorkDeleting,
         BeginDestroyInfra, DestroyInfra, DestroyIAM, RemoveDestroyFinalizer, workVars
  <2> QED BY <2>1
<1> QED BY <1>2, <1>3, <1>4, <1>5

\* And what the work agent does: it applies a work that is there, or cleans up one that is deleted.
Applied(id) == /\ work[id].state = "present" /\ work'[id].state = "present"
               /\ work'[id].option = work[id].option

CleanedUp(id) == /\ work[id].state = "deleting" /\ work'[id].state = "absent"
                 /\ "HostedCluster" \in hosted'[id] =>
                      work[id].option = "Orphan" /\ "HostedCluster" \in hosted[id]

LEMMA BesideMoves ==
  ASSUME TypeInv, Beside, NEW id \in InfraIDs
  PROVE  \/ work'[id] = work[id] /\ hosted'[id] = hosted[id]
         \/ Applied(id)
         \/ CleanedUp(id)
<1>1. /\ work \in [InfraIDs -> Work] /\ work[id] \in Work
      /\ hosted \in [InfraIDs -> SUBSET Kept]
  BY DEF TypeInv, RestInv
<1>2. ASSUME NEW i \in InfraIDs, AgentApplies(i)
      PROVE  (work'[id] = work[id] /\ hosted'[id] = hosted[id]) \/ Applied(id)
  BY <1>1, <1>2 DEF AgentApplies, Applied, Work
<1>3. ASSUME NEW i \in InfraIDs, AgentCleansUp(i)
      PROVE  (work'[id] = work[id] /\ hosted'[id] = hosted[id]) \/ CleanedUp(id)
  <2>1. work' = [work EXCEPT ![i] = NoWork] /\ work[i].state = "deleting"
    BY <1>3 DEF AgentCleansUp
  <2>2. CASE work[i].option = "Orphan"
    BY <1>1, <1>3, <2>1, <2>2 DEF AgentCleansUp, CleanedUp, NoWork
  <2>3. CASE work[i].option # "Orphan"
    BY <1>1, <1>3, <2>1, <2>3 DEF AgentCleansUp, CleanedUp, NoWork
  <2> QED BY <2>2, <2>3
<1>4. CASE UNCHANGED <<work, hosted>>
  BY <1>4
<1>5. CASE \/ UNCHANGED vars \/ Crash
           \/ \E h \in HDs : Start(h) \/ ObserveObject(h) \/ Resync(h) \/ UserDeletes(h) \/ UserEdits(h)
           \/ \E i \in InfraIDs : ObserveWork(i)
  BY <1>4, <1>5 DEF vars, workVars, Crash, Start, ObserveObject, Resync, UserDeletes, UserEdits,
                    ObserveWork
<1> QED BY <1>2, <1>3, <1>5 DEF Beside

-----------------------------------------------------------------------------
(* The delete option of a work is the one its object calls for.            *)

\* An option that was patched in is the one of a deletion that is decided.
OptionTold ==
  \A id \in InfraIDs, h \in HDs :
    work[id].state # "absent" /\ work[id].option # "Orphan" /\ hd[h].infraID = id =>
      Frozen(h) /\ work[id].option = DeleteOption(hd[h].override)

\* A work that is being deleted is so with the option its object calls for.
DeletedOption ==
  \A id \in InfraIDs, h \in HDs :
    work[id].state = "deleting" /\ hd[h].infraID = id =>
      Frozen(h) /\ work[id].option = DeleteOption(hd[h].override)

\* The option the reconcile has seen is the current one until it patches in another itself.
SeenOption ==
  pc # "idle" => \A id \in InfraIDs : work[id].state # "absent" =>
    workCache[id].option = work[id].option \/ pc = "deleteWorkNow"

DeleteNow ==
  pc = "deleteWorkNow" /\ work[mem.infraID].state = "present" =>
    work[mem.infraID].option = DeleteOption(mem.override)

ToldInv == FrozenOverride /\ OptionTold /\ DeletedOption /\ SeenOption /\ DeleteNow

\* An object with the ID of a work had that ID when the work was made.
LEMMA IDBefore ==
  ASSUME TypeInv, IDInv, [Next]_vars, NEW id \in InfraIDs, work[id].state # "absent",
         NEW h \in HDs, hd'[h].infraID = id
  PROVE  hd[h].infraID = id
BY IDChange DEF IDKept, Used

\* Deletions that are told of an option tell the one of the object, the worker's own.
LEMMA OptionsKept ==
  ASSUME DeletionTerms, TypeInv, IDInv, DistinctIDs, ToldInv, [Next]_vars
  PROVE  OptionTold' /\ DeletedOption'
<1> SUFFICES ASSUME NEW id \in InfraIDs, NEW h \in HDs, hd'[h].infraID = id,
                    \/ work'[id].state # "absent" /\ work'[id].option # "Orphan"
                    \/ work'[id].state = "deleting"
             PROVE  Frozen(h)' /\ work'[id].option = DeleteOption(hd'[h].override)
  BY DEF OptionTold, DeletedOption
<1>1. ASSUME Frozen(h), work'[id].option = DeleteOption(hd[h].override)
      PROVE  Frozen(h)' /\ work'[id].option = DeleteOption(hd'[h].override)
  BY <1>1, FrozenKept DEF ToldInv
<1>2. CASE /\ work[id].state # "absent" /\ work'[id].state = work[id].state
           /\ work'[id].option = work[id].option
  <2>1. hd[h].infraID = id
    BY <1>2, IDBefore
  <2>2. Frozen(h) /\ work[id].option = DeleteOption(hd[h].override)
    BY <1>2, <2>1 DEF ToldInv, OptionTold, DeletedOption
  <2> QED BY <1>1, <1>2, <2>2
<1>3. ASSUME pc \in Destroying, id = mem.infraID, work[id].state # "absent",
             work'[id].option = DeleteOption(mem.override)
      PROVE  Frozen(h)' /\ work'[id].option = DeleteOption(hd'[h].override)
  <2>1. /\ Frozen(key) /\ mem.override = hd[key].override /\ key \in HDs
        /\ hd[key].infraID = id /\ id # NoID
    BY <1>3, KeyFrozen, HubAssumption DEF ToldInv
  <2>2. h = key
    BY <1>3, <2>1, IDBefore DEF DistinctIDs
  <2> QED BY <1>1, <1>3, <2>1, <2>2
<1>4. CASE Step
  <2>1. CASE work'[id] = work[id] \/ Updated(id)
    BY <1>2, <2>1 DEF Updated
  <2>2. CASE Told(id)
    BY <1>3, <2>2 DEF Told, Destroying
  <2>3. CASE Deleted(id)
    BY <1>3, <2>3 DEF Deleted, Destroying, ToldInv, DeleteNow
  <2>4. ~Created(id)
    BY DEF Created
  <2> QED BY <1>4, <2>1, <2>2, <2>3, <2>4, StepMoves
<1>5. CASE Beside
  BY <1>2, <1>5, BesideMoves DEF Applied, CleanedUp
<1> QED BY <1>4, <1>5, NextSplit

\* A reconcile that goes on to the delete has the option in place.
LEMMA ReadyToDelete ==
  ASSUME TypeInv, IDInv, DistinctIDs, ToldInv, SetDeleteOption, pc' = "deleteWorkNow",
         work'[mem.infraID].state = "present"
  PROVE  work'[mem.infraID].option = DeleteOption(mem.override) /\ mem' = mem
<1> DEFINE id == mem.infraID
           option == DeleteOption(mem.override)
           patch == option # "Orphan" /\ option # workCache[id].option
<1>1. pc = "deleteWork" /\ work \in [InfraIDs -> Work]
  BY DEF SetDeleteOption, TypeInv, RestInv
<1>2. /\ Frozen(key) /\ mem.override = hd[key].override /\ key \in HDs /\ id \in InfraIDs
      /\ hd[key].infraID = id
  BY <1>1, KeyFrozen DEF ToldInv, Destroying
<1> DEFINE told == [work[id] EXCEPT !.option = option, !.observed = FALSE]
<1>3. /\ mem' = mem
      /\ work' = [work EXCEPT ![id] = IF patch /\ work[id].option # option THEN told ELSE work[id]]
  BY DEF SetDeleteOption, Goto, Requeue, Return
<1>4. told.option = option
  BY <1>1, <1>2 DEF Work, TypeInv, RestInv
<1> HIDE DEF told
<1>5. work'[id] = IF patch /\ work[id].option # option THEN told ELSE work[id]
  BY <1>1, <1>2, <1>3
<1>6. CASE patch
  BY <1>3, <1>4, <1>5, <1>6
<1>7. CASE ~patch
  <2>1. work'[id] = work[id] /\ work[id].state = "present"
    BY <1>5, <1>7
  <2>2. work[id].option # "Orphan" => work[id].option = option
    BY <1>2, <2>1 DEF ToldInv, OptionTold
  <2>3. workCache[id].option = work[id].option
    BY <1>1, <1>2, <2>1 DEF ToldInv, SeenOption
  <2> QED BY <1>3, <1>7, <2>1, <2>2, <2>3
<1> QED BY <1>6, <1>7

\* The delete is the last call of its reconcile.
LEMMA StepFromNow == ASSUME Step, pc = "deleteWorkNow" PROVE pc' = "idle"
BY DEF Step, MigrateRoles, ReadProviderSecret, EnsureFinalizer, Dispatch, BeginInfra,
       ReportBadSecret, CreateInfra, ScaffoldSpec, PlatformTrue, IAMFalse, CreateIAM, PatchIAM,
       IAMTrue, NotApplicable, SetDefaults, ApplyWork, BeginDestroy, WorkGone, WorkDeleting,
       SetDeleteOption, DeleteWork, BeginDestroyInfra, DestroyInfra, DestroyIAM,
       RemoveDestroyFinalizer, Requeue, Return

LEMMA SeenKept ==
  ASSUME DeletionTerms, TypeInv, IDInv, DistinctIDs, ToldInv, [Next]_vars
  PROVE  SeenOption' /\ DeleteNow'
<1>1. CASE Step
  <2>1. pc # "idle" /\ workCache' = workCache
    BY <1>1, StepWorker
  <2>2. SeenOption'
    BY <1>1, <2>1, StepMoves, StepFromNow DEF ToldInv, SeenOption, Created, Updated, Told, Deleted
  <2>3. DeleteNow'
    <3> SUFFICES ASSUME pc' = "deleteWorkNow", work'[mem'.infraID].state = "present"
                 PROVE  work'[mem'.infraID].option = DeleteOption(mem'.override)
      BY DEF DeleteNow
    <3>1. SetDeleteOption
      BY <1>1, StepSplit, OrdinaryTame, EnsureFinalizerEffect, RemoveEffect DEF DestroyFlow
    <3>2. mem' = mem
      BY <3>1 DEF SetDeleteOption, Goto, Requeue, Return
    <3> QED BY <3>1, <3>2, ReadyToDelete
  <2> QED BY <2>2, <2>3
<1>2. CASE Beside
  <2>1. CASE UNCHANGED <<pc, key, mem>>
    <3>1. SeenOption'
      BY <1>2, <2>1, BesideMoves, BesideCache DEF ToldInv, SeenOption, Applied, CleanedUp
    <3>2. pc = "deleteWorkNow" => mem.infraID \in InfraIDs
      BY MemFacts DEF Early
    <3>3. DeleteNow'
      BY <1>2, <2>1, <3>2, BesideMoves DEF ToldInv, DeleteNow, Applied, CleanedUp
    <3> QED BY <3>1, <3>3
  <2>2. CASE pc' = "idle"
    BY <2>2 DEF SeenOption, DeleteNow
  <2>3. CASE pc' = "migrate" /\ UNCHANGED workVars /\ workCache = work
    BY <2>3 DEF SeenOption, DeleteNow, workVars
  <2> QED BY <1>2, <2>1, <2>2, <2>3, BesideWorker DEF DeletionTerms
<1> QED BY <1>1, <1>2, NextSplit

LEMMA ToldInvariant ==
  ASSUME DeletionTerms PROVE Spec /\ DistinctIDs => []ToldInv
<1>1. Init => ToldInv
  BY DEF Init, NoWork, ToldInv, FrozenOverride, OptionTold, DeletedOption, SeenOption, DeleteNow
<1>2. ASSUME TypeInv, IDInv, DistinctIDs, ToldInv, [Next]_vars PROVE ToldInv'
  BY <1>2, OverrideKeeps, OptionsKept, SeenKept DEF ToldInv
<1>3. ReadsOwnWrites = TRUE
  BY DEF DeletionTerms
<1> QED BY <1>1, <1>2, <1>3, TypeInvariant, IDInvariant, DistinctInvariant, PTL DEF Spec

(***************************************************************************)
(* A ManifestWork is deleted with the option that the override of its      *)
(* object calls for at that moment, although the option is patched in by   *)
(* an earlier call, perhaps of an earlier reconcile, and the override is   *)
(* read off a copy: on either platform, whatever fails in between.  Users  *)
(* leave the override of a deleted object alone and clear none before.     *)
(***************************************************************************)
THEOREM OptionObeyed ==
  ASSUME ReadsOwnWrites = TRUE, EditsDeleting = FALSE, "none" \notin UserOverrides
  PROVE  Spec /\ DistinctIDs => DeletedAsTold
<1> DEFINE Obeyed == \A id \in InfraIDs : work[id].state = "present" /\ work'[id].state = "deleting" =>
       /\ (work[id].option = "Orphan") = (hd[key].override = "ORPHAN")
       /\ (work[id].option = "Foreground") = (hd[key].override = "DELETE-HOSTING-NAMESPACE")
<1>0. DeletionTerms
  BY DEF DeletionTerms
<1>1. ASSUME TypeInv, IDInv, DistinctIDs, ToldInv, [Next]_vars PROVE Obeyed
  <2> SUFFICES ASSUME NEW id \in InfraIDs, work[id].state = "present", work'[id].state = "deleting"
               PROVE  work[id].option = DeleteOption(hd[key].override)
    BY DEF DeleteOption
  <2>1. Step
    BY <1>1, NextSplit, BesideMoves DEF Applied, CleanedUp
  <2>2. Deleted(id)
    BY <1>1, <2>1, StepMoves DEF Created, Updated, Told
  <2> QED BY <1>1, <2>2, KeyFrozen DEF Deleted, Destroying, ToldInv, DeleteNow
<1> QED BY <1>0, <1>1, TypeInvariant, IDInvariant, DistinctInvariant, ToldInvariant, PTL
        DEF Spec, DeletedAsTold
-----------------------------------------------------------------------------
(* Infrastructure is the last step.                                        *)

(***************************************************************************)
(* "Wait for the nodepools and hostedcluster in hosting namespace is       *)
(* deleted (via the work agent)": on either platform, whatever fails and   *)
(* whatever users make of the override before or after the deletion, the   *)
(* infrastructure and the IAM of an infra ID stay while a ManifestWork of  *)
(* it is in the API server, on terms that are all needed: no two objects   *)
(* share the ID, a reconcile sees the works there are, and users turn no   *)
(* object that may be deployed into INFRA-ONLY.                            *)
(***************************************************************************)
THEOREM InfrastructureHeld ==
  ASSUME ReadsOwnWrites = TRUE, "INFRA-ONLY" \notin UserOverrides
  PROVE  Spec /\ DistinctIDs => InfrastructureWaits
<1> DEFINE Waits == \A id \in (infra \ infra') \cup (iam \ iam') : work[id].state = "absent"
<1>1. ASSUME TypeInv, IDInv, DistinctIDs, HoldInv, [Next]_vars PROVE Waits
  <2> SUFFICES ASSUME NEW id \in (infra \ infra') \cup (iam \ iam') PROVE work[id].state = "absent"
    OBVIOUS
  <2>1. Step
    BY <1>1, NextSplit, BesideWorker
  <2>2. id = mem.infraID /\ pc \in {"callDestroy", "destroyIAM"} /\ key \in HDs
    BY <1>1, <2>1, CloudLoss DEF TypeInv, CallInv, WorkerInv
  <2>3. id # NoID /\ hd[key].infraID = id
    BY <1>1, <2>2, HubAssumption DEF IDInv, Mirror, TypeInv, RestInv
  <2>4. \A h \in HDs \ {key} : hd[h].infraID # id
    BY <1>1, <2>2, <2>3 DEF DistinctIDs
  <2> QED BY <1>1, <2>2, <2>3, <2>4 DEF HoldInv, WithdrawnInv, Withdrawn, Holder
<1> QED BY <1>1, TypeInvariant, IDInvariant, DistinctInvariant, HoldInvariant, PTL
        DEF Spec, InfrastructureWaits

Occupied(id) == "HostedCluster" \in hosted[id]

\* Nothing of id is deployed, and no deployment is on its way.
Vacant(id) == work[id].state = "absent" /\ ~Occupied(id)

\* What is left on the hosting cluster when the work is gone was left there for good.
LeftBehind ==
  \A id \in InfraIDs, h \in HDs :
    Occupied(id) /\ work[id].state = "absent" /\ hd[h].infraID = id =>
      Frozen(h) /\ hd[h].override = "ORPHAN"

\* A hosted cluster is of an ID that is in use, so that no object is given the ID anew.
HostedOwned == \A id \in InfraIDs : Occupied(id) => \E h \in HDs : hd[h].infraID = id

\* An object that is to have infrastructure only has no deployment.
InfraOnly ==
  /\ \A h \in HDs : hd[h].override = "INFRA-ONLY" /\ hd[h].infraID # NoID => Vacant(hd[h].infraID)
  /\ pc # "idle" /\ mem.override = "INFRA-ONLY" /\ mem.infraID # NoID => Vacant(mem.infraID)

LastStep ==
  /\ pc = "destroyInfra" =>
       work[mem.infraID].state = "absent" /\ (mem.override = "ORPHAN" \/ ~Occupied(mem.infraID))
  /\ pc \in {"callDestroy", "destroyIAM"} => Vacant(mem.infraID)

LastInv == LeftBehind /\ HostedOwned /\ InfraOnly /\ LastStep

\* An ID in use belongs to the objects that had it.
LEMMA UsedBefore ==
  ASSUME TypeInv, IDInv, [Next]_vars, NEW g \in HDs, NEW id \in InfraIDs, hd[g].infraID = id,
         NEW h \in HDs, hd'[h].infraID = id
  PROVE  hd[h].infraID = id
BY IDChange DEF IDKept, Used

LEMMA HostedBefore ==
  ASSUME TypeInv, [Next]_vars, NEW id \in InfraIDs, "HostedCluster" \in hosted'[id]
  PROVE  /\ Occupied(id) \/ work[id].state = "present"
         /\ work'[id].state = "absent" =>
              \/ work[id].state = "absent"
              \/ work[id].state = "deleting" /\ work[id].option = "Orphan"
<1>1. CASE Step
  BY <1>1, StepWorker, StepMoves DEF Occupied, Created, Updated, Told, Deleted
<1>2. CASE Beside
  BY <1>2, BesideMoves DEF Occupied, Applied, CleanedUp
<1> QED BY <1>1, <1>2, NextSplit

LEMMA LeftKept ==
  ASSUME DeletionTerms, TypeInv, IDInv, ToldInv, LastInv, [Next]_vars
  PROVE  LeftBehind'
<1> SUFFICES ASSUME NEW id \in InfraIDs, NEW h \in HDs, "HostedCluster" \in hosted'[id],
                    work'[id].state = "absent", hd'[h].infraID = id
             PROVE  Frozen(h)' /\ hd'[h].override = "ORPHAN"
  BY DEF LeftBehind, Occupied
<1>1. ASSUME Frozen(h), hd[h].override = "ORPHAN"
      PROVE  Frozen(h)' /\ hd'[h].override = "ORPHAN"
  BY <1>1, FrozenKept DEF ToldInv
<1>2. CASE work[id].state = "absent"
  <2>1. Occupied(id)
    BY <1>2, HostedBefore
  <2>2. hd[h].infraID = id
    BY <2>1, UsedBefore DEF LastInv, HostedOwned
  <2> QED BY <1>1, <1>2, <2>1, <2>2 DEF LastInv, LeftBehind
<1>3. CASE work[id].state = "deleting" /\ work[id].option = "Orphan"
  <2>1. Frozen(h) /\ DeleteOption(hd[h].override) = "Orphan"
    BY <1>3, IDBefore DEF ToldInv, DeletedOption
  <2> QED BY <1>1, <2>1 DEF DeleteOption
<1> QED BY <1>2, <1>3, HostedBefore

LEMMA OwnedKept ==
  ASSUME TypeInv, IDInv, CompleteInv, LastInv, [Next]_vars PROVE HostedOwned'
<1> SUFFICES ASSUME NEW id \in InfraIDs, "HostedCluster" \in hosted'[id]
             PROVE  \E h \in HDs : hd'[h].infraID = id
  BY DEF HostedOwned, Occupied
<1>1. PICK h \in HDs : hd[h].infraID = id
  BY HostedBefore DEF LastInv, HostedOwned, CompleteInv, WorkOwned
<1> QED BY <1>1, ConfigureKept, HubAssumption

-----------------------------------------------------------------------------
\* Only the worker's own deployment makes an ID occupied.
LEMMA VacantStays ==
  ASSUME TypeInv, [Next]_vars, NEW id \in InfraIDs, Vacant(id),
         Step /\ pc = "work" => id # mem.infraID
  PROVE  work'[id].state = "absent" /\ "HostedCluster" \notin hosted'[id]
<1>1. "HostedCluster" \notin hosted'[id]
  BY HostedBefore DEF Vacant
<1>2. CASE Step
  BY <1>1, <1>2, StepMoves DEF Vacant, Created, Updated, Told, Deleted
<1>3. CASE Beside
  BY <1>1, <1>3, BesideWork DEF Vacant
<1> QED BY <1>1, <1>2, <1>3, NextSplit

\* Infrastructure only stays so through a step, of the ID that the object has then.
LEMMA StepInfraOnly ==
  ASSUME TypeInv, TypeInv', IDInv, IDInv', DistinctIDs, HoldInv, LastInv, Step
  PROVE  InfraOnly'
<1>0. /\ pc # "idle" /\ key \in HDs /\ key' = key /\ OthersStay /\ OverrideMoves
      /\ mem.infraID = hd[key].infraID
      /\ \A h \in HDs : hd[h].infraID \in InfraIDs \cup {NoID}
                        /\ hd'[h].infraID \in InfraIDs \cup {NoID}
  BY StepWorker, StepOverride DEF TypeInv, CallInv, WorkerInv, IDInv, Mirror, Object
<1>1. [Next]_vars
  BY DEF Next
<1>2. pc = "work" => mem.override # "INFRA-ONLY" /\ hd[key].override # "INFRA-ONLY"
  BY <1>0 DEF HoldInv, WithdrawnInv, OverrideInv
<1>3. ASSUME NEW h \in HDs, h # key, hd'[h].override = "INFRA-ONLY", hd'[h].infraID # NoID
      PROVE  Vacant(hd[h].infraID)'
  <2>1. hd'[h] = hd[h] /\ Vacant(hd[h].infraID) /\ hd[h].infraID \in InfraIDs
    BY <1>0, <1>3 DEF OthersStay, LastInv, InfraOnly
  <2>2. hd[h].infraID # mem.infraID
    BY <1>0, <1>3, <2>1, HubAssumption DEF DistinctIDs
  <2> QED BY <1>1, <2>1, <2>2, VacantStays DEF Vacant, Occupied
<1>4. ASSUME mem.override = "INFRA-ONLY" \/ hd[key].override = "INFRA-ONLY",
             hd'[key].infraID # NoID
      PROVE  LET id == hd'[key].infraID IN
               work'[id].state = "absent" /\ "HostedCluster" \notin hosted'[id]
  <2> DEFINE id == hd'[key].infraID
  <2>1. id \in InfraIDs
    BY <1>0, <1>4
  <2>2. CASE id = hd[key].infraID
    <3>1. Vacant(id)
      BY <1>0, <1>4, <2>2 DEF LastInv, InfraOnly
    <3> QED BY <1>1, <1>2, <1>4, <2>1, <3>1, VacantStays
  <2>3. CASE id \notin Used /\ hd[key].infraID = NoID
    <3>1. Vacant(id)
      BY <2>1, <2>3 DEF Used, Vacant, LastInv, HostedOwned
    <3> QED BY <1>1, <1>2, <1>4, <2>1, <3>1, VacantStays
  <2> QED BY <1>0, <1>1, <2>2, <2>3, IDChange DEF IDKept
<1>5. hd'[key].override = "INFRA-ONLY" => mem.override = "INFRA-ONLY" \/ hd[key].override = "INFRA-ONLY"
  BY <1>0 DEF OverrideMoves
<1>6. pc' # "idle" => /\ mem'.infraID = hd'[key].infraID
                      /\ mem'.override = "INFRA-ONLY" => mem.override = "INFRA-ONLY"
  BY <1>0, StepOverrideInv DEF IDInv, Mirror
<1>7. \A h \in HDs : hd'[h].override = "INFRA-ONLY" /\ hd'[h].infraID # NoID =>
        work'[hd'[h].infraID].state = "absent" /\ "HostedCluster" \notin hosted'[hd'[h].infraID]
  BY <1>0, <1>3, <1>4, <1>5 DEF OthersStay, Vacant, Occupied
<1>8. pc' # "idle" /\ mem'.override = "INFRA-ONLY" /\ mem'.infraID # NoID =>
        work'[mem'.infraID].state = "absent" /\ "HostedCluster" \notin hosted'[mem'.infraID]
  BY <1>4, <1>6
<1> QED BY <1>7, <1>8 DEF InfraOnly, Vacant, Occupied

LEMMA StepLast ==
  ASSUME DeletionTerms, TypeInv, IDInv, FrozenOverride', HoldInv, ToldInv, LastInv, Step,
         TypeInv', IDInv'
  PROVE  LastStep'
<1>1. CASE pc' \notin {"destroyInfra", "callDestroy", "destroyIAM"}
  BY <1>1 DEF LastStep
<1>2. CASE pc' \in {"destroyInfra", "callDestroy", "destroyIAM"}
  <2>1. Ordinary
    BY <1>2, StepSplit, EnsureFinalizerEffect, RemoveEffect
  <2>2. /\ Tame /\ DestroyFlow /\ Continues /\ pc \in Destroying /\ pc # "work"
        /\ pc' \in Destroying /\ mem'.infraID = mem.infraID /\ key' = key
    BY <1>2, <2>1, OrdinaryTame, TameFollows, StepOverride
       DEF IDInv, Continues, DestroyFlow, Destroying
  <2>3. /\ Frozen(key) /\ mem.override = hd[key].override /\ mem.infraID = hd[key].infraID
        /\ key \in HDs /\ mem.infraID \in InfraIDs
    BY <2>2, KeyFrozen DEF ToldInv
  <2>4. mem'.override = mem.override
    <3>1. hd'[key].override = hd[key].override
      BY <2>3, FrozenKept DEF Next, ToldInv
    <3>2. mem'.deleting
      BY <2>2 DEF IDInv, Guarded
    <3> QED BY <2>2, <2>3, <3>1, <3>2 DEF FrozenOverride, Destroying
  <2>5. Vacant(mem.infraID) =>
          work'[mem.infraID].state = "absent" /\ "HostedCluster" \notin hosted'[mem.infraID]
    BY <2>2, <2>3, VacantStays DEF Next
  <2>6. CASE pc = "destroy" /\ mem.override = "INFRA-ONLY"
    <3>1. Vacant(mem.infraID)
      BY <2>2, <2>3, <2>6, HubAssumption DEF LastInv, InfraOnly
    <3> QED BY <2>2, <2>5, <3>1 DEF LastStep, Vacant, Occupied
  <2>7. CASE pc = "deleteWork" /\ workCache[mem.infraID].state = "absent" /\ pc' = "destroyInfra"
    <3>1. work[mem.infraID].state = "absent"
      BY <2>3, <2>7 DEF HoldInv, CacheKnows
    <3>2. mem.override = "ORPHAN" \/ Vacant(mem.infraID)
      BY <2>3, <3>1 DEF LastInv, LeftBehind, Vacant
    <3>3. work'[mem.infraID].state = "absent"
      BY <2>3, <2>7, <3>1, StepMoves DEF Created, Updated, Told, Deleted
    <3> QED BY <2>2, <2>4, <2>5, <2>7, <3>2, <3>3 DEF LastStep, Vacant, Occupied
  <2>8. CASE pc \in {"destroyInfra", "callDestroy"} /\ pc' \in {"callDestroy", "destroyIAM"}
    <3>1. Vacant(mem.infraID)
      BY <2>2, <2>8 DEF DestroyFlow, LastInv, LastStep, Vacant
    <3> QED BY <2>2, <2>5, <2>8, <3>1 DEF LastStep, Vacant, Occupied
  <2> QED BY <1>2, <2>2, <2>6, <2>7, <2>8 DEF DestroyFlow
<1> QED BY <1>1, <1>2

LEMMA BesideLast ==
  ASSUME DeletionTerms, "INFRA-ONLY" \notin UserOverrides, TypeInv, LastInv, Beside
  PROVE  InfraOnly' /\ LastStep'
<1>1. \A h \in HDs : UserMay(hd[h], hd'[h])
  BY BesideObjects
<1>2. \A id \in InfraIDs : Vacant(id) =>
        work'[id].state = "absent" /\ "HostedCluster" \notin hosted'[id]
  BY VacantStays, BesideMoves, BesideWork
     DEF Vacant, Occupied, Applied, CleanedUp
<1>3. \A id \in InfraIDs : work[id].state = "absent" => work'[id].state = "absent"
  BY BesideWork
<1>4. /\ mem.infraID \in InfraIDs \cup {NoID} /\ (pc \notin Early => mem.infraID \in InfraIDs)
      /\ \A h \in HDs : hd[h].infraID \in InfraIDs \cup {NoID}
  BY MemFacts DEF TypeInv, CallInv, Object
<1>5. \A h \in HDs : hd'[h].override = "INFRA-ONLY" /\ hd'[h].infraID # NoID =>
        work'[hd'[h].infraID].state = "absent" /\ "HostedCluster" \notin hosted'[hd'[h].infraID]
  BY <1>1, <1>2, <1>4 DEF UserMay, Follows, LastInv, InfraOnly
<1>6. CASE UNCHANGED <<pc, key, mem>>
  <2>1. InfraOnly'
    BY <1>2, <1>4, <1>5, <1>6 DEF LastInv, InfraOnly, Vacant, Occupied
  <2>2. LastStep'
    BY <1>2, <1>3, <1>4, <1>6 DEF LastInv, LastStep, Vacant, Occupied, Early
  <2> QED BY <2>1, <2>2
<1>7. CASE pc' = "idle"
  BY <1>5, <1>7 DEF InfraOnly, LastStep, Vacant, Occupied
<1>8. CASE pc' = "migrate" /\ key' \in HDs /\ mem' = hd[key'] /\ hd' = hd
  BY <1>5, <1>8 DEF InfraOnly, LastStep, Vacant, Occupied
<1> QED BY <1>6, <1>7, <1>8, BesideWorker DEF DeletionTerms

LEMMA LastInvariant ==
  ASSUME DeletionTerms, "INFRA-ONLY" \notin UserOverrides
  PROVE  Spec /\ DistinctIDs => []LastInv
<1>1. ASSUME Init PROVE LastInv
  <2>1. /\ pc = "idle"
        /\ \A id \in InfraIDs : work[id].state = "absent" /\ ~Occupied(id)
    BY <1>1 DEF Init, NoWork, Occupied
  <2>2. \A h \in HDs : hd[h].infraID \in InfraIDs \cup {NoID}
    BY <1>1, HubAssumption DEF Init, Object
  <2> QED BY <2>1, <2>2 DEF LastInv, LeftBehind, HostedOwned, InfraOnly, LastStep, Vacant
<1>2. ASSUME TypeInv, TypeInv', IDInv, IDInv', DistinctIDs, HoldInv, CompleteInv,
             ToldInv, ToldInv', LastInv, [Next]_vars
      PROVE  LastInv'
  <2>1. LeftBehind' /\ HostedOwned'
    BY <1>2, LeftKept, OwnedKept
  <2>2. FrozenOverride'
    BY <1>2 DEF ToldInv
  <2>3. InfraOnly' /\ LastStep'
    BY <1>2, <2>2, NextSplit, StepInfraOnly, StepLast, BesideLast
  <2> QED BY <2>1, <2>3 DEF LastInv
<1>3. ReadsOwnWrites = TRUE
  BY DEF DeletionTerms
<1> QED BY <1>1, <1>2, <1>3, TypeInvariant, IDInvariant, DistinctInvariant, HoldInvariant,
           CompleteInvariant, ToldInvariant, PTL DEF Spec

(***************************************************************************)
(* "Infrastructure is the last step": on either platform, whatever fails   *)
(* in between and however many reconciles the deletion takes, neither the  *)
(* infrastructure nor the IAM of an infra ID is taken away while a         *)
(* ManifestWork of it is in the API server or a HostedCluster of it is on  *)
(* the hosting cluster.  The terms are those of InfrastructureHeld, and    *)
(* that users clear no override and leave that of a deleted object alone:  *)
(* a work that is deleted with the option Orphan leaves its HostedCluster. *)
(***************************************************************************)
THEOREM InfrastructureLast ==
  ASSUME ReadsOwnWrites = TRUE, EditsDeleting = FALSE,
         "none" \notin UserOverrides, "INFRA-ONLY" \notin UserOverrides
  PROVE  Spec /\ DistinctIDs => InfrastructureIsLastStep
<1> DEFINE Last == \A id \in (infra \ infra') \cup (iam \ iam') :
                     work[id].state = "absent" /\ "HostedCluster" \notin hosted[id]
<1>0. DeletionTerms
  BY DEF DeletionTerms
<1>1. ASSUME TypeInv, LastInv, [Next]_vars PROVE Last
  <2>1. Beside => UNCHANGED <<infra, iam>>
    BY <1>1, BesideWorker
  <2> QED BY <1>1, <2>1, NextSplit, CloudLoss DEF LastInv, LastStep, Vacant, Occupied
<1> QED BY <1>0, <1>1, TypeInvariant, LastInvariant, PTL DEF Spec, InfrastructureIsLastStep
=============================================================================
