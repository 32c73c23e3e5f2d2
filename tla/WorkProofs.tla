----------------------------- MODULE WorkProofs -----------------------------
(***************************************************************************)
(* The ManifestWork and the conditions that open the way to it, for every  *)
(* set of objects and infra IDs, when a reconcile starts on caches that    *)
(* are caught up.                                                          *)
(***************************************************************************)
EXTENDS ReconcilerProofs

-----------------------------------------------------------------------------
(* What a step of the worker does to the contents of its object.           *)

LEMMA PatchedContents ==
  ASSUME NEW s \in Object, NEW b \in Object, NEW m \in Object
  PROVE  /\ Patched(s, b, m).override \in {s.override, m.override}
         /\ Patched(s, b, m).ready = s.ready
         /\ Patched(s, b, m).parts = MergeStruct(s.parts, b.parts, m.parts)
<1> DEFINE p == [s EXCEPT
         !.finalizers = MergeField(s.finalizers, b.finalizers, m.finalizers),
         !.infraID    = MergeField(s.infraID, b.infraID, m.infraID),
         !.override   = MergeField(s.override, b.override, m.override),
         !.createMC   = MergeField(s.createMC, b.createMC, m.createMC),
         !.parts      = MergeStruct(s.parts, b.parts, m.parts)]
<1>1. p \in Object
  BY DEF MergeField, MergeStruct, Object
<1>2. /\ p.override \in {s.override, m.override} /\ p.ready = s.ready
      /\ p.parts = MergeStruct(s.parts, b.parts, m.parts)
  <2>1. p.parts = MergeStruct(s.parts, b.parts, m.parts) /\ p.ready = s.ready
    BY DEF Object
  <2>2. p.override = MergeField(s.override, b.override, m.override)
    BY DEF Object
  <2> QED BY <2>1, <2>2 DEF MergeField
<1>3. ASSUME NEW o \in Object
      PROVE  Settle(o).override = o.override /\ Settle(o).ready = o.ready /\ Settle(o).parts = o.parts
  BY DEF Settle, Object
<1>4. Patched(s, b, m) = Settle(p)
  BY DEF Patched
<1> HIDE DEF p
<1> QED BY <1>1, <1>2, <1>3, <1>4

\* The override, the conditions and the parts that a merge patch leaves, and those in its response.
LEMMA SentContents ==
  ASSUME TypeInv, NEW c \in Object, Carries(c), Sends(c)
  PROVE  /\ hd' = [hd EXCEPT ![key] = PatchResult(c)] /\ PatchResult(c) \in Object
         /\ PatchResult(c).override \in {hd[key].override, mem.override}
         /\ PatchResult(c).ready = hd[key].ready
         /\ PatchResult(c).parts = MergeStruct(hd[key].parts, cache[key].parts, c.parts)
         /\ mem'.override = IF PatchResult(c).override = "none" THEN mem.override
                            ELSE PatchResult(c).override
         /\ mem'.ready = PatchResult(c).ready
         /\ mem'.parts = PatchResult(c).parts \cup c.parts
<1> DEFINE r == PatchResult(c)
<1>1. r \in Object /\ hd[key] \in Object /\ cache[key] \in Object
  BY CopyTypes, PatchedType DEF PatchResult
<1>2. /\ r.override \in {hd[key].override, c.override} /\ r.ready = hd[key].ready
      /\ r.parts = MergeStruct(hd[key].parts, cache[key].parts, c.parts)
  BY <1>1, PatchedContents DEF PatchResult
<1>3. mem' = Decoded(c, r) /\ hd' = [hd EXCEPT ![key] = r]
  BY DEF Sends, Store
<1>4. /\ Decoded(c, r).override = IF r.override = "none" THEN c.override ELSE r.override
      /\ Decoded(c, r).ready = r.ready /\ Decoded(c, r).parts = r.parts \cup c.parts
  BY <1>1 DEF Decoded, Object
<1> QED BY <1>1, <1>2, <1>3, <1>4 DEF Carries

\* The override that the worker goes on with: its own, or the one it was answered with.
Answered == \/ /\ mem'.override = mem.override /\ mem'.deleting = mem.deleting
               /\ hd'[key].override = hd[key].override
            \/ mem'.override = IF hd'[key].override = "none" THEN mem.override
                               ELSE hd'[key].override

OverrideMoves == /\ hd'[key].override \in {hd[key].override, mem.override}
                 /\ pc' # "idle" => Answered

OthersStay == \A h \in HDs : h # key => hd'[h] = hd[h]

LEMMA TameOverride ==
  ASSUME TypeInv, Tame PROVE OverrideMoves /\ OthersStay /\ key' = key
<1>1. key \in HDs /\ hd \in [HDs -> Object] /\ hd[key] \in Object /\ key' = key
  BY DEF TypeInv, CallInv, WorkerInv, Tame
<1>2. CASE Quiet
  BY <1>1, <1>2, JudgedType DEF Quiet, Like, OverrideMoves, OthersStay, Answered
<1>3. CASE Patches
  BY <1>1, <1>3, SentContents DEF Patches, OverrideMoves, OthersStay, Answered
<1>4. CASE Reports
  <2>1. PICK c \in Judged : /\ hd' = [hd EXCEPT ![key] = StatusPatched(hd[key], c)]
                            /\ mem' = Decoded(c, StatusPatched(hd[key], c))
    BY <1>4 DEF Reports, Store
  <2>2. c \in Object /\ c.override = mem.override
    BY JudgedType
  <2>3. /\ StatusPatched(hd[key], c).override = hd[key].override
        /\ Decoded(c, StatusPatched(hd[key], c)).override =
             IF hd[key].override = "none" THEN mem.override ELSE hd[key].override
    BY <1>1, <2>2 DEF StatusPatched, Decoded, Object
  <2> QED BY <1>1, <2>1, <2>3 DEF OverrideMoves, OthersStay, Answered
<1>5. CASE Ends
  <2>1. [hd[key] EXCEPT !.ready = mem.ready].override = hd[key].override
    BY <1>1 DEF Object
  <2> QED BY <1>1, <1>5, <2>1 DEF Ends, ReportReady, Store, OverrideMoves, OthersStay
<1> QED BY <1>1, <1>2, <1>3, <1>4, <1>5 DEF Tame

\* Every step of the worker, the two that are not ordinary included.
LEMMA StepOverride ==
  ASSUME TypeInv, IDInv, Step PROVE OverrideMoves /\ OthersStay /\ key' = key
<1>1. CASE Ordinary
  BY <1>1, OrdinaryTame, TameOverride
<1>2. CASE EnsureFinalizer
  <2>1. ASSUME NEW c \in Object, Carries(c), Sends(c) PROVE OverrideMoves /\ OthersStay
    BY <2>1, SentContents DEF OverrideMoves, OthersStay, Answered, TypeInv, CallInv, WorkerInv
  <2> QED BY <1>2, <2>1, EnsureFinalizerEffect, TameOverride
<1>3. CASE RemoveDestroyFinalizer
  BY <1>3, RemoveEffect DEF Store, OverrideMoves, OthersStay, TypeInv, CallInv, WorkerInv
<1> QED BY <1>1, <1>2, <1>3, StepSplit

-----------------------------------------------------------------------------
(* What the steps do to the ManifestWorks. *)

\* The work of id was there before and is of the same contents, or the worker writes it now.
Written(id) ==
  \/ work[id].state # "absent" /\ work'[id].parts = work[id].parts /\ work'[id].owner = work[id].owner
  \/ /\ pc = "work" /\ pc' = "idle" /\ id = mem.infraID
     /\ work'[id].parts = mem.parts
     /\ work'[id].owner = IF work[id].state = "absent" THEN key ELSE work[id].owner

LEMMA StepWork ==
  ASSUME TypeInv, Step, NEW id \in InfraIDs, work'[id].state # "absent" PROVE Written(id)
<1>1. work \in [InfraIDs -> Work] /\ work[id] \in Work
  BY DEF TypeInv, RestInv
<1>2. CASE ApplyWork
  <2>1. mem.infraID \in InfraIDs
    BY <1>2, MemFacts DEF ApplyWork, Early
  <2>2. pc = "work" /\ pc' = "idle" /\ (WriteWork(mem.infraID) \/ UNCHANGED work)
    BY <1>2 DEF ApplyWork, Done, Requeue, Return
  <2>3. CASE WriteWork(mem.infraID)
    <3>1. CASE /\ work[mem.infraID].state = "absent"
               /\ work' = [work EXCEPT ![mem.infraID] = [NoWork EXCEPT !.state = "present",
                                                            !.parts = mem.parts, !.owner = key]]
      BY <1>1, <2>1, <2>2, <3>1 DEF Written, NoWork
    <3>2. ASSUME NEW seen, work[mem.infraID].state # "absent",
                 work' = [work EXCEPT ![mem.infraID].parts = mem.parts,
                                      ![mem.infraID].observed = seen]
          PROVE  Written(id)
      BY <1>1, <2>1, <2>2, <3>2 DEF Written, Work
    <3>3. workCache[mem.infraID] = work[mem.infraID] =>
            (workCache[mem.infraID].state = work[mem.infraID].state)
      OBVIOUS
    <3> QED BY <2>3, <3>1, <3>2, <3>3 DEF WriteWork
  <2> QED BY <2>2, <2>3 DEF Written
<1>3. CASE SetDeleteOption \/ DeleteWork
  <2>1. mem.infraID \in InfraIDs
    BY <1>3, MemFacts DEF SetDeleteOption, DeleteWork, Early
  <2>2. CASE SetDeleteOption
    <3> DEFINE w == [work[mem.infraID] EXCEPT !.option = DeleteOption(mem.override), !.observed = FALSE]
    <3>1. work' \in {work, [work EXCEPT ![mem.infraID] = work[mem.infraID]],
                    [work EXCEPT ![mem.infraID] = w]}
      BY <2>2 DEF SetDeleteOption
    <3>2. /\ w.state = work[mem.infraID].state /\ w.parts = work[mem.infraID].parts
          /\ w.owner = work[mem.infraID].owner
      BY <1>1, <2>1 DEF Work
    <3> HIDE DEF w
    <3> QED BY <1>1, <2>1, <3>1, <3>2 DEF Written
  <2>3. CASE DeleteWork
    <3>1. \/ UNCHANGED work
          \/ /\ work[mem.infraID].state = "present"
             /\ work' = [work EXCEPT ![mem.infraID].state = "deleting"]
      BY <2>3 DEF DeleteWork
    <3> QED BY <1>1, <2>1, <3>1 DEF Written, Work
  <2> QED BY <1>3, <2>2, <2>3
<1>4. CASE ~(ApplyWork \/ SetDeleteOption \/ DeleteWork)
  <2>1. UNCHANGED work
    BY <1>4 DEF Step, MigrateRoles, ReadProviderSecret, EnsureFinalizer, Dispatch, BeginInfra,
         ReportBadSecret, CreateInfra, ScaffoldSpec, PlatformTrue, IAMFalse, CreateIAM, PatchIAM,
         IAMTrue, NotApplicable, SetDefaults, BeginDestroy, WorkGone, WorkDeleting,
         BeginDestroyInfra, DestroyInfra, DestroyIAM, RemoveDestroyFinalizer, workVars
  <2> QED BY <2>1 DEF Written
<1> QED BY <1>2, <1>3, <1>4

\* What runs next to the worker makes no ManifestWork.
Beside == \/ UNCHANGED vars \/ Crash
          \/ \E h \in HDs : Start(h) \/ ObserveObject(h) \/ Resync(h) \/ UserDeletes(h) \/ UserEdits(h)
          \/ \E id \in InfraIDs : ObserveWork(id) \/ AgentApplies(id) \/ AgentCleansUp(id)

LEMMA BesideWork ==
  ASSUME TypeInv, Beside, NEW id \in InfraIDs, work'[id].state # "absent"
  PROVE  /\ work[id].state # "absent" /\ work'[id].parts = work[id].parts
         /\ work'[id].owner = work[id].owner
<1>1. work \in [InfraIDs -> Work] /\ work[id] \in Work
  BY DEF TypeInv, RestInv
<1>2. CASE UNCHANGED work
  BY <1>2
<1>3. CASE \E i \in InfraIDs : AgentApplies(i)
  BY <1>1, <1>3 DEF AgentApplies, Work
<1>4. CASE \E i \in InfraIDs : AgentCleansUp(i)
  BY <1>1, <1>4 DEF AgentCleansUp, NoWork
<1> QED BY <1>2, <1>3, <1>4 DEF Beside, vars, workVars, Crash, Start, ObserveObject, Resync,
                                UserDeletes, UserEdits, ObserveWork

LEMMA NextSplit == ASSUME [Next]_vars PROVE Step \/ Beside
BY DEF Next, Beside

-----------------------------------------------------------------------------
(* What runs next to the worker, to an object. *)

UserMay(o, p) == /\ Follows(o, p) /\ p.ready = o.ready /\ p.parts = o.parts
                 /\ \/ p.override = o.override
                    \/ /\ p.override \in UserOverrides /\ o.exists
                       /\ o.deleting => EditsDeleting

LEMMA BesideObjects ==
  ASSUME TypeInv, Beside PROVE AllFollow /\ \A h \in HDs : UserMay(hd[h], hd'[h])
<1> USE DEF UserMay
<1>1. CASE UNCHANGED hd
  BY <1>1, FollowsReflexive DEF AllFollow
<1>2. ASSUME NEW h \in HDs, UserDeletes(h) PROVE \A g \in HDs : UserMay(hd[g], hd'[g])
  <2>1. hd[h] \in Object /\ hd' = [hd EXCEPT ![h] = Settle([hd[h] EXCEPT !.deleting = TRUE])]
    BY <1>2 DEF UserDeletes, WriteByOther, TypeInv, CallInv
  <2>2. LET p == Settle([hd[h] EXCEPT !.deleting = TRUE]) IN
          p.ready = hd[h].ready /\ p.parts = hd[h].parts /\ p.override = hd[h].override
    BY <2>1 DEF Settle, Object
  <2>3. AllFollow
    BY <1>2, OtherWrites
  <2> QED BY <2>1, <2>2, <2>3 DEF AllFollow, TypeInv, CallInv
<1>3. ASSUME NEW h \in HDs, UserEdits(h) PROVE \A g \in HDs : UserMay(hd[g], hd'[g])
  <2>1. PICK o \in UserOverrides : hd' = [hd EXCEPT ![h] = [hd[h] EXCEPT !.override = o]]
    BY <1>3 DEF UserEdits, WriteByOther
  <2>2. hd[h] \in Object /\ hd[h].exists /\ (hd[h].deleting => EditsDeleting)
    BY <1>3 DEF UserEdits, TypeInv, CallInv
  <2>3. LET p == [hd[h] EXCEPT !.override = o] IN
          p.ready = hd[h].ready /\ p.parts = hd[h].parts /\ p.override = o
    BY <2>2 DEF Object
  <2>4. AllFollow
    BY <1>3, OtherWrites
  <2> QED BY <2>1, <2>2, <2>3, <2>4 DEF AllFollow, TypeInv, CallInv
<1>4. CASE \/ UNCHANGED vars \/ Crash \/ \E h \in HDs : Start(h) \/ ObserveObject(h) \/ Resync(h)
           \/ \E id \in InfraIDs : ObserveWork(id) \/ AgentApplies(id) \/ AgentCleansUp(id)
  BY <1>1, <1>4 DEF vars, Crash, Start, ObserveObject, Resync, ObserveWork, AgentApplies,
                    AgentCleansUp
<1> QED BY <1>2, <1>3, <1>4 DEF Beside, AllFollow

\* And to the worker: it stays where it is, dies, or takes its next object out of the cache.
LEMMA BesideWorker ==
  ASSUME ReadsOwnWrites = TRUE, TypeInv, Beside
  PROVE  /\ UNCHANGED <<infra, iam>>
         /\ \/ UNCHANGED <<pc, key, mem>>
            \/ pc' = "idle"
            \/ /\ pc' = "migrate" /\ key' \in HDs /\ mem' = hd[key'] /\ hd[key'].exists
               /\ UNCHANGED <<hd, cache, workVars, cloudVars>> /\ cache = hd /\ workCache = work
<1>1. CASE Crash \/ \E h \in HDs : Start(h)
  BY <1>1 DEF Crash, Start, Return, cloudVars
<1>2. CASE ~(Crash \/ \E h \in HDs : Start(h))
  BY <1>2 DEF Beside, vars, workerVars, cloudVars, ObserveObject, Resync, UserDeletes, UserEdits,
              ObserveWork, AgentApplies, AgentCleansUp
<1> QED BY <1>1, <1>2

LEMMA StepWorker ==
  ASSUME TypeInv, Step PROVE pc # "idle" /\ UNCHANGED <<cache, workCache, hosted, edits>>
<1>1. CASE Ordinary
  BY <1>1, OrdinaryTame
<1> QED BY <1>1, StepSplit DEF EnsureFinalizer, RemoveDestroyFinalizer, workVars

-----------------------------------------------------------------------------
(* A ManifestWork has a holder that will delete it. *)

Holder(h, id) == /\ hd[h].exists /\ hd[h].infraID = id
                 /\ DestroyFinalizer \in hd[h].finalizers /\ hd[h].override # "INFRA-ONLY"

\* The work of id is no concern of the worker's object: it is gone, or another object holds it.
Withdrawn(id) ==
  id # NoID /\ work[id].state # "absent" => \E h \in HDs \ {key} : Holder(h, id)

WorkHeld == \A id \in InfraIDs : work[id].state # "absent" => \E h \in HDs : Holder(h, id)

\* The override that keeps the work from being deleted is in the copy when it is in the object.
OverrideInv == pc # "idle" /\ hd[key].override = "INFRA-ONLY" => mem.override = "INFRA-ONLY"

\* A work that is not in the cache of a reconcile is gone.
CacheKnows ==
  pc # "idle" => \A id \in InfraIDs : workCache[id].state = "absent" => work[id].state = "absent"

WithdrawnInv ==
  /\ pc # "idle" /\ mem.override = "INFRA-ONLY" => Withdrawn(mem.infraID)
  /\ pc \in {"destroyInfra", "callDestroy", "destroyIAM", "unfinalize"} => Withdrawn(mem.infraID)
  /\ pc = "badSecret" /\ mem.deleting => Withdrawn(mem.infraID)
  /\ pc = "infra" => ~mem.deleting
  /\ pc = "work" => mem.override # "INFRA-ONLY"

HoldInv == WorkHeld /\ OverrideInv /\ CacheKnows /\ WithdrawnInv

LEMMA OthersHold ==
  ASSUME OthersStay, NEW h \in HDs \ {key}, NEW id, Holder(h, id) PROVE Holder(h, id)'
BY DEF OthersStay, Holder

\* The worker's own object holds its work through every step but the end of its deletion.
LEMMA KeyHolds ==
  ASSUME TypeInv, IDInv, HoldInv, Step, NEW id, Holder(key, id)
  PROVE  Holder(key, id)' \/ (id = mem.infraID /\ Withdrawn(id) /\ pc # "work")
<1>1. pc # "idle" /\ key \in HDs /\ key' = key /\ OverrideMoves /\ id = mem.infraID
  BY StepWorker, StepOverride DEF TypeInv, CallInv, WorkerInv, IDInv, Mirror, Holder
<1>2. CASE hd'[key].override = "INFRA-ONLY"
  BY <1>1, <1>2 DEF Holder, OverrideMoves, HoldInv, WithdrawnInv
<1>3. CASE AllFollow /\ hd'[key].override # "INFRA-ONLY"
  BY <1>1, <1>3 DEF AllFollow, Follows, Holder
<1>4. CASE EnsureFinalizer
  <2>1. ~(\E p, i : AdoptsAs(p, i))
    BY DEF AdoptsAs, Adopts, Holder
  <2>2. AllFollow
    BY <1>1, <1>4, <2>1, EnsureFinalizerEffect, TameFollows DEF IDInv
  <2> QED BY <1>2, <1>3, <2>2
<1>5. CASE RemoveDestroyFinalizer
  BY <1>1, <1>2, <1>3, <1>5, RemoveEffect DEF HoldInv, WithdrawnInv
<1>6. CASE Ordinary
  BY <1>1, <1>2, <1>3, <1>6, OrdinaryTame, TameFollows DEF IDInv
<1> QED BY <1>4, <1>5, <1>6, StepSplit

LEMMA StepHeld ==
  ASSUME TypeInv, IDInv, HoldInv, Step PROVE WorkHeld'
<1> SUFFICES ASSUME NEW id \in InfraIDs, work'[id].state # "absent"
             PROVE  \E h \in HDs : Holder(h, id)'
  BY DEF WorkHeld
<1>1. /\ pc # "idle" /\ key \in HDs /\ key' = key /\ OthersStay /\ Written(id)
  BY StepWorker, StepOverride, StepWork DEF TypeInv, CallInv, WorkerInv
<1>2. id # NoID
  BY HubAssumption
<1>3. CASE work[id].state # "absent"
  <2>1. PICK h \in HDs : Holder(h, id)
    BY <1>3 DEF HoldInv, WorkHeld
  <2>2. Withdrawn(id) => \E g \in HDs : Holder(g, id)'
    BY <1>1, <1>2, <1>3, OthersHold DEF Withdrawn
  <2>3. CASE h = key
    BY <1>1, <2>1, <2>2, <2>3, KeyHolds DEF Holder
  <2>4. CASE h # key
    BY <1>1, <2>1, <2>4, OthersHold
  <2> QED BY <2>3, <2>4
<1>4. CASE pc = "work" /\ id = mem.infraID
  <2>1. Holder(key, id)
    <3>1. hd[key].override # "INFRA-ONLY"
      BY <1>4 DEF HoldInv, OverrideInv, WithdrawnInv
    <3>2. DestroyFinalizer \in hd[key].finalizers /\ hd[key].infraID = id
      BY <1>1, <1>4 DEF IDInv, Guarded, Mirror, Early
    <3> QED BY <1>1, <3>1, <3>2 DEF IDInv, Named, Holder
  <2> QED BY <1>1, <1>4, <2>1, KeyHolds DEF Holder
<1> QED BY <1>1, <1>3, <1>4 DEF Written

\* Withdrawn in the next state, of an ID of this one.
StaysWithdrawn(id) ==
  id # NoID /\ work'[id].state # "absent" =>
    \E h \in HDs \ {key'} : /\ hd'[h].exists /\ hd'[h].infraID = id
                            /\ DestroyFinalizer \in hd'[h].finalizers
                            /\ hd'[h].override # "INFRA-ONLY"

LEMMA WithdrawnStays ==
  ASSUME TypeInv, IDInv, Step, pc' # "idle", NEW id \in InfraIDs \cup {NoID}, Withdrawn(id)
  PROVE  StaysWithdrawn(id)
<1> SUFFICES ASSUME id # NoID, work'[id].state # "absent"
             PROVE  \E h \in HDs \ {key} : Holder(h, id) /\ hd'[h] = hd[h] /\ key' = key
  BY DEF StaysWithdrawn, Holder
<1>1. work[id].state # "absent" /\ OthersStay /\ key' = key
  BY StepWork, StepOverride DEF Written
<1> QED BY <1>1 DEF Withdrawn, OthersStay

LEMMA StepOverrideInv ==
  ASSUME TypeInv, IDInv, HoldInv, Step
  PROVE  /\ OverrideInv'
         /\ pc' # "idle" /\ mem'.override = "INFRA-ONLY" => mem.override = "INFRA-ONLY"
         /\ pc' # "idle" /\ mem.override # "INFRA-ONLY" => mem'.override # "INFRA-ONLY"
BY StepWorker, StepOverride DEF OverrideMoves, Answered, HoldInv, OverrideInv

LEMMA StepWithdrawn ==
  ASSUME TypeInv, IDInv, HoldInv, Step PROVE WithdrawnInv'
<1>1. /\ pc # "idle" /\ key' = key /\ mem.infraID \in InfraIDs \cup {NoID}
      /\ mem.infraID = hd[key].infraID
  BY StepWorker, StepOverride, MemFacts DEF IDInv, Mirror, Object
<1>2. CASE pc' = "idle"
  BY <1>2 DEF WithdrawnInv
<1>3. StaysWithdrawn(mem'.infraID) => Withdrawn(mem.infraID)'
  BY DEF StaysWithdrawn, Withdrawn, Holder
<1>4. CASE Ordinary /\ pc' # "idle"
  <2>1. Tame /\ Flow /\ DestroyFlow /\ Continues
    BY <1>4, OrdinaryTame, TameFollows DEF IDInv
  <2>2. mem'.infraID = mem.infraID
    BY <1>4, <2>1 DEF Continues
  <2>3. Withdrawn(mem.infraID) => Withdrawn(mem.infraID)'
    BY <1>1, <1>3, <1>4, <2>2, WithdrawnStays
  <2>5. mem'.override = "INFRA-ONLY" => Withdrawn(mem.infraID)
    BY <1>1, <1>4, StepOverrideInv DEF HoldInv, WithdrawnInv
  <2>6. pc' \in {"destroyInfra", "callDestroy", "destroyIAM", "unfinalize"} => Withdrawn(mem.infraID)
    <3>1. CASE pc = "deleteWork" /\ workCache[mem.infraID].state = "absent"
      <4>1. mem.infraID \in InfraIDs
        BY <3>1, MemFacts DEF Early
      <4> QED BY <3>1, <4>1 DEF HoldInv, CacheKnows, Withdrawn
    <3>2. CASE pc = "destroy" /\ mem.override = "INFRA-ONLY"
      BY <3>2 DEF HoldInv, WithdrawnInv
    <3>3. CASE pc = "badSecret" /\ pc' = "unfinalize"
      BY <2>1, <3>3 DEF DestroyFlow, Destroying, HoldInv, WithdrawnInv
    <3> QED BY <2>1, <3>1, <3>2, <3>3 DEF DestroyFlow, HoldInv, WithdrawnInv
  <2>7. pc' = "badSecret" /\ mem'.deleting => Withdrawn(mem.infraID)
    BY <2>1 DEF DestroyFlow, HoldInv, WithdrawnInv
  <2>8. pc' = "infra" => ~mem'.deleting
    BY <2>1 DEF Flow
  <2>9. pc' = "work" => mem'.override # "INFRA-ONLY"
    BY <1>4, <2>1, StepOverrideInv DEF Flow, Applies
  <2> QED BY <2>3, <2>5, <2>6, <2>7, <2>8, <2>9 DEF WithdrawnInv
<1>5. CASE EnsureFinalizer /\ pc' # "idle"
  <2>1. pc = "finalizer" /\ pc' = "dispatch"
    BY <1>5, EnsureFinalizerEffect
  <2>2. ASSUME mem'.override = "INFRA-ONLY" PROVE StaysWithdrawn(mem'.infraID)
    <3>1. Withdrawn(mem.infraID)
      BY <1>1, <1>5, <2>2, StepOverrideInv DEF HoldInv, WithdrawnInv
    <3>2. CASE mem'.infraID = mem.infraID
      BY <1>1, <1>5, <3>1, <3>2, WithdrawnStays
    <3>3. CASE mem.infraID = NoID /\ \E p : \E id \in NewIDs : AdoptsAs(p, id)
      <4>1. mem'.infraID \in InfraIDs /\ mem'.infraID \notin Used
        BY <3>3 DEF AdoptsAs, NewIDs
      <4>2. work[mem'.infraID].state = "absent" /\ work' = work
        BY <1>5, <4>1 DEF Used, EnsureFinalizer, workVars
      <4> QED BY <4>2 DEF StaysWithdrawn
    <3>4. ASSUME NEW id \in NewIDs, NEW p, AdoptsAs(p, id), mem.infraID # NoID
          PROVE  mem'.infraID = mem.infraID
      BY <3>4, NewIDsFacts DEF AdoptsAs
    <3>5. Tame => mem'.infraID = mem.infraID
      BY <1>1, <1>5, TameFollows DEF IDInv, Continues
    <3> QED BY <1>5, <3>2, <3>3, <3>4, <3>5, EnsureFinalizerEffect
  <2> QED BY <1>3, <2>1, <2>2 DEF WithdrawnInv
<1>6. RemoveDestroyFinalizer => pc' = "idle"
  BY RemoveEffect
<1> QED BY <1>2, <1>4, <1>5, <1>6, StepSplit

LEMMA StepCacheKnows ==
  ASSUME TypeInv, HoldInv, Step PROVE CacheKnows'
BY StepWorker, StepWork DEF Written, HoldInv, CacheKnows

-----------------------------------------------------------------------------
LEMMA BesideHolds ==
  ASSUME TypeInv, Beside, "INFRA-ONLY" \notin UserOverrides,
         NEW h \in HDs, NEW id, Holder(h, id)
  PROVE  Holder(h, id)'
BY BesideObjects DEF UserMay, Follows, Holder

LEMMA BesideCache ==
  ASSUME TypeInv, Beside, NEW id \in InfraIDs
  PROVE  workCache'[id] \in {workCache[id], work[id]}
BY DEF Beside, vars, workVars, Crash, Start, ObserveObject, Resync, UserDeletes, UserEdits,
       ObserveWork, AgentApplies, AgentCleansUp, TypeInv, RestInv

LEMMA BesideHeld ==
  ASSUME ReadsOwnWrites = TRUE, "INFRA-ONLY" \notin UserOverrides,
         TypeInv, IDInv, HoldInv, Beside
  PROVE  HoldInv'
<1>1. WorkHeld'
  BY BesideHolds, BesideWork DEF HoldInv, WorkHeld
<1>2. CASE UNCHANGED <<pc, key, mem>>
  <2>1. OverrideInv'
    BY <1>2, BesideObjects DEF TypeInv, CallInv, WorkerInv, UserMay, HoldInv, OverrideInv
  <2>2. CacheKnows'
    BY <1>2, BesideWork, BesideCache DEF HoldInv, CacheKnows
  <2>3. mem.infraID \in InfraIDs \cup {NoID}
    BY MemFacts DEF Object
  <2>4. Withdrawn(mem.infraID) => (Withdrawn(mem.infraID))'
    BY <1>2, <2>3, BesideHolds, BesideWork DEF Withdrawn
  <2> QED BY <1>1, <1>2, <2>1, <2>2, <2>4 DEF HoldInv, WithdrawnInv
<1>3. CASE pc' = "idle"
  BY <1>1, <1>3 DEF HoldInv, OverrideInv, CacheKnows, WithdrawnInv
<1>4. CASE /\ pc' = "migrate" /\ key' \in HDs /\ mem' = hd[key'] /\ hd' = hd /\ workCache = work
           /\ UNCHANGED workVars
  <2>1. OverrideInv' /\ CacheKnows'
    BY <1>4 DEF OverrideInv, CacheKnows, workVars
  <2>2. ASSUME mem'.override = "INFRA-ONLY" PROVE StaysWithdrawn(mem'.infraID)
    <3>1. mem'.infraID \in InfraIDs \cup {NoID}
      BY <1>4 DEF TypeInv, CallInv, Object
    <3> SUFFICES ASSUME mem'.infraID # NoID, work[mem'.infraID].state # "absent"
                 PROVE  \E h \in HDs \ {key'} : Holder(h, mem'.infraID)
      BY <1>4 DEF StaysWithdrawn, Holder, workVars
    <3>2. PICK h \in HDs : Holder(h, mem'.infraID)
      BY <3>1 DEF HoldInv, WorkHeld
    <3>3. h # key'
      BY <1>4, <2>2, <3>2 DEF Holder
    <3> QED BY <3>2, <3>3
  <2>3. StaysWithdrawn(mem'.infraID) => Withdrawn(mem.infraID)'
    BY DEF StaysWithdrawn, Withdrawn, Holder
  <2> QED BY <1>1, <1>4, <2>1, <2>2, <2>3 DEF HoldInv, WithdrawnInv
<1> QED BY <1>2, <1>3, <1>4, BesideWorker

LEMMA HoldKeeps ==
  ASSUME ReadsOwnWrites = TRUE, "INFRA-ONLY" \notin UserOverrides,
         TypeInv, IDInv, HoldInv, [Next]_vars
  PROVE  HoldInv'
<1>1. CASE Step
  BY <1>1, StepHeld, StepOverrideInv, StepCacheKnows, StepWithdrawn DEF HoldInv
<1> QED BY <1>1, BesideHeld, NextSplit

LEMMA HoldInvariant ==
  ASSUME ReadsOwnWrites = TRUE, "INFRA-ONLY" \notin UserOverrides PROVE Spec => []HoldInv
<1>1. Init => HoldInv
  BY DEF Init, NoWork, HoldInv, WorkHeld, OverrideInv, CacheKnows, WithdrawnInv
<1> QED BY <1>1, HoldKeeps, TypeInvariant, IDInvariant, PTL DEF Spec

(***************************************************************************)
(* A ManifestWork in the API server has an object that holds the destroy   *)
(* finalizer and its infra ID, on either platform, whatever fails, and for *)
(* objects that share an infra ID too: the deletion lets go of an object   *)
(* only when the cache of the reconcile shows no work, and the copy that   *)
(* says INFRA-ONLY is believed only when the object never had one.  That   *)
(* holds as long as no user changes the override to INFRA-ONLY afterwards. *)
(***************************************************************************)
THEOREM WorkKept ==
  ASSUME ReadsOwnWrites = TRUE, "INFRA-ONLY" \notin UserOverrides
  PROVE  Spec => []WorkNotLeaked
<1>1. HoldInv => WorkNotLeaked
  BY DEF HoldInv, WorkHeld, Holder, WorkNotLeaked
<1> QED BY <1>1, HoldInvariant, PTL

-----------------------------------------------------------------------------
(* The conditions and the parts of the spec they stand for. *)

\* Only the deprecated roles are ever taken out of a spec, and the copy has all the others.
PartsInv ==
  /\ \A h \in HDs : cache[h].parts \ {"roles"} \subseteq hd[h].parts
  /\ pc # "idle" => hd[key].parts \ {"roles"} \subseteq mem.parts

PartsGrow ==
  /\ hd[key].parts \ {"roles"} \subseteq hd'[key].parts
  /\ pc' # "idle" => /\ mem.parts \ {"roles"} \subseteq mem'.parts
                     /\ hd'[key].parts \ {"roles"} \subseteq mem'.parts
  /\ pc' = "platformTrue" => "infra" \in hd'[key].parts
  /\ pc' = "iamTrue" => "iam" \in hd'[key].parts

\* The conditions that a step can leave in the object or in the copy.
Reportable == hd[key].ready \cup mem.ready \cup Earned

ReadyMoves == /\ hd'[key].ready \subseteq Reportable
              /\ pc' # "idle" => mem'.ready \subseteq Reportable

LEMMA SentParts ==
  ASSUME TypeInv, PartsInv, pc # "idle", NEW c \in Object, Carries(c), Sends(c)
  PROVE  /\ hd[key].parts \ {"roles"} \subseteq hd'[key].parts
         /\ c.parts \ {"roles"} \subseteq hd'[key].parts
         /\ mem.parts \ {"roles"} \subseteq mem'.parts /\ hd'[key].parts \subseteq mem'.parts
         /\ ReadyMoves
<1> DEFINE s == hd[key].parts
           b == cache[key].parts
<1>1. key \in HDs /\ hd \in [HDs -> Object]
  BY DEF TypeInv, CallInv, WorkerInv
<1>2. /\ hd'[key].parts = MergeStruct(s, b, c.parts) /\ hd'[key].ready = hd[key].ready
      /\ mem'.parts = hd'[key].parts \cup c.parts /\ mem'.ready = hd[key].ready
  BY <1>1, SentContents
<1>3. /\ b \ {"roles"} \subseteq s /\ s \ {"roles"} \subseteq mem.parts
      /\ mem.parts \ {"roles"} \subseteq c.parts
  BY <1>1 DEF PartsInv, Carries
<1>4. MergeStruct(s, b, c.parts) = (s \ (b \ c.parts)) \cup (c.parts \ b)
  BY DEF MergeStruct
<1> HIDE DEF s, b
<1>5. /\ s \ {"roles"} \subseteq MergeStruct(s, b, c.parts)
      /\ c.parts \ {"roles"} \subseteq MergeStruct(s, b, c.parts)
  BY <1>3, <1>4
<1> QED BY <1>2, <1>3, <1>5 DEF s, ReadyMoves, Reportable

LEMMA TameParts ==
  ASSUME TypeInv, PartsInv, pc # "idle", Tame PROVE PartsGrow /\ ReadyMoves
<1>1. key \in HDs /\ hd \in [HDs -> Object] /\ hd[key] \in Object
  BY DEF TypeInv, CallInv, WorkerInv
<1>2. CASE Quiet
  BY <1>2, JudgedType DEF Quiet, PartsInv, PartsGrow, ReadyMoves, Reportable
<1>3. CASE Patches
  <2>1. PICK c \in Object : Carries(c) /\ Fills(c) /\ Sends(c)
    BY <1>3 DEF Patches
  <2> QED BY <2>1, SentParts DEF PartsGrow, Fills
<1>4. CASE Reports
  <2>1. PICK c \in Judged : /\ hd' = [hd EXCEPT ![key] = StatusPatched(hd[key], c)]
                            /\ mem' = Decoded(c, StatusPatched(hd[key], c))
    BY <1>4 DEF Reports, Store
  <2>2. c \in Object /\ c.parts = mem.parts /\ c.ready \subseteq mem.ready \cup Earned
    BY JudgedType
  <2>3. /\ StatusPatched(hd[key], c).parts = hd[key].parts
        /\ StatusPatched(hd[key], c).ready = c.ready
        /\ Decoded(c, StatusPatched(hd[key], c)).parts = hd[key].parts \cup mem.parts
        /\ Decoded(c, StatusPatched(hd[key], c)).ready = c.ready
    BY <1>1, <2>2 DEF StatusPatched, Decoded, Object
  <2> QED BY <1>1, <1>4, <2>1, <2>2, <2>3 DEF Reports, PartsGrow, ReadyMoves, Reportable
<1>5. CASE Ends
  <2>1. /\ [hd[key] EXCEPT !.ready = mem.ready].parts = hd[key].parts
        /\ [hd[key] EXCEPT !.ready = mem.ready].ready = mem.ready
    BY <1>1 DEF Object
  <2> QED BY <1>1, <1>5, <2>1 DEF Ends, ReportReady, Store, PartsGrow, ReadyMoves, Reportable
<1> QED BY <1>2, <1>3, <1>4, <1>5 DEF Tame

LEMMA StepParts ==
  ASSUME TypeInv, IDInv, PartsInv, Step PROVE PartsGrow /\ ReadyMoves
<1>1. pc # "idle" /\ key \in HDs /\ hd \in [HDs -> Object]
  BY StepWorker DEF TypeInv, CallInv, WorkerInv
<1>2. CASE Ordinary
  BY <1>1, <1>2, OrdinaryTame, TameParts
<1>3. CASE EnsureFinalizer
  <2>1. ASSUME NEW c \in Object, Carries(c), Sends(c) PROVE PartsGrow /\ ReadyMoves
    <3>1. pc' \in {"dispatch", "idle"}
      BY <1>3, EnsureFinalizerEffect
    <3> QED BY <1>1, <2>1, <3>1, SentParts DEF PartsGrow
  <2> QED BY <1>1, <1>3, <2>1, EnsureFinalizerEffect, TameParts
<1>4. CASE RemoveDestroyFinalizer
  <2>1. Unfinalized.parts = mem.parts /\ Unfinalized.ready = hd[key].ready
    BY CopyTypes DEF Unfinalized, Settle, Object
  <2> QED BY <1>1, <1>4, <2>1, RemoveEffect
          DEF Store, PartsInv, PartsGrow, ReadyMoves, Reportable
<1> QED BY <1>2, <1>3, <1>4, StepSplit

\* What the conditions promise of the spec.
PartsTrue(ready, parts) ==
  /\ "PlatformConfigured" \in ready => "infra" \in parts
  /\ Platform = "AWS" /\ "PlatformIAMConfigured" \in ready => "iam" \in parts

PartsReady ==
  /\ \A h \in HDs : PartsTrue(hd[h].ready, hd[h].parts)
  /\ pc # "idle" => PartsTrue(mem.ready, hd[key].parts)
  /\ pc = "platformTrue" => "infra" \in hd[key].parts
  /\ pc = "iamTrue" => "iam" \in hd[key].parts

ContentInv == PartsInv /\ PartsReady

LEMMA StepContent == ASSUME TypeInv, IDInv, ContentInv, Step PROVE ContentInv'
<1>1. /\ pc # "idle" /\ key \in HDs /\ key' = key /\ cache' = cache /\ OthersStay
      /\ PartsGrow /\ ReadyMoves
  BY StepWorker, StepOverride, StepParts DEF ContentInv, TypeInv, CallInv, WorkerInv
<1>2. PartsInv'
  <2>1. \A h \in HDs : hd[h].parts \ {"roles"} \subseteq hd'[h].parts
    BY <1>1 DEF OthersStay, PartsGrow
  <2> QED BY <1>1, <2>1 DEF ContentInv, PartsInv, PartsGrow
<1>3. PartsTrue(Reportable, hd'[key].parts)
  BY <1>1 DEF Reportable, Earned, ContentInv, PartsReady, PartsTrue, PartsGrow
<1>4. \A h \in HDs : h # key => PartsTrue(hd'[h].ready, hd'[h].parts)
  BY <1>1 DEF ContentInv, PartsReady, OthersStay
<1>5. PartsTrue(hd'[key].ready, hd'[key].parts)
      /\ (pc' # "idle" => PartsTrue(mem'.ready, hd'[key].parts))
  BY <1>1, <1>3 DEF ReadyMoves, PartsTrue
<1>6. PartsReady'
  BY <1>1, <1>4, <1>5 DEF PartsReady, PartsTrue, PartsGrow
<1> QED BY <1>2, <1>6 DEF ContentInv

LEMMA BesideCopies ==
  ASSUME TypeInv, Beside PROVE \A h \in HDs : cache'[h] \in {cache[h], hd[h]}
BY DEF Beside, vars, Crash, Start, ObserveObject, Resync, UserDeletes, UserEdits,
       ObserveWork, AgentApplies, AgentCleansUp, TypeInv, RestInv

LEMMA BesideContent ==
  ASSUME ReadsOwnWrites = TRUE, TypeInv, ContentInv, Beside PROVE ContentInv'
<1>1. \A h \in HDs : hd'[h].ready = hd[h].ready /\ hd'[h].parts = hd[h].parts
  BY BesideObjects DEF UserMay
<1>2. \A h \in HDs : cache'[h].parts \ {"roles"} \subseteq hd'[h].parts
  BY <1>1, BesideCopies DEF ContentInv, PartsInv
<1>3. \A h \in HDs : PartsTrue(hd'[h].ready, hd'[h].parts)
  BY <1>1 DEF ContentInv, PartsReady
<1>4. CASE UNCHANGED <<pc, key, mem>>
  BY <1>1, <1>2, <1>3, <1>4 DEF ContentInv, PartsInv, PartsReady, PartsTrue,
                                TypeInv, CallInv, WorkerInv
<1>5. CASE pc' = "idle"
  BY <1>2, <1>3, <1>5 DEF ContentInv, PartsInv, PartsReady, PartsTrue
<1>6. CASE pc' = "migrate" /\ key' \in HDs /\ mem' = hd[key'] /\ hd' = hd
  BY <1>2, <1>3, <1>6 DEF ContentInv, PartsInv, PartsReady, PartsTrue
<1> QED BY <1>4, <1>5, <1>6, BesideWorker

LEMMA ContentInvariant == ASSUME ReadsOwnWrites = TRUE PROVE Spec => []ContentInv
<1>1. ASSUME Init PROVE ContentInv
  <2>1. \A h \in HDs : hd[h].ready = {} /\ cache[h] = hd[h]
    BY <1>1, HubAssumption DEF Init
  <2> QED BY <1>1, <2>1 DEF Init, ContentInv, PartsInv, PartsReady, PartsTrue
<1>2. ASSUME TypeInv, IDInv, ContentInv, [Next]_vars PROVE ContentInv'
  BY <1>2, StepContent, BesideContent, NextSplit
<1> QED BY <1>1, <1>2, TypeInvariant, IDInvariant, PTL DEF Spec

-----------------------------------------------------------------------------
(* The conditions and the cloud.                                           *)

\* What the conditions promise of the cloud.
CloudTrue(ready, id) ==
  /\ "PlatformConfigured" \in ready => id \in infra
  /\ Platform = "AWS" /\ "PlatformIAMConfigured" \in ready => id \in iam

\* The worker is not in the deletion of its object, whatever it has heard of it since.
Building == /\ pc # "idle"
            /\ ~mem.deleting \/ pc \in Creating \cup {"apply", "work"}

CloudReady ==
  /\ \A h \in HDs : hd[h].exists /\ ~hd[h].deleting => CloudTrue(hd[h].ready, hd[h].infraID)
  /\ Building => CloudTrue(hd[key].ready, mem.infraID) /\ CloudTrue(mem.ready, mem.infraID)
  /\ pc \in {"scaffold", "platformTrue"} => mem.infraID \in infra
  /\ pc \in {"patchIAM", "iamTrue"} => mem.infraID \in iam
  /\ pc = "notApplicable" => ~mem.deleting
  /\ pc = "work" /\ mem.configure => /\ mem.infraID \in infra /\ "infra" \in mem.parts
                                     /\ Platform = "AWS" => /\ mem.infraID \in iam
                                                            /\ "iam" \in mem.parts

\* What a step takes out of the cloud is the worker's, and its object is being deleted.
LEMMA CloudLoss ==
  ASSUME TypeInv, Step
  PROVE  \A id \in (infra \ infra') \cup (iam \ iam') :
           id = mem.infraID /\ pc \in {"callDestroy", "destroyIAM"}
BY CloudEffect DEF CreateInfra, CreateIAM, DestroyInfra, DestroyIAM

\* In every form of a step, what is said of an object that lives on was said of it before.
LEMMA StepObject ==
  ASSUME TypeInv, IDInv, Step
  PROVE  /\ \A h \in HDs : hd'[h].configure = hd[h].configure
         /\ hd'[key].exists /\ ~hd'[key].deleting =>
              /\ hd[key].exists /\ ~hd[key].deleting
              /\ hd[key].infraID \in {NoID, hd'[key].infraID}
         /\ pc' # "idle" => /\ mem.deleting => mem'.deleting
                            /\ mem'.configure = mem.configure
                            /\ mem.infraID \in {NoID, mem'.infraID}
<1>1. pc # "idle" /\ key \in HDs /\ hd \in [HDs -> Object] /\ mem.infraID = hd[key].infraID
      /\ mem.configure = hd[key].configure /\ (mem.deleting => hd[key].deleting)
  BY StepWorker DEF TypeInv, CallInv, WorkerInv, IDInv, Mirror
<1>2. CASE AllFollow /\ Continues
  BY <1>1, <1>2 DEF AllFollow, Follows, Continues
<1>3. CASE EnsureFinalizer
  <2>1. ASSUME NEW p, NEW id, Store(p), AdoptsAs(p, id)
        PROVE  /\ \A h \in HDs : hd'[h].configure = hd[h].configure
               /\ ~hd'[key].deleting => ~hd[key].deleting
               /\ hd[key].exists
               /\ hd[key].infraID \in {NoID, hd'[key].infraID}
               /\ mem.deleting => mem'.deleting
               /\ mem'.configure = mem.configure
               /\ mem.infraID \in {NoID, mem'.infraID}
    BY <1>1, <2>1 DEF Store, AdoptsAs, Adopts
  <2>2. Tame => AllFollow /\ Continues
    BY <1>1, TameFollows DEF IDInv
  <2> QED BY <1>2, <1>3, <2>1, <2>2, EnsureFinalizerEffect DEF Sends
<1>4. CASE RemoveDestroyFinalizer
  <2>1. CASE hd' = hd
    BY <1>4, <2>1, RemoveEffect
  <2>2. CASE /\ Store(Unfinalized) /\ ~Unfinalized.exists
             /\ Unfinalized.configure = hd[key].configure
    BY <1>1, <1>4, <2>2, RemoveEffect DEF Store
  <2> QED BY <1>4, <2>1, <2>2, RemoveEffect
<1>5. CASE Ordinary
  BY <1>1, <1>2, <1>5, OrdinaryTame, TameFollows DEF IDInv
<1> QED BY <1>3, <1>4, <1>5, StepSplit

\* The worker does not come back from a deletion to build.
LEMMA BuildingBefore ==
  ASSUME TypeInv, IDInv, CloudReady, Step, Building' PROVE Building
<1>1. pc # "idle" /\ pc' # "idle" /\ (mem.deleting => mem'.deleting)
  BY StepWorker, StepObject DEF Building
<1>2. CASE Ordinary
  <2>1. Flow
    BY <1>2, OrdinaryTame
  <2>2. pc' = "work" => pc = "apply"
    BY <2>1 DEF Flow
  <2>3. pc' = "apply" => \/ pc \in Creating \cup {"notApplicable"}
                         \/ pc = "badSecret" /\ ~mem.deleting
    BY <2>1 DEF Flow
  <2>4. pc' \in Creating => pc \in Creating \/ ~mem.deleting
    BY <2>1 DEF Flow
  <2> QED BY <1>1, <2>2, <2>3, <2>4 DEF Building, CloudReady
<1>3. CASE EnsureFinalizer
  BY <1>1, <1>3, EnsureFinalizerEffect DEF Building, Creating
<1>4. CASE RemoveDestroyFinalizer
  BY <1>1, <1>4, RemoveEffect
<1> QED BY <1>2, <1>3, <1>4, StepSplit

LEMMA StepCloudReady ==
  ASSUME TypeInv, IDInv, DistinctIDs, ContentInv, CloudReady, Step PROVE CloudReady'
<1>1. /\ pc # "idle" /\ key \in HDs /\ key' = key /\ OthersStay /\ PartsGrow /\ ReadyMoves
      /\ hd[key].infraID = mem.infraID /\ (mem.deleting => hd[key].deleting)
      /\ infra \subseteq InfraIDs /\ iam \subseteq InfraIDs
  BY StepWorker, StepOverride, StepParts
     DEF ContentInv, TypeInv, CallInv, WorkerInv, RestInv, IDInv, Mirror
<1>2. Building => infra \subseteq infra' /\ iam \subseteq iam'
  BY CloudLoss DEF Building, Creating, IDInv, Guarded, Destroying
<1>3. Building => CloudTrue(Reportable, mem.infraID)
  BY DEF CloudReady, CloudTrue, Reportable, Earned
<1>4. ASSUME Building, NEW ready, ready \subseteq Reportable,
             NEW id, mem.infraID \in {NoID, id}
      PROVE  /\ "PlatformConfigured" \in ready => id \in infra'
             /\ Platform = "AWS" /\ "PlatformIAMConfigured" \in ready => id \in iam'
  <2>1. NoID \notin infra /\ NoID \notin iam
    BY <1>1, HubAssumption
  <2> QED BY <1>2, <1>3, <1>4, <2>1 DEF CloudTrue
<1>5. ASSUME NEW h \in HDs, hd'[h].exists, ~hd'[h].deleting
      PROVE  CloudTrue(hd[h].ready, hd[h].infraID)'
  <2>1. CASE h = key
    <3>1. ~hd[key].deleting /\ hd[key].infraID \in {NoID, hd'[key].infraID}
      BY <1>5, <2>1, StepObject
    <3>2. Building
      BY <1>1, <3>1 DEF Building
    <3> QED BY <1>1, <1>4, <2>1, <3>1, <3>2 DEF CloudTrue, ReadyMoves
  <2>2. CASE h # key
    <3>1. hd'[h] = hd[h] /\ CloudTrue(hd[h].ready, hd[h].infraID)
      BY <1>1, <1>5, <2>2 DEF OthersStay, CloudReady
    <3>2. pc \in {"callDestroy", "destroyIAM"} => hd[h].infraID # mem.infraID
      BY <1>1, <2>2, MemFacts, HubAssumption DEF DistinctIDs, Early
    <3> QED BY <3>1, <3>2, CloudLoss DEF CloudTrue
  <2> QED BY <2>1, <2>2
<1>6. ASSUME Building'
      PROVE  CloudTrue(hd[key].ready, mem.infraID)' /\ CloudTrue(mem.ready, mem.infraID)'
  <2>1. Building /\ pc' # "idle"
    BY <1>6, BuildingBefore DEF Building
  <2>2. mem.infraID \in {NoID, mem'.infraID}
    BY <2>1, StepObject
  <2> QED BY <1>1, <1>4, <2>1, <2>2 DEF CloudTrue, ReadyMoves
<1>7. CASE Ordinary /\ pc' # "idle"
  <2>1. Flow /\ mem'.infraID = mem.infraID /\ mem'.configure = mem.configure
    BY <1>1, <1>7, OrdinaryTame, TameFollows DEF IDInv, Continues
  <2>2. CASE pc' \in Creating \cup {"notApplicable"}
    <3>1. pc' = "platformTrue" => mem.infraID \in infra'
      BY <2>1, CloudLoss DEF Flow, CloudReady
    <3>2. pc' = "iamTrue" => mem.infraID \in iam'
      BY <2>1, CloudLoss DEF Flow, CloudReady
    <3>3. pc' # "work"
      BY <2>2 DEF Creating
    <3> QED BY <1>5, <1>6, <2>1, <3>1, <3>2, <3>3 DEF Flow, CloudReady
  <2>3. CASE pc' = "work"
    <3>1. pc = "apply" /\ Applies /\ Building
      BY <1>1, <2>1, <2>3 DEF Flow, Building
    <3>2. ASSUME mem.configure
          PROVE  /\ mem.infraID \in infra' /\ "infra" \in mem'.parts
                 /\ Platform = "AWS" => mem.infraID \in iam' /\ "iam" \in mem'.parts
      <4>1. mem.ready = Conditions /\ CloudTrue(mem.ready, mem.infraID)
        BY <3>1, <3>2 DEF Applies, CloudReady
      <4>2. PartsTrue(mem.ready, hd[key].parts) /\ hd[key].parts \ {"roles"} \subseteq mem.parts
            /\ mem.parts \ {"roles"} \subseteq mem'.parts
        BY <1>1, <2>3 DEF ContentInv, PartsInv, PartsReady, PartsGrow
      <4> QED BY <1>2, <3>1, <4>1, <4>2 DEF CloudTrue, PartsTrue, Conditions
    <3> QED BY <1>5, <1>6, <2>1, <2>3, <3>2 DEF CloudReady
  <2>4. CASE pc' \notin Creating \cup {"notApplicable", "work"}
    BY <1>5, <1>6, <2>4 DEF CloudReady, Creating
  <2> QED BY <2>2, <2>3, <2>4
<1>8. CASE pc' \in {"idle", "dispatch"}
  BY <1>5, <1>6, <1>8 DEF CloudReady
<1> QED BY <1>7, <1>8, StepSplit, EnsureFinalizerEffect, RemoveEffect

LEMMA BesideCloudReady ==
  ASSUME ReadsOwnWrites = TRUE, TypeInv, CloudReady, Beside PROVE CloudReady'
<1>1. UNCHANGED <<infra, iam>> /\ \A h \in HDs : UserMay(hd[h], hd'[h])
  BY BesideWorker, BesideObjects
<1>2. \A h \in HDs : hd'[h].exists /\ ~hd'[h].deleting => CloudTrue(hd[h].ready, hd[h].infraID)'
  BY <1>1 DEF UserMay, Follows, CloudReady, CloudTrue
<1>3. CASE UNCHANGED <<pc, key, mem>>
  <2>1. hd'[key].ready = hd[key].ready
    BY <1>1 DEF UserMay, TypeInv, CallInv, WorkerInv
  <2> QED BY <1>1, <1>2, <1>3, <2>1 DEF CloudReady, CloudTrue, Building
<1>4. CASE pc' = "idle"
  BY <1>2, <1>4 DEF CloudReady, Building
<1>5. CASE pc' = "migrate" /\ key' \in HDs /\ mem' = hd[key'] /\ hd[key'].exists /\ hd' = hd
  BY <1>1, <1>2, <1>5 DEF CloudReady, CloudTrue, Building, Creating
<1> QED BY <1>3, <1>4, <1>5, BesideWorker

LEMMA CloudReadyInvariant ==
  ASSUME ReadsOwnWrites = TRUE PROVE Spec /\ DistinctIDs => []CloudReady
<1>1. ASSUME Init PROVE CloudReady
  <2>1. \A h \in HDs : hd[h].ready = {}
    BY <1>1, HubAssumption DEF Init
  <2> QED BY <1>1, <2>1 DEF Init, CloudReady, CloudTrue, Building
<1>2. ASSUME TypeInv, IDInv, DistinctIDs, ContentInv, CloudReady, [Next]_vars PROVE CloudReady'
  BY <1>2, StepCloudReady, BesideCloudReady, NextSplit
<1> QED BY <1>1, <1>2, TypeInvariant, IDInvariant, DistinctInvariant, ContentInvariant, PTL DEF Spec

(***************************************************************************)
(* The conditions that open the way to the ManifestWork tell the truth of  *)
(* every object that is not being deleted, on either platform: whatever    *)
(* fails, and although a status patch writes the whole list of conditions  *)
(* out of the worker's copy, an object that says configured has its        *)
(* platform in the cloud and the outputs in its spec.                      *)
(***************************************************************************)
THEOREM ReadyTellsTruth ==
  ASSUME ReadsOwnWrites = TRUE PROVE Spec /\ DistinctIDs => []ReadyIsTrue
<1>1. ContentInv /\ CloudReady => ReadyIsTrue
  BY DEF ContentInv, PartsReady, PartsTrue, CloudReady, CloudTrue, ReadyIsTrue
<1> QED BY <1>1, ContentInvariant, CloudReadyInvariant, PTL

-----------------------------------------------------------------------------
(* What is sent to the hosting cluster. *)

\* The annotation of a work names an object of its infra ID.
WorkOwned ==
  \A id \in InfraIDs : work[id].state # "absent" =>
    work[id].owner \in HDs /\ hd[work[id].owner].infraID = id

CompleteInv == WorkOwned /\ WorkIsComplete

LEMMA ConfigureKept ==
  ASSUME TypeInv, IDInv, [Next]_vars
  PROVE  \A h \in HDs : /\ hd'[h].configure = hd[h].configure
                        /\ hd[h].infraID # NoID => hd'[h].infraID = hd[h].infraID
<1>1. \A h \in HDs : hd[h].infraID # NoID => hd'[h].infraID = hd[h].infraID
  BY IDChange DEF IDKept
<1>2. CASE Step
  BY <1>1, <1>2, StepObject
<1>3. CASE Beside
  BY <1>1, <1>3, BesideObjects DEF AllFollow, Follows
<1> QED BY <1>2, <1>3, NextSplit

LEMMA CompleteKeeps ==
  ASSUME TypeInv, IDInv, DistinctIDs, CloudReady, CompleteInv, [Next]_vars PROVE CompleteInv'
<1> SUFFICES ASSUME NEW id \in InfraIDs, work'[id].state # "absent"
             PROVE  /\ work'[id].owner \in HDs /\ hd'[work'[id].owner].infraID = id
                    /\ hd'[work'[id].owner].configure =>
                         (IF Platform = "AWS" THEN {"infra", "iam"} ELSE {"infra"})
                           \subseteq work'[id].parts
  BY DEF CompleteInv, WorkOwned, WorkIsComplete
<1>1. id # NoID
  BY HubAssumption
<1>2. CASE /\ work[id].state # "absent" /\ work'[id].parts = work[id].parts
           /\ work'[id].owner = work[id].owner
  BY <1>1, <1>2, ConfigureKept DEF CompleteInv, WorkOwned, WorkIsComplete
<1>3. CASE /\ pc = "work" /\ id = mem.infraID /\ work'[id].parts = mem.parts
           /\ work'[id].owner = IF work[id].state = "absent" THEN key ELSE work[id].owner
  <2>1. key \in HDs /\ hd[key].infraID = id /\ hd[key].configure = mem.configure
    BY <1>3 DEF TypeInv, CallInv, WorkerInv, IDInv, Mirror
  <2>2. work[id].state # "absent" => work[id].owner = key
    BY <1>1, <2>1 DEF CompleteInv, WorkOwned, DistinctIDs
  <2>3. work'[id].owner = key
    BY <1>3, <2>2
  <2>4. mem.configure => /\ "infra" \in mem.parts
                         /\ Platform = "AWS" => "iam" \in mem.parts
    BY <1>3 DEF CloudReady
  <2> QED BY <1>1, <1>3, <2>1, <2>3, <2>4, ConfigureKept
<1> QED BY <1>2, <1>3, NextSplit, StepWork, BesideWork DEF Written

LEMMA CompleteInvariant ==
  ASSUME ReadsOwnWrites = TRUE PROVE Spec /\ DistinctIDs => []CompleteInv
<1>1. Init => CompleteInv
  BY DEF Init, NoWork, CompleteInv, WorkOwned, WorkIsComplete
<1> QED BY <1>1, CompleteKeeps, TypeInvariant, IDInvariant, DistinctInvariant,
           CloudReadyInvariant, PTL DEF Spec

(***************************************************************************)
(* What is sent to the hosting cluster was scaffolded from finished        *)
(* infrastructure, on either platform: the parts of a ManifestWork come    *)
(* out of a copy whose conditions were both True, and every later update   *)
(* out of a copy that has no fewer parts.                                  *)
(***************************************************************************)
THEOREM WorkComplete ==
  ASSUME ReadsOwnWrites = TRUE PROVE Spec /\ DistinctIDs => []WorkIsComplete
<1>1. CompleteInv => WorkIsComplete
  BY DEF CompleteInv
<1> QED BY <1>1, CompleteInvariant, PTL
=============================================================================
