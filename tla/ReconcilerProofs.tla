------------------------- MODULE ReconcilerProofs -------------------------
(***************************************************************************)
(* The safety of DeploymentReconciler, for every set of objects and infra  *)
(* IDs, every number of faults and every edit of spec.override, when a     *)
(* reconcile starts on a cache that is caught up.                          *)
(***************************************************************************)
EXTENDS ReconcilerTypes

\* An object with the destroy finalizer is there, and its infra ID is chosen.
Named ==
  \A h \in HDs : DestroyFinalizer \in hd[h].finalizers => hd[h].exists /\ hd[h].infraID # NoID

\* No other controller puts a finalizer on an object.
OnlyMain == \A h \in HDs : hd[h].finalizers \subseteq {DestroyFinalizer}

\* What the cache holds may be old, and is never ahead of the API server.
CacheBehind ==
  \A h \in HDs : /\ cache[h].infraID \in {NoID, hd[h].infraID}
                 /\ cache[h].finalizers \subseteq hd[h].finalizers \/ ~hd[h].exists

\* In what the deletion depends on, the worker's copy is the object in the API server.
Mirror ==
  pc # "idle" => /\ mem.infraID = hd[key].infraID
                 /\ mem.finalizers = hd[key].finalizers
                 /\ mem.configure = hd[key].configure
                 /\ mem.deleting => hd[key].deleting

\* What the worker has seen to before it gets where it is.
Guarded ==
  /\ pc \notin Early => DestroyFinalizer \in mem.finalizers
  /\ pc \in Creating => mem.configure
  /\ pc \in Destroying => mem.deleting

IDInv == Named /\ OnlyMain /\ CacheBehind /\ Mirror /\ Guarded

-----------------------------------------------------------------------------
(***************************************************************************)
(* p may take the place of o in the API server and answer for what o       *)
(* answers for.                                                            *)
(***************************************************************************)
Follows(o, p) ==
  /\ p.infraID = o.infraID /\ p.finalizers = o.finalizers /\ p.configure = o.configure
  /\ o.deleting => p.deleting
  /\ DestroyFinalizer \in o.finalizers => p.exists = o.exists
  /\ ~o.exists => ~p.exists /\ p.override = o.override

AllFollow == \A h \in HDs : Follows(hd[h], hd'[h])

\* The worker goes on with a copy of the same identity, or ends its reconcile.
Continues ==
  pc' # "idle" => /\ mem'.infraID = mem.infraID /\ mem'.finalizers = mem.finalizers
                  /\ mem'.configure = mem.configure
                  /\ mem.deleting => mem'.deleting
                  /\ mem'.deleting => hd'[key].deleting

LEMMA FollowsReflexive == ASSUME NEW o PROVE Follows(o, o)
BY DEF Follows

LEMMA StoreFollows ==
  ASSUME TypeInv, NEW p, Store(p), Follows(hd[key], p) PROVE AllFollow
BY FollowsReflexive DEF Store, AllFollow, TypeInv, CallInv

LEMMA ReadyFollows ==
  ASSUME NEW o \in Object, NEW ready PROVE Follows(o, [o EXCEPT !.ready = ready])
BY DEF Follows, Object

LEMMA ReportReadyFollows ==
  ASSUME TypeInv, NEW ready, ReportReady(ready) PROVE AllFollow
<1>1. CASE UNCHANGED hd
  BY <1>1, FollowsReflexive DEF AllFollow
<1>2. CASE Store([hd[key] EXCEPT !.ready = ready])
  BY <1>2, CopyTypes, ReadyFollows, StoreFollows
<1> QED BY <1>1, <1>2 DEF ReportReady

\* A merge patch with a copy like the object changes nothing of its identity.
LEMMA PatchedFollows ==
  ASSUME NEW s \in Object, NEW b \in Object, NEW m \in Object, s.exists,
         m.infraID = s.infraID, m.finalizers = s.finalizers
  PROVE  Follows(s, Patched(s, b, m))
<1> DEFINE p == Patched(s, b, m)
<1>1. p.infraID = s.infraID /\ p.finalizers = s.finalizers /\ p.configure = s.configure
      /\ p.deleting = s.deleting /\ p.exists = (s.exists /\ (s.deleting => s.finalizers # {}))
  BY DEF Patched, MergeField, Settle, Object
<1> QED BY <1>1 DEF Follows

\* The response to a write leaves the copy's identity, and tells of the deletion.
LEMMA DecodedLike ==
  ASSUME NEW m \in Object, NEW r \in Object, r.infraID = m.infraID, r.finalizers = m.finalizers
  PROVE  /\ Decoded(m, r).infraID = m.infraID /\ Decoded(m, r).finalizers = m.finalizers
         /\ Decoded(m, r).configure = r.configure /\ Decoded(m, r).deleting = r.deleting
BY DEF Decoded, Object

\* A write whose result follows the object, and whose response becomes the copy.
LEMMA WriteFollows ==
  ASSUME TypeInv, Mirror, pc # "idle", NEW c \in Object, Like(c),
         NEW p \in Object, Follows(hd[key], p), Store(p), mem' = Decoded(c, p)
  PROVE  AllFollow /\ Continues
<1>1. AllFollow
  BY StoreFollows
<1>2. p.infraID = c.infraID /\ p.finalizers = c.finalizers
      /\ p.configure = mem.configure /\ (mem.deleting => p.deleting)
  BY DEF Mirror, Like, Follows
<1>3. hd'[key] = p
  BY DEF Store, TypeInv, CallInv, WorkerInv
<1>4. Continues
  BY <1>2, <1>3, DecodedLike DEF Continues, Like
<1> QED BY <1>1, <1>4

LEMMA TameFollows ==
  ASSUME TypeInv, Mirror, pc # "idle", Tame PROVE AllFollow /\ Continues
<1>1. CASE Quiet
  BY <1>1, FollowsReflexive, JudgedType DEF Quiet, AllFollow, Continues, Like, Mirror
<1>2. CASE Patches
  <2>1. PICK c \in Object : Like(c) /\ Sends(c)
    BY <1>2 DEF Patches
  <2>2. PatchResult(c) \in Object
    BY CopyTypes, PatchedType DEF PatchResult
  <2>3. Follows(hd[key], PatchResult(c))
    BY <2>1, CopyTypes, PatchedFollows DEF PatchResult, Sends, PatchAdmitted, Admits, Mirror, Like
  <2> QED BY <2>1, <2>2, <2>3, WriteFollows DEF Sends
<1>3. CASE Reports
  <2>1. PICK c \in Judged : /\ Store(StatusPatched(hd[key], c))
                            /\ mem' = Decoded(c, StatusPatched(hd[key], c))
    BY <1>3 DEF Reports
  <2>2. c \in Object /\ Like(c) /\ StatusPatched(hd[key], c) \in Object
    BY JudgedType, CopyTypes, StatusPatchedType
  <2>3. Follows(hd[key], StatusPatched(hd[key], c))
    BY CopyTypes, ReadyFollows DEF StatusPatched
  <2> QED BY <2>1, <2>2, <2>3, WriteFollows
<1>4. CASE Ends
  BY <1>4, ReportReadyFollows DEF Ends, Continues
<1> QED BY <1>1, <1>2, <1>3, <1>4 DEF Tame

-----------------------------------------------------------------------------
(* The identity of objects and copies is an invariant. *)

\* Objects that follow their predecessors keep what is said of the API server.
LEMMA FollowKeeps ==
  ASSUME TypeInv, IDInv, AllFollow, \A h \in HDs : cache'[h] \in {cache[h], hd[h]}
  PROVE  Named' /\ OnlyMain' /\ CacheBehind'
<1>1. Named' /\ OnlyMain'
  BY DEF AllFollow, Follows, IDInv, Named, OnlyMain
<1>2. ASSUME NEW h \in HDs
      PROVE  /\ cache'[h].infraID \in {NoID, hd'[h].infraID}
             /\ cache'[h].finalizers \subseteq hd'[h].finalizers \/ ~hd'[h].exists
  BY <1>2 DEF AllFollow, Follows, IDInv, CacheBehind
<1> QED BY <1>1, <1>2 DEF CacheBehind

LEMMA TameKeeps ==
  ASSUME TypeInv, IDInv, pc # "idle", Tame, Flow, DestroyFlow, cache' = cache
  PROVE  IDInv'
<1>1. AllFollow /\ Continues /\ key' = key /\ key \in HDs
  BY TameFollows DEF IDInv, Tame, TypeInv, CallInv, WorkerInv
<1>2. Named' /\ OnlyMain' /\ CacheBehind'
  BY <1>1, FollowKeeps
<1>3. Mirror'
  BY <1>1 DEF AllFollow, Follows, Continues, IDInv, Mirror
<1>4. pc' \notin Early => DestroyFinalizer \in mem'.finalizers
  BY <1>1 DEF Continues, Flow, IDInv, Guarded, Early
<1>5. pc' \in Creating => mem'.configure
  BY <1>1 DEF Continues, Flow, IDInv, Guarded, Creating
<1>6. pc' \in Destroying => mem'.deleting
  BY <1>1 DEF Continues, DestroyFlow, IDInv, Guarded, Destroying
<1> QED BY <1>2, <1>3, <1>4, <1>5, <1>6 DEF IDInv, Guarded

(***************************************************************************)
(* EnsureFinalizer: an ID that is generated, a finalizer that is added, or *)
(* neither.                                                                *)
(***************************************************************************)
LEMMA NewIDsFacts ==
  ASSUME TypeInv, NEW id \in NewIDs
  PROVE  /\ id \in InfraIDs /\ id # NoID
         /\ mem.infraID # NoID => id = mem.infraID
BY MemFacts, HubAssumption DEF NewIDs, Object

\* What the patch of EnsureFinalizer leaves of the object.
Adopts(o, p, id) ==
  /\ p.infraID = id /\ o.infraID \in {NoID, id}
  /\ p.finalizers = o.finalizers \cup {DestroyFinalizer} /\ DestroyFinalizer \notin o.finalizers
  /\ p.exists /\ o.exists /\ p.configure = o.configure /\ p.deleting = o.deleting
  /\ p.override \in Overrides

\* And what the worker goes on with.
AdoptsAs(p, id) == /\ p \in Object /\ Adopts(hd[key], p, id)
                   /\ mem'.infraID = id /\ mem'.finalizers = p.finalizers
                   /\ mem'.configure = p.configure /\ mem'.deleting = p.deleting

LEMMA EnsureFinalizerEffect ==
  ASSUME TypeInv, IDInv, EnsureFinalizer
  PROVE  /\ pc = "finalizer" /\ key' = key /\ pc' \in {"dispatch", "idle"}
         /\ \/ Tame /\ (pc' = "dispatch" => DestroyFinalizer \in mem.finalizers)
            \/ \E c \in Object, id \in NewIDs : Carries(c) /\ Sends(c) /\ AdoptsAs(PatchResult(c), id)
<1>1. PICK id \in NewIDs :
        LET named == [mem EXCEPT !.infraID = id]
            final == [named EXCEPT !.finalizers = @ \cup {DestroyFinalizer}]
        IN  IF DestroyFinalizer \in mem.finalizers
            THEN Goto("dispatch", named) /\ UNCHANGED <<hd, queue, fresh, faults>>
            ELSE \/ PatchObject(final, "dispatch")
                 \/ PatchObjectFails(final) /\ Requeue /\ UNCHANGED hd
  BY DEF EnsureFinalizer
<1> DEFINE named == [mem EXCEPT !.infraID = id]
           final == [named EXCEPT !.finalizers = @ \cup {DestroyFinalizer}]
<1>2. id \in InfraIDs /\ id # NoID /\ (mem.infraID # NoID => id = mem.infraID)
  BY NewIDsFacts
<1>3. pc = "finalizer" /\ mem \in Object /\ key \in HDs
  BY CopyTypes DEF EnsureFinalizer, TypeInv, CallInv, WorkerInv
<1>4. /\ named \in Object /\ named.infraID = id /\ named.finalizers = mem.finalizers
      /\ named.configure = mem.configure /\ named.deleting = mem.deleting
  BY <1>2, <1>3 DEF Object
<1>5. /\ final \in Object /\ final.infraID = id
      /\ final.finalizers = mem.finalizers \cup {DestroyFinalizer}
      /\ final.override = mem.override /\ final.ready = mem.ready /\ final.parts = mem.parts
  BY <1>3, <1>4, EditedType DEF Object
<1> HIDE DEF final, named
<1>6. CASE /\ DestroyFinalizer \in mem.finalizers
           /\ Goto("dispatch", named) /\ UNCHANGED <<hd, queue, fresh, faults>>
  <2>1. id = mem.infraID
    BY <1>2, <1>3, <1>6 DEF IDInv, Mirror, Named
  <2>2. named = mem
    BY <1>3, <2>1 DEF named, Object
  <2>3. Tame /\ pc' = "dispatch"
    BY <1>6, <2>2, JudgedItself, QuietTame
  <2> QED BY <1>3, <1>6, <2>3 DEF Tame
<1>7. CASE DestroyFinalizer \notin mem.finalizers /\ PatchObject(final, "dispatch")
  <2> DEFINE p == PatchResult(final)
  <2>1. p \in Object
    BY <1>5, CopyTypes, PatchedType DEF PatchResult
  <2>2. /\ hd[key] \in Object /\ cache[key] \in Object /\ hd[key].exists
        /\ hd[key].infraID = mem.infraID /\ hd[key].finalizers = mem.finalizers
        /\ cache[key].infraID \in {NoID, mem.infraID}
        /\ cache[key].finalizers \subseteq mem.finalizers
    BY <1>3, <1>7, CopyTypes DEF PatchObject, PatchAdmitted, Admits, IDInv, Mirror, CacheBehind
  <2>3. /\ p.infraID = id /\ p.finalizers = mem.finalizers \cup {DestroyFinalizer}
        /\ p.configure = hd[key].configure /\ p.deleting = hd[key].deleting /\ p.exists
    BY <1>2, <1>5, <1>7, <2>2 DEF PatchResult, Patched, MergeField, Settle, Object
  <2>4. Adopts(hd[key], p, id)
    BY <1>2, <1>7, <2>1, <2>2, <2>3 DEF Adopts, Object
  <2>5. /\ Decoded(final, p).infraID = id /\ Decoded(final, p).finalizers = p.finalizers
        /\ Decoded(final, p).configure = p.configure /\ Decoded(final, p).deleting = p.deleting
    BY <1>5, <2>1, <2>3, DecodedLike
  <2>6. Sends(final) /\ Carries(final) /\ mem' = Decoded(final, p) /\ key' = key /\ pc' = "dispatch"
    BY <1>5, <1>7 DEF PatchObject, Goto, Sends, Carries
  <2>7. AdoptsAs(p, id)
    BY <2>1, <2>4, <2>5, <2>6 DEF AdoptsAs
  <2> QED BY <1>3, <1>5, <2>6, <2>7
<1>8. CASE PatchObjectFails(final) /\ Requeue /\ UNCHANGED hd
  <2>1. Tame /\ pc' = "idle"
    BY <1>8, EndTame
  <2> QED BY <1>3, <2>1 DEF Tame
<1> QED BY <1>1, <1>6, <1>7, <1>8 DEF final, named

LEMMA EnsureFinalizerKeeps ==
  ASSUME TypeInv, IDInv, EnsureFinalizer PROVE IDInv'
<1>1. pc = "finalizer" /\ key' = key /\ pc' \in {"dispatch", "idle"} /\ cache' = cache /\ key \in HDs
  BY EnsureFinalizerEffect DEF EnsureFinalizer, TypeInv, CallInv, WorkerInv
<1>2. CASE Tame /\ (pc' = "dispatch" => DestroyFinalizer \in mem.finalizers)
  <2>0. AllFollow /\ Continues
    BY <1>1, <1>2, TameFollows DEF IDInv
  <2>1. Named' /\ OnlyMain' /\ CacheBehind'
    BY <1>1, <2>0, FollowKeeps
  <2>2. Mirror'
    BY <1>1, <2>0 DEF AllFollow, Follows, Continues, IDInv, Mirror
  <2>3. Guarded'
    BY <1>1, <1>2, <2>0 DEF Continues, Guarded, Early, Creating, Destroying
  <2> QED BY <2>1, <2>2, <2>3 DEF IDInv
<1>3. ASSUME NEW p, NEW id \in NewIDs, Store(p), AdoptsAs(p, id)
      PROVE  IDInv'
  <2>0. hd' = [hd EXCEPT ![key] = p] /\ hd \in [HDs -> Object] /\ id # NoID
    BY <1>3, NewIDsFacts DEF Store, TypeInv, CallInv
  <2>1. /\ hd' = [hd EXCEPT ![key] = p] /\ hd \in [HDs -> Object] /\ id # NoID
        /\ p \in Object /\ Adopts(hd[key], p, id)
        /\ mem'.infraID = id /\ mem'.finalizers = p.finalizers
        /\ mem'.configure = p.configure /\ mem'.deleting = p.deleting
    BY <1>3, <2>0 DEF AdoptsAs
  <2>2. Named' /\ OnlyMain'
    BY <1>1, <1>3, <2>1 DEF IDInv, Named, OnlyMain, Adopts
  <2>3. CacheBehind'
    BY <1>1, <1>3, <2>1 DEF IDInv, CacheBehind, Adopts
  <2>4. Mirror'
    <3>1. hd'[key'] = p
      BY <1>1, <2>1
    <3> QED BY <2>1, <3>1 DEF Mirror, Adopts
  <2>5. Guarded'
    BY <1>1, <2>1 DEF Guarded, Adopts, Early, Creating, Destroying
  <2> QED BY <2>2, <2>3, <2>4, <2>5 DEF IDInv
<1> QED BY <1>2, <1>3, EnsureFinalizerEffect DEF Sends

(***************************************************************************)
(* RemoveDestroyFinalizer: the object is deleted and this was its last     *)
(* finalizer, so it is gone; what is left of it is the copy.               *)
(***************************************************************************)
LEMMA RemoveEffect ==
  ASSUME TypeInv, IDInv, RemoveDestroyFinalizer
  PROVE  /\ pc = "unfinalize" /\ pc' = "idle" /\ key' = key /\ cache' = cache
         /\ \/ AllFollow /\ hd' = hd
            \/ /\ Store(Unfinalized) /\ Unfinalized \in Object /\ Unfinalized.deleting
               /\ Unfinalized.infraID = hd[key].infraID /\ Unfinalized.finalizers = {}
               /\ Unfinalized.configure = hd[key].configure /\ ~Unfinalized.exists
               /\ Unfinalized.override = mem.override
<1>1. pc = "unfinalize" /\ pc' = "idle" /\ key' = key /\ cache' = cache
  BY DEF RemoveDestroyFinalizer, Done, Requeue, Return
<1>2. CASE UNCHANGED hd
  BY <1>1, <1>2, FollowsReflexive DEF AllFollow
<1>3. CASE Store(Unfinalized)
  <2>1. mem \in Object /\ key \in HDs
    BY CopyTypes DEF TypeInv, CallInv, WorkerInv
  <2>2. /\ mem.infraID = hd[key].infraID /\ mem.finalizers = hd[key].finalizers
        /\ mem.configure = hd[key].configure /\ mem.deleting
    BY <1>1 DEF IDInv, Mirror, Guarded, Destroying
  <2>3. mem.finalizers \ {DestroyFinalizer} = {}
    BY <2>1, <2>2 DEF IDInv, OnlyMain
  <2>4. /\ Unfinalized.infraID = mem.infraID /\ Unfinalized.finalizers = {}
        /\ Unfinalized.configure = mem.configure /\ ~Unfinalized.exists
        /\ Unfinalized.override = mem.override /\ Unfinalized.deleting
        /\ Unfinalized \in Object
    BY <2>1, <2>2, <2>3, CopyTypes DEF Unfinalized, Settle, Object
  <2> QED BY <1>1, <1>3, <2>2, <2>4
<1> QED BY <1>2, <1>3 DEF RemoveDestroyFinalizer

LEMMA RemoveKeeps ==
  ASSUME TypeInv, IDInv, RemoveDestroyFinalizer PROVE IDInv'
<1>1. pc' = "idle" /\ cache' = cache
  BY RemoveEffect
<1>2. Mirror' /\ Guarded'
  BY <1>1 DEF Mirror, Guarded, Early, Creating, Destroying
<1>3. CASE AllFollow
  BY <1>1, <1>2, <1>3, FollowKeeps DEF IDInv
<1>4. CASE /\ Store(Unfinalized)
           /\ Unfinalized.infraID = hd[key].infraID /\ Unfinalized.finalizers = {}
           /\ ~Unfinalized.exists
  <2>1. hd' = [hd EXCEPT ![key] = Unfinalized] /\ hd \in [HDs -> Object] /\ key \in HDs
    BY <1>4 DEF Store, TypeInv, CallInv, WorkerInv
  <2>2. Named' /\ OnlyMain'
    BY <1>4, <2>1 DEF IDInv, Named, OnlyMain
  <2>3. CacheBehind'
    BY <1>1, <1>4, <2>1 DEF IDInv, CacheBehind
  <2> QED BY <1>2, <2>2, <2>3 DEF IDInv
<1> QED BY <1>3, <1>4, RemoveEffect

LEMMA StepKeeps == ASSUME TypeInv, IDInv, Step PROVE IDInv'
BY StepSplit, OrdinaryTame, TameKeeps, EnsureFinalizerKeeps, RemoveKeeps

\* Outside the worker: what others write follows, and the worker is where it was.
LEMMA OtherWrites ==
  ASSUME TypeInv, NEW h \in HDs, UserDeletes(h) \/ UserEdits(h)
  PROVE  AllFollow /\ UNCHANGED <<cache, pc, key, mem, infra, iam>>
<1>1. ASSUME NEW o \in Object, hd[h].exists, WriteByOther(h, o), Follows(hd[h], o)
      PROVE  AllFollow
  BY <1>1, FollowsReflexive DEF WriteByOther, AllFollow, TypeInv, CallInv
<1>2. hd[h] \in Object
  BY DEF TypeInv, CallInv
<1>3. CASE UserDeletes(h)
  <2> DEFINE d == [hd[h] EXCEPT !.deleting = TRUE]
  <2>1. d \in Object /\ hd[h].exists
    BY <1>2, <1>3 DEF UserDeletes, Object
  <2>2. Follows(hd[h], Settle(d))
    BY <1>2, <2>1 DEF Follows, Settle, Object
  <2> QED BY <1>1, <1>3, <2>1, <2>2, SettleType DEF UserDeletes, cloudVars
<1>4. CASE UserEdits(h)
  <2>1. PICK o \in UserOverrides : WriteByOther(h, [hd[h] EXCEPT !.override = o])
    BY <1>4 DEF UserEdits
  <2>2. [hd[h] EXCEPT !.override = o] \in Object /\ hd[h].exists
    BY <1>2, <1>4, ReconcilerAssumption DEF UserEdits, Object
  <2>3. Follows(hd[h], [hd[h] EXCEPT !.override = o])
    BY <1>2, <2>2 DEF Follows, Object
  <2> QED BY <1>1, <1>4, <2>1, <2>2, <2>3 DEF UserEdits, cloudVars
<1> QED BY <1>3, <1>4

LEMMA OthersKeep ==
  ASSUME TypeInv, IDInv, AllFollow, UNCHANGED <<pc, key, mem>>,
         \A h \in HDs : cache'[h] \in {cache[h], hd[h]}
  PROVE  IDInv'
<1>1. Named' /\ OnlyMain' /\ CacheBehind'
  BY FollowKeeps
<1>2. Mirror' /\ Guarded'
  BY DEF AllFollow, Follows, TypeInv, CallInv, WorkerInv, IDInv, Mirror, Guarded
<1> QED BY <1>1, <1>2 DEF IDInv

LEMMA StartKeeps ==
  ASSUME ReadsOwnWrites = TRUE, TypeInv, IDInv, NEW h \in HDs, Start(h)
  PROVE  IDInv'
<1>1. UNCHANGED <<hd, cache>> /\ cache[h] = hd[h]
  BY DEF Start
<1>2. Named' /\ OnlyMain' /\ CacheBehind'
  BY <1>1 DEF IDInv, Named, OnlyMain, CacheBehind
<1>3. Mirror' /\ Guarded'
  BY <1>1 DEF Start, IDInv, Mirror, Guarded, Early, Creating, Destroying
<1> QED BY <1>2, <1>3 DEF IDInv

LEMMA InitIDInv == ASSUME Init PROVE IDInv
<1>1. \A h \in HDs : hd[h].finalizers = {} /\ cache[h] = hd[h]
  BY HubAssumption DEF Init
<1>2. pc = "idle"
  BY DEF Init
<1> QED BY <1>1, <1>2 DEF IDInv, Named, OnlyMain, CacheBehind, Mirror, Guarded,
                          Early, Creating, Destroying

LEMMA NextKeeps ==
  ASSUME ReadsOwnWrites = TRUE, TypeInv, IDInv, [Next]_vars PROVE IDInv'
<1>1. CASE Step
  BY <1>1, StepKeeps
<1>2. CASE Crash
  <2>1. UNCHANGED <<hd, cache>> /\ pc' = "idle"
    BY <1>2 DEF Crash, Return
  <2> QED BY <2>1 DEF IDInv, Named, OnlyMain, CacheBehind, Mirror, Guarded,
                      Early, Creating, Destroying
<1>3. ASSUME NEW h \in HDs, Start(h) PROVE IDInv'
  BY <1>3, StartKeeps
<1>4. ASSUME NEW h \in HDs, ObserveObject(h) \/ Resync(h) PROVE IDInv'
  <2>1. UNCHANGED <<hd, pc, key, mem>> /\ \A g \in HDs : cache'[g] \in {cache[g], hd[g]}
    BY <1>4 DEF ObserveObject, Resync, workerVars, TypeInv, RestInv
  <2> QED BY <2>1, FollowsReflexive, OthersKeep DEF AllFollow
<1>5. ASSUME NEW h \in HDs, UserDeletes(h) \/ UserEdits(h) PROVE IDInv'
  BY <1>5, OtherWrites, OthersKeep
<1>6. ASSUME \/ UNCHANGED vars
             \/ \E id \in InfraIDs : ObserveWork(id) \/ AgentApplies(id) \/ AgentCleansUp(id)
      PROVE  IDInv'
  <2>1. UNCHANGED <<hd, cache, pc, key, mem>>
    BY <1>6 DEF vars, workerVars, ObserveWork, AgentApplies, AgentCleansUp
  <2> QED BY <2>1, FollowsReflexive, OthersKeep DEF AllFollow
<1> QED BY <1>1, <1>2, <1>3, <1>4, <1>5, <1>6 DEF Next

LEMMA IDInvariant == ASSUME ReadsOwnWrites = TRUE PROVE Spec => []IDInv
BY InitIDInv, NextKeeps, TypeInvariant, PTL DEF Spec

-----------------------------------------------------------------------------
\* An infra ID that changes was empty, and the new one is used nowhere.
IDKept(h) == \/ hd'[h].infraID = hd[h].infraID
             \/ h = key /\ hd[h].infraID = NoID /\ hd'[h].infraID \notin Used

LEMMA IDChange ==
  ASSUME TypeInv, IDInv, [Next]_vars PROVE \A h \in HDs : IDKept(h)
<1>1. AllFollow => \A h \in HDs : IDKept(h)
  BY DEF AllFollow, Follows, IDKept
<1>2. CASE EnsureFinalizer
  <2>1. ASSUME NEW p, NEW id \in NewIDs, Store(p), AdoptsAs(p, id)
        PROVE  \A h \in HDs : IDKept(h)
    <3>1. mem.infraID = hd[key].infraID /\ (hd[key].infraID = NoID => id \notin Used)
      BY <1>2 DEF EnsureFinalizer, IDInv, Mirror, NewIDs
    <3> QED BY <2>1, <3>1 DEF Store, AdoptsAs, Adopts, TypeInv, CallInv, IDKept
  <2>2. Tame => AllFollow
    BY <1>2, TameFollows DEF IDInv, EnsureFinalizer
  <2> QED BY <1>1, <1>2, <2>1, <2>2, EnsureFinalizerEffect DEF Sends
<1>3. CASE RemoveDestroyFinalizer
  <2>1. CASE Store(Unfinalized) /\ Unfinalized.infraID = hd[key].infraID
    BY <2>1 DEF Store, TypeInv, CallInv, IDKept
  <2> QED BY <1>1, <1>3, <2>1, RemoveEffect
<1>4. CASE Ordinary
  BY <1>1, <1>4, OrdinaryTame, TameFollows DEF IDInv
<1>5. CASE \E h \in HDs : UserDeletes(h) \/ UserEdits(h)
  BY <1>1, <1>5, OtherWrites
<1>6. CASE UNCHANGED hd
  BY <1>6 DEF IDKept
<1>7. CASE \/ Crash \/ \E h \in HDs : Start(h) \/ ObserveObject(h) \/ Resync(h)
           \/ \E id \in InfraIDs : ObserveWork(id) \/ AgentApplies(id) \/ AgentCleansUp(id)
  BY <1>6, <1>7 DEF Crash, Start, ObserveObject, Resync, ObserveWork, AgentApplies, AgentCleansUp
<1> QED BY <1>2, <1>3, <1>4, <1>5, <1>6, <1>7, StepSplit DEF Next, vars

(***************************************************************************)
(* No two objects have the same infra ID: what users see to who choose the *)
(* IDs themselves.  An ID that is generated is used nowhere.               *)
(***************************************************************************)
DistinctIDs ==
  \A g, h \in HDs : g # h /\ hd[g].infraID # NoID => hd[g].infraID # hd[h].infraID

LEMMA DistinctKeeps ==
  ASSUME TypeInv, IDInv, DistinctIDs, [Next]_vars PROVE DistinctIDs'
BY IDChange DEF IDKept, DistinctIDs, Used

LEMMA DistinctInvariant ==
  ASSUME ReadsOwnWrites = TRUE PROVE Spec /\ DistinctIDs => []DistinctIDs
BY DistinctKeeps, TypeInvariant, IDInvariant, PTL DEF Spec

-----------------------------------------------------------------------------
(* What is in the cloud has an object that answers for it. *)

\* destroyHypershift does not let go of an object before it has removed what it made.
Cleared ==
  /\ pc = "destroyIAM" => mem.infraID \notin infra
  /\ pc = "unfinalize" => \/ mem.override = "ORPHAN" \/ ~mem.configure
                          \/ mem.infraID \notin infra \cup iam

CloudInv == Cleared /\ InfraNotLeaked /\ pc # "badSecret"

LEMMA AnswersKept ==
  ASSUME TypeInv, AllFollow, NEW h \in HDs, NEW id, AnswersFor(h, id)
  PROVE  AnswersFor(h, id)'
BY DEF AllFollow, Follows, AnswersFor

\* The worker creates for an object that answers.
LEMMA CreatorAnswers ==
  ASSUME TypeInv, IDInv, pc \in Creating PROVE AnswersFor(key, mem.infraID)
<1>1. key \in HDs /\ pc # "idle" /\ pc \notin Early
  BY DEF TypeInv, CallInv, WorkerInv, Creating, Early
<1>2. DestroyFinalizer \in hd[key].finalizers /\ hd[key].infraID = mem.infraID /\ hd[key].configure
  BY <1>1 DEF IDInv, Guarded, Mirror
<1> QED BY <1>1, <1>2 DEF IDInv, Named, AnswersFor

LEMMA CloudEffect ==
  ASSUME Step
  PROVE  /\ \/ infra' \cup iam' \subseteq infra \cup iam
            \/ pc \in Creating /\ infra' \cup iam' \subseteq infra \cup iam \cup {mem.infraID}
         /\ \/ UNCHANGED <<infra, iam>>
            \/ CreateInfra \/ CreateIAM \/ DestroyInfra \/ DestroyIAM
<1>1. CASE CreateInfra \/ CreateIAM \/ DestroyInfra \/ DestroyIAM
  BY <1>1 DEF CreateInfra, CreateIAM, DestroyInfra, DestroyIAM, Creating
<1>2. CASE ~(CreateInfra \/ CreateIAM \/ DestroyInfra \/ DestroyIAM)
  <2>1. UNCHANGED <<infra, iam>>
    BY <1>2 DEF Step, MigrateRoles, ReadProviderSecret, EnsureFinalizer, Dispatch, BeginInfra,
         ReportBadSecret, ScaffoldSpec, PlatformTrue, IAMFalse, PatchIAM, IAMTrue,
         NotApplicable, SetDefaults, ApplyWork, BeginDestroy, WorkGone, WorkDeleting,
         SetDeleteOption, DeleteWork, BeginDestroyInfra, RemoveDestroyFinalizer, cloudVars
  <2> QED BY <2>1
<1> QED BY <1>1, <1>2

LEMMA StepClears ==
  ASSUME Platform = "AWS", TypeInv, IDInv, CloudInv, Step
  PROVE  Cleared' /\ pc' # "badSecret"
<1>1. CASE EnsureFinalizer \/ RemoveDestroyFinalizer
  BY <1>1, EnsureFinalizerEffect, RemoveEffect DEF Cleared
<1>2. CASE Ordinary
  <2>1. DestroyFlow /\ Tame /\ pc # "idle" /\ pc # "badSecret"
    BY <1>2, OrdinaryTame DEF CloudInv
  <2>2. pc' # "idle" => mem'.infraID = mem.infraID /\ mem'.configure = mem.configure
    BY <2>1, TameFollows DEF IDInv, Continues
  <2>3. pc' # "badSecret"
    BY <2>1 DEF DestroyFlow
  <2> QED BY <2>1, <2>2, <2>3 DEF DestroyFlow, CloudInv, Cleared
<1> QED BY <1>1, <1>2, StepSplit

LEMMA StepAnswers ==
  ASSUME TypeInv, IDInv, CloudInv, Step PROVE InfraNotLeaked'
<1>1. key \in HDs /\ hd \in [HDs -> Object]
  BY DEF TypeInv, CallInv, WorkerInv
<1>2. \A id \in infra' \cup iam' : \E h \in HDs : AnswersFor(h, id)
  BY <1>1, CloudEffect, CreatorAnswers DEF CloudInv, InfraNotLeaked
<1>3. CASE AllFollow
  BY <1>2, <1>3, AnswersKept DEF InfraNotLeaked
<1>4. CASE EnsureFinalizer /\ ~AllFollow
  <2>1. PICK p, id : Store(p) /\ Adopts(hd[key], p, id)
    <3>1. ~Tame
      BY <1>4, TameFollows DEF IDInv, EnsureFinalizer
    <3> QED BY <1>4, <3>1, EnsureFinalizerEffect DEF Sends, AdoptsAs
  <2>2. \A h \in HDs, i \in infra' \cup iam' : AnswersFor(h, i) => h # key /\ hd'[h] = hd[h]
    BY <1>1, <2>1 DEF Store, Adopts, AnswersFor
  <2> QED BY <1>2, <2>2 DEF InfraNotLeaked, AnswersFor
<1>5. CASE RemoveDestroyFinalizer /\ ~AllFollow
  <2>1. /\ pc = "unfinalize" /\ Store(Unfinalized)
        /\ Unfinalized.infraID = hd[key].infraID /\ Unfinalized.configure = hd[key].configure
        /\ ~Unfinalized.exists /\ Unfinalized.override = mem.override
        /\ UNCHANGED <<infra, iam>>
    BY <1>5, RemoveEffect DEF RemoveDestroyFinalizer, cloudVars
  <2>2. \/ mem.override = "ORPHAN" \/ ~hd[key].configure
        \/ hd[key].infraID \notin infra \cup iam
    BY <2>1 DEF CloudInv, Cleared, IDInv, Mirror
  <2>3. \A h \in HDs, i \in infra \cup iam : AnswersFor(h, i) => AnswersFor(h, i)'
    BY <1>1, <2>1, <2>2 DEF Store, AnswersFor
  <2> QED BY <1>2, <2>1, <2>3 DEF InfraNotLeaked
<1>6. Ordinary => AllFollow
  BY OrdinaryTame, TameFollows DEF IDInv
<1> QED BY <1>3, <1>4, <1>5, <1>6, StepSplit

LEMMA CloudKeeps ==
  ASSUME Platform = "AWS", TypeInv, IDInv, CloudInv, [Next]_vars PROVE CloudInv'
<1>1. CASE Step
  BY <1>1, StepClears, StepAnswers DEF CloudInv
<1>2. CASE UNCHANGED <<hd, infra, iam>> /\ pc' \notin {"badSecret", "destroyIAM", "unfinalize"}
  BY <1>2 DEF CloudInv, Cleared, InfraNotLeaked, AnswersFor
<1>3. CASE AllFollow /\ UNCHANGED <<infra, iam, pc, key, mem>>
  <2>1. InfraNotLeaked'
    BY <1>3, AnswersKept DEF CloudInv, InfraNotLeaked
  <2> QED BY <1>3, <2>1 DEF CloudInv, Cleared
<1>4. CASE Crash \/ \E h \in HDs : Start(h)
  BY <1>2, <1>3, <1>4, FollowsReflexive
     DEF Crash, Start, Return, cloudVars, AllFollow, CloudInv
<1>5. CASE \E h \in HDs : UserDeletes(h) \/ UserEdits(h)
  BY <1>3, <1>5, OtherWrites
<1>6. CASE \/ UNCHANGED vars
           \/ \E h \in HDs : ObserveObject(h) \/ Resync(h)
           \/ \E id \in InfraIDs : ObserveWork(id) \/ AgentApplies(id) \/ AgentCleansUp(id)
  <2>1. UNCHANGED <<hd, infra, iam, pc, key, mem>>
    BY <1>6 DEF vars, workerVars, cloudVars, ObserveObject, Resync, ObserveWork, AgentApplies,
                AgentCleansUp
  <2> QED BY <1>3, <2>1, FollowsReflexive DEF AllFollow
<1> QED BY <1>1, <1>4, <1>5, <1>6 DEF Next

(***************************************************************************)
(* On AWS no infrastructure and no IAM is left in the cloud without an     *)
(* object that answers for it, whatever calls fail, whenever the process   *)
(* dies, and whatever users edit and delete meanwhile: createAWSInfra only *)
(* creates under an ID and a finalizer that are in the API server, and     *)
(* destroyHypershift only takes the finalizer away when both destroyers    *)
(* have succeeded for that ID.                                             *)
(***************************************************************************)
THEOREM AWSInfraNotLeaked ==
  ASSUME Platform = "AWS", ReadsOwnWrites = TRUE PROVE Spec => []InfraNotLeaked
<1>1. Init => CloudInv
  BY DEF Init, CloudInv, Cleared, InfraNotLeaked
<1>2. CloudInv => InfraNotLeaked
  BY DEF CloudInv
<1> QED BY <1>1, <1>2, CloudKeeps, TypeInvariant, IDInvariant, PTL DEF Spec

(***************************************************************************)
(* What destroyHypershift promises to the user of one object, on AWS: when *)
(* the object is gone its infrastructure and IAM are gone, unless it said  *)
(* ORPHAN.  No other object has its infra ID, and so none can answer in    *)
(* its place.                                                              *)
(***************************************************************************)
THEOREM AWSNothingLeftBehind ==
  ASSUME Platform = "AWS", ReadsOwnWrites = TRUE
  PROVE  Spec /\ DistinctIDs => []NothingLeftBehind
<1>1. ASSUME TypeInv, DistinctIDs, InfraNotLeaked PROVE NothingLeftBehind
  <2> SUFFICES ASSUME NEW h \in HDs, ~hd[h].exists, hd[h].infraID \in infra \cup iam
               PROVE  hd[h].override = "ORPHAN"
    BY DEF NothingLeftBehind
  <2>1. PICK g \in HDs : AnswersFor(g, hd[h].infraID)
    BY <1>1 DEF InfraNotLeaked
  <2>2. hd[h].infraID # NoID
    BY <1>1, HubAssumption DEF TypeInv, RestInv
  <2>3. g = h
    BY <1>1, <2>1, <2>2 DEF AnswersFor, DistinctIDs
  <2> QED BY <2>1, <2>3 DEF AnswersFor
<1> QED BY <1>1, AWSInfraNotLeaked, TypeInvariant, DistinctInvariant, PTL
=============================================================================
