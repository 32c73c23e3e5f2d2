-------------------------- MODULE ReconcilerTypes --------------------------
(***************************************************************************)
(* The types of DeploymentReconciler, for every set of objects and infra   *)
(* IDs and every number of faults and edits; and what the steps of the     *)
(* worker do to an object, which the invariants of the other modules need. *)
(***************************************************************************)
EXTENDS DeploymentReconciler, TLAPS

\* The steps before Reconcile has seen to the infra ID and the finalizer.
Early      == {"idle", "migrate", "secret", "finalizer"}
Creating   == {"infra", "create", "scaffold", "platformTrue", "iamFalse", "createIAM",
               "patchIAM", "iamTrue"}
Destroying == {"destroy", "deleteWork", "deleteWorkNow", "destroyInfra", "callDestroy",
               "destroyIAM", "unfinalize"}

IDChosen == pc \notin Early => mem.infraID # NoID

(***************************************************************************)
(* TypeOK alone is not inductive: that the cloud and the ManifestWorks are *)
(* indexed by infra IDs needs the ID to be chosen before it is used.  What *)
(* the calls of the worker change is a part of its own.                    *)
(***************************************************************************)
WorkerInv == pc \in Steps /\ key \in HDs /\ mem \in Object /\ fresh \in BOOLEAN /\ IDChosen

CallInv == hd \in [HDs -> Object] /\ queue \subseteq HDs /\ faults \in 0..MaxFaults /\ WorkerInv

RestInv ==
  /\ cache \in [HDs -> Object]
  /\ infra \subseteq InfraIDs /\ iam \subseteq InfraIDs
  /\ work \in [InfraIDs -> Work] /\ workCache \in [InfraIDs -> Work]
  /\ hosted \in [InfraIDs -> SUBSET Kept]
  /\ edits \in 0..MaxEdits

TypeInv == CallInv /\ RestInv

-----------------------------------------------------------------------------
(* The writes of HubApi make objects out of objects. *)

LEMMA SettleType ==
  ASSUME NEW o \in Object PROVE Settle(o) \in Object
BY DEF Settle, Object

LEMMA PatchedType ==
  ASSUME NEW s \in Object, NEW b \in Object, NEW m \in Object
  PROVE  Patched(s, b, m) \in Object
<1> DEFINE p == [s EXCEPT
         !.finalizers = MergeField(s.finalizers, b.finalizers, m.finalizers),
         !.infraID    = MergeField(s.infraID, b.infraID, m.infraID),
         !.override   = MergeField(s.override, b.override, m.override),
         !.createMC   = MergeField(s.createMC, b.createMC, m.createMC),
         !.parts      = MergeStruct(s.parts, b.parts, m.parts)]
<1>1. p \in Object
  BY DEF MergeField, MergeStruct, Object
<1> QED BY <1>1, SettleType DEF Patched

LEMMA StatusPatchedType ==
  ASSUME NEW s \in Object, NEW m \in Object PROVE StatusPatched(s, m) \in Object
BY DEF StatusPatched, Object

LEMMA DecodedType ==
  ASSUME NEW m \in Object, NEW r \in Object PROVE Decoded(m, r) \in Object
BY DEF Decoded, Object

-----------------------------------------------------------------------------
(* What the worker's calls do to the types. *)

LEMMA FaultType ==
  ASSUME TypeInv, NEW allowed, Fault \/ NoFault \/ FaultIf(allowed)
  PROVE  faults' \in 0..MaxFaults
<1>1. CASE Fault
  BY <1>1, HubAssumption DEF Fault, TypeInv, CallInv
<1>2. CASE NoFault
  BY <1>2 DEF NoFault, TypeInv, CallInv
<1> QED BY <1>1, <1>2 DEF FaultIf

LEMMA ZeroObjectType == ZeroObject \in Object
BY DEF ZeroObject, Object, Overrides

LEMMA ReturnType ==
  ASSUME TypeInv, Requeue \/ Done PROVE WorkerInv' /\ queue' \subseteq HDs
BY ZeroObjectType DEF TypeInv, CallInv, WorkerInv, Requeue, Done, Return, Steps, IDChosen, Early

LEMMA GotoType ==
  ASSUME TypeInv, NEW next \in Steps, NEW copy \in Object, Goto(next, copy),
         fresh' \in BOOLEAN, next \notin Early => copy.infraID # NoID
  PROVE  WorkerInv'
BY DEF TypeInv, CallInv, WorkerInv, Goto, IDChosen

LEMMA StoreType ==
  ASSUME TypeInv, NEW o \in Object, Store(o) PROVE hd' \in [HDs -> Object]
BY DEF TypeInv, CallInv, Store

LEMMA CopyTypes ==
  ASSUME TypeInv PROVE hd[key] \in Object /\ cache[key] \in Object /\ mem \in Object
BY DEF TypeInv, CallInv, WorkerInv, RestInv

LEMMA ReadyType ==
  ASSUME NEW o \in Object, NEW ready \in SUBSET Conditions
  PROVE  /\ [o EXCEPT !.ready = ready] \in Object
         /\ [o EXCEPT !.ready = ready].infraID = o.infraID
BY DEF Object

LEMMA ReportReadyType ==
  ASSUME TypeInv, NEW ready \in SUBSET Conditions, ReportReady(ready)
  PROVE  hd' \in [HDs -> Object]
<1>1. CASE UNCHANGED hd
  BY <1>1 DEF TypeInv, CallInv
<1>2. CASE Store([hd[key] EXCEPT !.ready = ready])
  BY <1>2, CopyTypes, ReadyType, StoreType
<1> QED BY <1>1, <1>2 DEF ReportReady

\* A response never takes the infra ID of the copy away.
LEMMA DecodedInfraID ==
  ASSUME NEW m \in Object, NEW r \in Object, m.infraID # NoID
  PROVE  Decoded(m, r).infraID # NoID
BY DEF Decoded, Object

LEMMA PatchObjectType ==
  ASSUME TypeInv, NEW next \in Steps, NEW copy \in Object, PatchObject(copy, next),
         next \notin Early => copy.infraID # NoID
  PROVE  CallInv'
<1>1. PatchResult(copy) \in Object
  BY CopyTypes, PatchedType DEF PatchResult
<1>2. Decoded(copy, PatchResult(copy)) \in Object
  BY <1>1, DecodedType
<1>3. next \notin Early => Decoded(copy, PatchResult(copy)).infraID # NoID
  BY <1>1, DecodedInfraID
<1>4. WorkerInv'
  BY <1>2, <1>3, GotoType DEF PatchObject
<1>5. hd' \in [HDs -> Object]
  BY <1>1, StoreType DEF PatchObject
<1>6. faults' \in 0..MaxFaults
  BY FaultType DEF PatchObject
<1> QED BY <1>4, <1>5, <1>6 DEF CallInv, TypeInv, PatchObject

LEMMA PatchObjectFailsType ==
  ASSUME TypeInv, NEW copy, NEW ready \in SUBSET Conditions,
         PatchObjectFails(copy), Requeue, ReportReady(ready) \/ UNCHANGED hd
  PROVE  CallInv'
<1>1. WorkerInv' /\ queue' \subseteq HDs
  BY ReturnType
<1>2. faults' \in 0..MaxFaults
  BY FaultType DEF PatchObjectFails
<1>3. hd' \in [HDs -> Object]
  BY ReportReadyType DEF TypeInv, CallInv
<1> QED BY <1>1, <1>2, <1>3 DEF CallInv

LEMMA SendStatusType ==
  ASSUME TypeInv, NEW next \in Steps, NEW copy \in Object, SendStatus(copy, next),
         next \notin Early => copy.infraID # NoID
  PROVE  WorkerInv' /\ hd' \in [HDs -> Object] /\ faults' \in 0..MaxFaults
<1>1. StatusPatched(hd[key], copy) \in Object
  BY CopyTypes, StatusPatchedType
<1>2. Decoded(copy, StatusPatched(hd[key], copy)) \in Object
  BY <1>1, DecodedType
<1>3. next \notin Early => Decoded(copy, StatusPatched(hd[key], copy)).infraID # NoID
  BY <1>1, DecodedInfraID
<1>4. WorkerInv'
  BY <1>2, <1>3, GotoType DEF SendStatus
<1>5. hd' \in [HDs -> Object]
  BY <1>1, StoreType DEF SendStatus
<1>6. faults' \in 0..MaxFaults
  BY FaultType DEF SendStatus
<1> QED BY <1>4, <1>5, <1>6

LEMMA StatusUnchangedType ==
  ASSUME TypeInv, NEW next \in Steps, NEW ready, StatusUnchanged(ready, next),
         next \notin Early => mem.infraID # NoID
  PROVE  WorkerInv' /\ hd' \in [HDs -> Object] /\ faults' \in 0..MaxFaults
<1>1. WorkerInv'
  BY CopyTypes, GotoType DEF StatusUnchanged, TypeInv, CallInv, WorkerInv
<1>2. faults' \in 0..MaxFaults
  BY FaultType DEF StatusUnchanged
<1> QED BY <1>1, <1>2 DEF StatusUnchanged, TypeInv, CallInv

LEMMA StatusFailsType ==
  ASSUME TypeInv, StatusFails PROVE hd' \in [HDs -> Object] /\ faults' \in 0..MaxFaults
BY FaultType DEF StatusFails, TypeInv, CallInv

LEMMA SetReadyType ==
  ASSUME TypeInv, NEW next \in Steps, NEW ready \in SUBSET Conditions,
         next \notin Early => mem.infraID # NoID,
         SetReady(ready, next) \/ SetReadyIgnoringError(ready, next)
  PROVE  CallInv'
<1> DEFINE copy == [mem EXCEPT !.ready = ready]
<1>1. copy \in Object /\ copy.infraID = mem.infraID
  BY CopyTypes, ReadyType
<1> HIDE DEF copy
<1>2. CASE SendStatus(copy, next) /\ UNCHANGED queue
  BY <1>1, <1>2, SendStatusType DEF TypeInv, CallInv
<1>3. CASE StatusUnchanged(ready, next) /\ UNCHANGED queue
  BY <1>3, StatusUnchangedType DEF TypeInv, CallInv
<1>4. CASE StatusFails /\ Requeue
  BY <1>4, StatusFailsType, ReturnType DEF CallInv
<1>5. CASE StatusFails /\ Goto(next, copy) /\ UNCHANGED fresh /\ UNCHANGED queue
  <2>1. fresh' \in BOOLEAN
    BY <1>5 DEF TypeInv, CallInv, WorkerInv
  <2>2. WorkerInv'
    BY <1>1, <1>5, <2>1, GotoType
  <2> QED BY <1>5, <2>2, StatusFailsType DEF TypeInv, CallInv
<1> QED BY <1>2, <1>3, <1>4, <1>5 DEF SetReady, SetReadyIgnoringError, copy

\* A step that makes no call goes on with the copy it has, or with another infra ID.
LEMMA QuietType ==
  ASSUME TypeInv, NEW next \in Steps, NEW copy \in Object, Goto(next, copy),
         next \notin Early => copy.infraID # NoID, fresh' = fresh, hd' = hd, queue' = queue,
         faults' = faults \/ Fault \/ NoFault
  PROVE  CallInv'
<1>1. WorkerInv'
  BY GotoType DEF TypeInv, CallInv, WorkerInv
<1>2. faults' \in 0..MaxFaults
  BY FaultType DEF TypeInv, CallInv
<1> QED BY <1>1, <1>2 DEF TypeInv, CallInv

\* A reconcile that ends may have failed, and may have reported that.
LEMMA EndType ==
  ASSUME TypeInv, Requeue \/ Done, NEW ready \in SUBSET Conditions,
         hd' = hd \/ ReportReady(ready), NEW allowed,
         faults' = faults \/ Fault \/ NoFault \/ FaultIf(allowed)
  PROVE  CallInv'
<1>1. WorkerInv' /\ queue' \subseteq HDs
  BY ReturnType
<1>2. faults' \in 0..MaxFaults
  BY FaultType DEF TypeInv, CallInv
<1>3. hd' \in [HDs -> Object]
  BY ReportReadyType DEF TypeInv, CallInv
<1> QED BY <1>1, <1>2, <1>3 DEF CallInv

LEMMA MemFacts ==
  ASSUME TypeInv
  PROVE  /\ mem \in Object /\ mem.ready \in SUBSET Conditions
         /\ pc \notin Early => mem.infraID \in InfraIDs
BY DEF TypeInv, CallInv, WorkerInv, IDChosen, Object

\* The copies the worker makes of its object.
LEMMA EditedType ==
  ASSUME NEW o \in Object
  PROVE  /\ [o EXCEPT !.parts = @ \ {"roles"}] \in Object
         /\ \A part \in Parts : /\ [o EXCEPT !.parts = @ \cup {part}] \in Object
                                /\ [o EXCEPT !.parts = @ \cup {part}].infraID = o.infraID
         /\ \A id \in InfraIDs \cup {NoID} :
              /\ [o EXCEPT !.infraID = id] \in Object
              /\ [o EXCEPT !.infraID = id].infraID = id
         /\ [o EXCEPT !.finalizers = @ \cup {DestroyFinalizer}] \in Object
         /\ [o EXCEPT !.finalizers = @ \cup {DestroyFinalizer}].infraID = o.infraID
BY DEF Object, Finalizers

-----------------------------------------------------------------------------
(* Every step of the worker keeps the types of what its calls change. *)

LEMMA EntryCalls ==
  ASSUME TypeInv, MigrateRoles \/ ReadProviderSecret \/ EnsureFinalizer \/ Dispatch
  PROVE  CallInv'
<1>1. CASE MigrateRoles
  <2> DEFINE migrated == [mem EXCEPT !.parts = @ \ {"roles"}]
  <2>1. migrated \in Object
    BY MemFacts, EditedType
  <2> HIDE DEF migrated
  <2>2. CASE PatchObject(migrated, "secret")
    BY <2>1, <2>2, PatchObjectType DEF Steps, Early
  <2>3. CASE PatchObjectFails(migrated) /\ Requeue /\ UNCHANGED hd
    BY <2>3, MemFacts, PatchObjectFailsType
  <2>4. CASE Goto("secret", mem) /\ UNCHANGED <<hd, queue, fresh, faults>>
    BY <2>4, MemFacts, QuietType DEF Steps, Early
  <2> QED BY <1>1, <2>2, <2>3, <2>4 DEF MigrateRoles, migrated
<1>2. CASE ReadProviderSecret
  <2>1. CASE SetReady(mem.ready, "finalizer")
    BY <2>1, MemFacts, SetReadyType DEF Steps, Early
  <2>2. CASE Fault /\ Requeue /\ ReportReady(mem.ready)
    BY <2>2, MemFacts, EndType
  <2>3. CASE Goto("finalizer", mem) /\ UNCHANGED <<hd, queue, fresh, faults>>
    BY <2>3, MemFacts, QuietType DEF Steps, Early
  <2> QED BY <1>2, <2>1, <2>2, <2>3 DEF ReadProviderSecret
<1>3. CASE EnsureFinalizer
  <2>1. PICK id \in NewIDs :
          LET named == [mem EXCEPT !.infraID = id]
              final == [named EXCEPT !.finalizers = @ \cup {DestroyFinalizer}]
          IN  IF DestroyFinalizer \in mem.finalizers
              THEN Goto("dispatch", named) /\ UNCHANGED <<hd, queue, fresh, faults>>
              ELSE \/ PatchObject(final, "dispatch")
                   \/ PatchObjectFails(final) /\ Requeue /\ UNCHANGED hd
    BY <1>3 DEF EnsureFinalizer
  <2> DEFINE named == [mem EXCEPT !.infraID = id]
             final == [named EXCEPT !.finalizers = @ \cup {DestroyFinalizer}]
  <2>2. id \in InfraIDs
    BY MemFacts, HubAssumption DEF NewIDs, Object
  <2>3. named \in Object /\ named.infraID = id
    BY <2>2, MemFacts, EditedType
  <2> HIDE DEF named
  <2>4. final \in Object /\ final.infraID = id
    BY <2>3, EditedType
  <2> HIDE DEF final
  <2>5. id # NoID
    BY <2>2, HubAssumption
  <2>6. CASE Goto("dispatch", named) /\ UNCHANGED <<hd, queue, fresh, faults>>
    BY <2>3, <2>5, <2>6, QuietType DEF Steps
  <2>7. CASE PatchObject(final, "dispatch")
    BY <2>4, <2>5, <2>7, PatchObjectType DEF Steps
  <2>8. CASE PatchObjectFails(final) /\ Requeue /\ UNCHANGED hd
    BY <2>8, MemFacts, PatchObjectFailsType
  <2> QED BY <2>1, <2>6, <2>7, <2>8 DEF final, named
<1>4. CASE Dispatch
  <2>1. mem.infraID # NoID
    BY <1>4 DEF Dispatch, TypeInv, CallInv, WorkerInv, IDChosen, Early
  <2> QED BY <1>4, <2>1, MemFacts, QuietType DEF Dispatch, Steps
<1> QED BY <1>1, <1>2, <1>3, <1>4

LEMMA NoServicePrincipalType ==
  ASSUME TypeInv, NoServicePrincipal, pc \notin Early PROVE CallInv'
<1>1. mem.infraID # NoID
  BY MemFacts, HubAssumption
<1> QED BY <1>1, MemFacts, QuietType DEF NoServicePrincipal, Steps

LEMMA CreateCalls ==
  ASSUME TypeInv,
         \/ BeginInfra \/ ReportBadSecret \/ CreateInfra \/ ScaffoldSpec \/ PlatformTrue
         \/ IAMFalse \/ CreateIAM \/ PatchIAM \/ IAMTrue \/ NotApplicable
  PROVE  CallInv'
<1>0. pc \notin Early => mem.infraID # NoID
  BY MemFacts, HubAssumption
<1>1. CASE BeginInfra
  <2>1. pc \notin Early
    BY <1>1 DEF BeginInfra, Early
  <2>2. BeingConfigured \in SUBSET Conditions
    BY MemFacts DEF BeingConfigured, Conditions
  <2>3. CASE Goto("apply", mem) /\ UNCHANGED <<hd, queue, fresh, faults>>
    BY <1>0, <2>1, <2>3, MemFacts, QuietType DEF Steps
  <2>4. CASE SetReadyIgnoringError(BeingConfigured, "create")
    BY <1>0, <2>1, <2>2, <2>4, SetReadyType DEF Steps
  <2>5. CASE NoServicePrincipal
    BY <2>1, <2>5, NoServicePrincipalType
  <2> QED BY <1>1, <2>3, <2>4, <2>5 DEF BeginInfra
<1>2. CASE ReportBadSecret
  <2>1. mem.infraID # NoID
    BY <1>0, <1>2 DEF ReportBadSecret, Early
  <2>2. CASE /\ SendStatus(mem, IF mem.deleting THEN "unfinalize" ELSE "apply")
             /\ queue' = queue \cup {key}
    <3>1. (IF mem.deleting THEN "unfinalize" ELSE "apply") \in Steps
      BY DEF Steps
    <3>2. queue' \subseteq HDs
      BY <2>2 DEF TypeInv, CallInv, WorkerInv
    <3> QED BY <2>1, <2>2, <3>1, <3>2, MemFacts, SendStatusType DEF CallInv
  <2>3. CASE StatusFails /\ (Done \/ Requeue)
    BY <2>3, StatusFailsType, ReturnType DEF CallInv
  <2> QED BY <1>2, <2>2, <2>3 DEF ReportBadSecret
<1>3. CASE CreateInfra
  <2>1. CASE Goto("scaffold", mem) /\ UNCHANGED <<hd, queue, fresh>> /\ NoFault
    <3>1. mem.infraID # NoID
      BY <1>0, <1>3 DEF CreateInfra, Early
    <3> QED BY <2>1, <3>1, MemFacts, QuietType DEF Steps
  <2>2. CASE Fault /\ Requeue /\ ReportReady(mem.ready)
    BY <2>2, MemFacts, EndType
  <2> QED BY <1>3, <2>1, <2>2 DEF CreateInfra
<1>4. CASE ScaffoldSpec
  <2> DEFINE scaffolded == [mem EXCEPT !.parts = @ \cup {"infra"}]
  <2>1. scaffolded \in Object /\ scaffolded.infraID = mem.infraID
    BY MemFacts, EditedType DEF Parts
  <2>2. mem.infraID # NoID
    BY <1>0, <1>4 DEF ScaffoldSpec, Early
  <2> HIDE DEF scaffolded
  <2>3. CASE PatchObject(scaffolded, "platformTrue")
    BY <2>1, <2>2, <2>3, PatchObjectType DEF Steps
  <2>4. CASE PatchObjectFails(scaffolded) /\ Requeue /\ ReportReady(mem.ready)
    BY <2>4, MemFacts, PatchObjectFailsType
  <2> QED BY <1>4, <2>3, <2>4 DEF ScaffoldSpec, scaffolded
<1>5. CASE PlatformTrue
  <2>1. mem.infraID # NoID
    BY <1>0, <1>5 DEF PlatformTrue, Early
  <2>2. mem.ready \cup {"PlatformConfigured"} \in SUBSET Conditions
    BY MemFacts DEF Conditions
  <2>3. (IF Platform = "AWS" THEN "iamFalse" ELSE "apply") \in Steps
    BY DEF Steps
  <2> QED BY <1>5, <2>1, <2>2, <2>3, SetReadyType DEF PlatformTrue
<1>6. CASE IAMFalse
  <2>1. mem.infraID # NoID
    BY <1>0, <1>6 DEF IAMFalse, Early
  <2>2. mem.ready \ {"PlatformIAMConfigured"} \in SUBSET Conditions
    BY MemFacts
  <2> QED BY <1>6, <2>1, <2>2, SetReadyType DEF IAMFalse, Steps
<1>7. CASE CreateIAM
  <2>1. CASE Goto("patchIAM", mem) /\ UNCHANGED <<hd, queue, fresh>> /\ NoFault
    <3>1. mem.infraID # NoID
      BY <1>0, <1>7 DEF CreateIAM, Early
    <3> QED BY <2>1, <3>1, MemFacts, QuietType DEF Steps
  <2>2. CASE Fault /\ Requeue /\ ReportReady(mem.ready)
    BY <2>2, MemFacts, EndType
  <2> QED BY <1>7, <2>1, <2>2 DEF CreateIAM
<1>8. CASE PatchIAM
  <2> DEFINE filled == [mem EXCEPT !.parts = @ \cup {"iam"}]
  <2>1. filled \in Object /\ filled.infraID = mem.infraID
    BY MemFacts, EditedType DEF Parts
  <2>2. mem.infraID # NoID
    BY <1>0, <1>8 DEF PatchIAM, Early
  <2> HIDE DEF filled
  <2>3. CASE PatchObject(filled, "iamTrue")
    BY <2>1, <2>2, <2>3, PatchObjectType DEF Steps
  <2>4. CASE PatchObjectFails(filled) /\ Requeue /\ ReportReady(mem.ready)
    BY <2>4, MemFacts, PatchObjectFailsType
  <2> QED BY <1>8, <2>3, <2>4 DEF PatchIAM, filled
<1>9. CASE IAMTrue
  <2>1. mem.infraID # NoID
    BY <1>0, <1>9 DEF IAMTrue, Early
  <2>2. mem.ready \cup {"PlatformIAMConfigured"} \in SUBSET Conditions
    BY MemFacts DEF Conditions
  <2> QED BY <1>9, <2>1, <2>2, SetReadyType DEF IAMTrue, Steps
<1>10. CASE NotApplicable
  <2>1. mem.infraID # NoID
    BY <1>0, <1>10 DEF NotApplicable, Early
  <2> QED BY <1>10, <2>1, SetReadyType DEF NotApplicable, Steps
<1> QED BY <1>1, <1>2, <1>3, <1>4, <1>5, <1>6, <1>7, <1>8, <1>9, <1>10

LEMMA WorkCalls ==
  ASSUME TypeInv, SetDefaults \/ ApplyWork
  PROVE  CallInv'
<1>1. CASE SetDefaults
  <2> DEFINE set == [mem EXCEPT !.parts = @ \cup {"defaults"}]
  <2>1. set \in Object /\ set.infraID = mem.infraID
    BY MemFacts, EditedType DEF Parts
  <2>2. mem.infraID # NoID
    BY <1>1, MemFacts, HubAssumption DEF SetDefaults, Early
  <2> HIDE DEF set
  <2>3. CASE Done /\ UNCHANGED <<hd, faults>>
    BY <2>3, MemFacts, EndType
  <2>4. CASE Goto("work", mem) /\ UNCHANGED <<hd, queue, fresh, faults>>
    BY <2>2, <2>4, MemFacts, QuietType DEF Steps
  <2>5. CASE PatchObject(set, "work")
    BY <2>1, <2>2, <2>5, PatchObjectType DEF Steps
  <2>6. CASE PatchObjectFails(set) /\ Requeue /\ UNCHANGED hd
    BY <2>6, MemFacts, PatchObjectFailsType
  <2> QED BY <1>1, <2>3, <2>4, <2>5, <2>6 DEF SetDefaults, set
<1>2. CASE ApplyWork
  <2>1. CASE StatusFails /\ Requeue
    BY <2>1, StatusFailsType, ReturnType DEF CallInv
  <2>2. CASE /\ NoFault \/ Fault
             /\ Done \/ Requeue
             /\ ReportReady(mem.ready) \/ UNCHANGED hd
    BY <2>2, MemFacts, EndType
  <2> QED BY <1>2, <2>1, <2>2 DEF ApplyWork
<1> QED BY <1>1, <1>2

LEMMA DestroyCalls ==
  ASSUME TypeInv,
         \/ BeginDestroy \/ WorkGone \/ WorkDeleting \/ SetDeleteOption \/ DeleteWork
         \/ BeginDestroyInfra \/ DestroyInfra \/ DestroyIAM \/ RemoveDestroyFinalizer
  PROVE  CallInv'
<1>0. pc \notin Early => mem.infraID # NoID
  BY MemFacts, HubAssumption
<1>1. CASE BeginDestroy
  <2>1. mem.infraID # NoID
    BY <1>0, <1>1 DEF BeginDestroy, Early
  <2>2. (IF mem.override = "INFRA-ONLY" THEN "destroyInfra" ELSE "deleteWork") \in Steps
    BY DEF Steps
  <2>3. CASE Done
    BY <1>1, <2>3, MemFacts, EndType DEF BeginDestroy
  <2>4. CASE /\ Goto(IF mem.override = "INFRA-ONLY" THEN "destroyInfra" ELSE "deleteWork", mem)
             /\ UNCHANGED <<queue, fresh>>
    BY <1>1, <2>1, <2>2, <2>4, MemFacts, QuietType DEF BeginDestroy
  <2> QED BY <1>1, <2>3, <2>4 DEF BeginDestroy
<1>2. CASE WorkGone
  <2>1. mem.infraID # NoID
    BY <1>0, <1>2 DEF WorkGone, Early
  <2> QED BY <1>2, <2>1, MemFacts, SetReadyType DEF WorkGone, Steps
<1>3. CASE WorkDeleting
  BY <1>3, MemFacts, EndType DEF WorkDeleting
<1>4. CASE SetDeleteOption
  <2>1. mem.infraID # NoID
    BY <1>0, <1>4 DEF SetDeleteOption, Early
  <2>2. CASE NoFault /\ Goto("deleteWorkNow", mem) /\ UNCHANGED <<hd, queue, fresh>>
    BY <2>1, <2>2, MemFacts, QuietType DEF Steps
  <2>3. CASE NoFault /\ Requeue /\ ReportReady(mem.ready)
    BY <2>3, MemFacts, EndType
  <2>4. CASE FaultIf(work[mem.infraID].state # "absent") /\ Requeue /\ ReportReady(mem.ready)
    BY <2>4, MemFacts, EndType
  <2> QED BY <1>4, <2>2, <2>3, <2>4 DEF SetDeleteOption
<1>5. CASE DeleteWork
  BY <1>5, MemFacts, EndType DEF DeleteWork
<1>6. CASE BeginDestroyInfra
  <2>1. pc \notin Early
    BY <1>6 DEF BeginDestroyInfra, Early
  <2>2. mem.ready \ {"PlatformConfigured"} \in SUBSET Conditions
    BY MemFacts
  <2>3. CASE Goto("unfinalize", mem) /\ UNCHANGED <<hd, queue, fresh, faults>>
    BY <1>0, <2>1, <2>3, MemFacts, QuietType DEF Steps
  <2>4. CASE SetReadyIgnoringError(mem.ready \ {"PlatformConfigured"}, "callDestroy")
    BY <1>0, <2>1, <2>2, <2>4, SetReadyType DEF Steps
  <2>5. CASE NoServicePrincipal
    BY <2>1, <2>5, NoServicePrincipalType
  <2> QED BY <1>6, <2>3, <2>4, <2>5 DEF BeginDestroyInfra
<1>7. CASE DestroyInfra
  <2>1. mem.infraID # NoID
    BY <1>0, <1>7 DEF DestroyInfra, Early
  <2>2. mem.ready \ {"PlatformIAMConfigured"} \in SUBSET Conditions
    BY MemFacts
  <2>3. CASE SetReadyIgnoringError(mem.ready \ {"PlatformIAMConfigured"}, "destroyIAM")
    BY <2>1, <2>2, <2>3, SetReadyType DEF Steps
  <2>4. CASE NoFault /\ Goto("unfinalize", mem) /\ UNCHANGED <<hd, queue, fresh>>
    BY <2>1, <2>4, MemFacts, QuietType DEF Steps
  <2>5. CASE Fault /\ Requeue /\ (ReportReady(mem.ready) \/ UNCHANGED hd)
    BY <2>5, MemFacts, EndType
  <2>6. CASE /\ Fault /\ Store(StatusPatched(hd[key], mem)) /\ UNCHANGED queue
             /\ Goto("unfinalize", Decoded(mem, StatusPatched(hd[key], mem))) /\ fresh' = TRUE
    <3>1. StatusPatched(hd[key], mem) \in Object
      BY CopyTypes, StatusPatchedType
    <3>2. Decoded(mem, StatusPatched(hd[key], mem)) \in Object
      BY <3>1, MemFacts, DecodedType
    <3>3. Decoded(mem, StatusPatched(hd[key], mem)).infraID # NoID
      BY <2>1, <3>1, MemFacts, DecodedInfraID
    <3>4. WorkerInv'
      BY <2>6, <3>2, <3>3, GotoType DEF Steps
    <3>5. hd' \in [HDs -> Object]
      BY <2>6, <3>1, StoreType
    <3>6. faults' \in 0..MaxFaults
      BY <2>6, FaultType
    <3> QED BY <2>6, <3>4, <3>5, <3>6 DEF TypeInv, CallInv
  <2> QED BY <1>7, <2>3, <2>4, <2>5, <2>6 DEF DestroyInfra
<1>8. CASE DestroyIAM
  <2>1. CASE NoFault /\ Goto("unfinalize", mem) /\ UNCHANGED <<hd, queue, fresh>>
    <3>1. mem.infraID # NoID
      BY <1>0, <1>8 DEF DestroyIAM, Early
    <3> QED BY <2>1, <3>1, MemFacts, QuietType DEF Steps
  <2>2. CASE Fault /\ Requeue /\ ReportReady(mem.ready)
    BY <2>2, MemFacts, EndType
  <2> QED BY <1>8, <2>1, <2>2 DEF DestroyIAM
<1>9. CASE RemoveDestroyFinalizer
  <2>1. CASE NoFault /\ Store(Unfinalized) /\ Done
    <3>1. [mem EXCEPT !.finalizers = @ \ {DestroyFinalizer}, !.exists = TRUE,
                      !.ready = hd[key].ready] \in Object
      BY CopyTypes DEF Object
    <3>2. Unfinalized \in Object
      BY <3>1, SettleType DEF Unfinalized
    <3>3. hd' \in [HDs -> Object]
      BY <2>1, <3>2, StoreType
    <3> QED BY <2>1, <3>3, FaultType, ReturnType DEF CallInv
  <2>2. CASE FaultIf(fresh /\ Admits(hd[key], Unfinalized)) /\ Requeue /\ UNCHANGED hd
    BY <2>2, MemFacts, EndType
  <2> QED BY <1>9, <2>1, <2>2 DEF RemoveDestroyFinalizer
<1> QED BY <1>1, <1>2, <1>3, <1>4, <1>5, <1>6, <1>7, <1>8, <1>9

-----------------------------------------------------------------------------
(* The rest of the state. *)

\* The records a ManifestWork is changed to.
LEMMA WorkTypes ==
  ASSUME NEW w \in Work, NEW parts \in SUBSET Parts, NEW h \in HDs, NEW option \in Options,
         NEW seen \in BOOLEAN
  PROVE  /\ NoWork \in Work
         /\ [NoWork EXCEPT !.state = "present", !.parts = parts, !.owner = h] \in Work
         /\ [w EXCEPT !.parts = parts, !.observed = seen] \in Work
         /\ [w EXCEPT !.option = option, !.observed = FALSE] \in Work
         /\ [w EXCEPT !.state = "deleting"] \in Work
         /\ [w EXCEPT !.observed = TRUE] \in Work
BY DEF Work, NoWork, Options

LEMMA DeleteOptionType == ASSUME NEW override PROVE DeleteOption(override) \in Options
BY DEF DeleteOption, Options

\* The steps of the worker that write neither the cloud nor a ManifestWork.
LEMMA OtherRest ==
  ASSUME TypeInv, UNCHANGED <<cache, cloudVars, workVars, edits>> PROVE RestInv'
BY DEF TypeInv, RestInv, cloudVars, workVars

LEMMA CloudRest ==
  ASSUME TypeInv, CreateInfra \/ CreateIAM \/ DestroyInfra \/ DestroyIAM PROVE RestInv'
<1>1. mem.infraID \in InfraIDs
  BY MemFacts DEF CreateInfra, CreateIAM, DestroyInfra, DestroyIAM, Early
<1>2. infra' \subseteq InfraIDs /\ iam' \subseteq InfraIDs
  BY <1>1 DEF CreateInfra, CreateIAM, DestroyInfra, DestroyIAM, TypeInv, RestInv
<1>3. UNCHANGED <<cache, workVars, edits>>
  BY DEF CreateInfra, CreateIAM, DestroyInfra, DestroyIAM
<1> QED BY <1>2, <1>3 DEF TypeInv, RestInv, workVars

LEMMA WorkRest ==
  ASSUME TypeInv, ApplyWork \/ SetDeleteOption \/ DeleteWork PROVE RestInv'
<1> DEFINE id == mem.infraID
<1>1. id \in InfraIDs /\ work[id] \in Work /\ mem.parts \in SUBSET Parts /\ key \in HDs
  BY MemFacts DEF ApplyWork, SetDeleteOption, DeleteWork, Early, TypeInv, CallInv, WorkerInv,
                  RestInv, Object
<1> HIDE DEF id
<1>2. CASE ApplyWork
  <2>1. ASSUME WriteWork(id) PROVE work' \in [InfraIDs -> Work]
    <3>1. CASE work' = [work EXCEPT ![id] = [NoWork EXCEPT !.state = "present",
                                               !.parts = mem.parts, !.owner = key]]
      BY <1>1, <3>1, WorkTypes DEF TypeInv, RestInv, Options
    <3>2. ASSUME NEW seen \in BOOLEAN,
                 work' = [work EXCEPT ![id].parts = mem.parts, ![id].observed = seen]
          PROVE  work' \in [InfraIDs -> Work]
      <4>1. work' = [work EXCEPT ![id] = [work[id] EXCEPT !.parts = mem.parts, !.observed = seen]]
        BY <1>1, <3>2 DEF TypeInv, RestInv, Work
      <4> QED BY <1>1, <4>1, WorkTypes DEF TypeInv, RestInv, Options
    <3>3. \A seen \in {FALSE, work[id].observed /\ work[id].parts = mem.parts} : seen \in BOOLEAN
      BY Zenon
    <3> QED BY <2>1, <3>1, <3>2, <3>3 DEF WriteWork
  <2>2. work' \in [InfraIDs -> Work]
    BY <1>2, <2>1 DEF ApplyWork, TypeInv, RestInv, id
  <2> QED BY <1>2, <2>2 DEF ApplyWork, TypeInv, RestInv, cloudVars
<1>3. CASE SetDeleteOption
  <2>1. \/ UNCHANGED work
        \/ \E option \in Options :
             work' = [work EXCEPT ![id] = [work[id] EXCEPT !.option = option, !.observed = FALSE]]
        \/ work' = [work EXCEPT ![id] = work[id]]
    BY <1>3, DeleteOptionType DEF SetDeleteOption, id
  <2>2. \A option \in Options : [work[id] EXCEPT !.option = option, !.observed = FALSE] \in Work
    BY <1>1, WorkTypes
  <2>3. \E w \in Work : work' \in {work, [work EXCEPT ![id] = w]}
    BY <1>1, <2>1, <2>2
  <2>4. work' \in [InfraIDs -> Work]
    BY <1>1, <2>3 DEF TypeInv, RestInv
  <2> QED BY <1>3, <2>4 DEF SetDeleteOption, TypeInv, RestInv, cloudVars
<1>4. CASE DeleteWork
  <2>1. \/ UNCHANGED work
        \/ work' = [work EXCEPT ![id] = [work[id] EXCEPT !.state = "deleting"]]
    BY <1>1, <1>4 DEF DeleteWork, id, TypeInv, RestInv, Work
  <2>2. work' \in [InfraIDs -> Work]
    BY <1>1, <2>1, WorkTypes DEF TypeInv, RestInv, Options
  <2> QED BY <1>4, <2>2 DEF DeleteWork, TypeInv, RestInv, cloudVars
<1> QED BY <1>2, <1>3, <1>4

LEMMA StepRest == ASSUME TypeInv, Step PROVE RestInv'
<1>1. CASE CreateInfra \/ CreateIAM \/ DestroyInfra \/ DestroyIAM
  BY <1>1, CloudRest
<1>2. CASE ApplyWork \/ SetDeleteOption \/ DeleteWork
  BY <1>2, WorkRest
<1>3. CASE MigrateRoles \/ ReadProviderSecret \/ EnsureFinalizer \/ Dispatch
  BY <1>3, OtherRest DEF MigrateRoles, ReadProviderSecret, EnsureFinalizer, Dispatch
<1>4. CASE \/ BeginInfra \/ ReportBadSecret \/ ScaffoldSpec \/ PlatformTrue
           \/ IAMFalse \/ PatchIAM \/ IAMTrue \/ NotApplicable \/ SetDefaults
  BY <1>4, OtherRest DEF BeginInfra, ReportBadSecret, ScaffoldSpec, PlatformTrue,
                         IAMFalse, PatchIAM, IAMTrue, NotApplicable, SetDefaults
<1>5. CASE \/ BeginDestroy \/ WorkGone \/ WorkDeleting \/ BeginDestroyInfra
           \/ RemoveDestroyFinalizer
  BY <1>5, OtherRest DEF BeginDestroy, WorkGone, WorkDeleting, BeginDestroyInfra,
                         RemoveDestroyFinalizer
<1> QED BY <1>1, <1>2, <1>3, <1>4, <1>5 DEF Step

LEMMA StepType == ASSUME TypeInv, Step PROVE TypeInv'
BY EntryCalls, CreateCalls, WorkCalls, DestroyCalls, StepRest DEF Step, TypeInv

-----------------------------------------------------------------------------
(* What runs next to the worker. *)

LEMMA WriteByOtherType ==
  ASSUME TypeInv, NEW h \in HDs, NEW o \in Object, WriteByOther(h, o),
         UNCHANGED <<cache, queue, pc, key, mem, cloudVars, workVars, faults>>,
         edits' \in 0..MaxEdits
  PROVE  TypeInv'
BY DEF WriteByOther, TypeInv, CallInv, RestInv, WorkerInv, IDChosen, cloudVars, workVars

LEMMA ObjectStepType ==
  ASSUME TypeInv, NEW h \in HDs,
         Start(h) \/ ObserveObject(h) \/ Resync(h) \/ UserDeletes(h) \/ UserEdits(h)
  PROVE  TypeInv'
<1>1. hd[h] \in Object /\ cache[h] \in Object
  BY DEF TypeInv, CallInv, RestInv
<1>2. CASE Start(h)
  BY <1>1, <1>2 DEF Start, TypeInv, CallInv, WorkerInv, RestInv, IDChosen, Early, Steps,
                    cloudVars, workVars
<1>3. CASE ObserveObject(h)
  BY <1>1, <1>3 DEF ObserveObject, TypeInv, CallInv, WorkerInv, RestInv, IDChosen,
                    workerVars, cloudVars, workVars
<1>4. CASE Resync(h)
  BY <1>4 DEF Resync, TypeInv, CallInv, WorkerInv, RestInv, IDChosen,
              workerVars, cloudVars, workVars
<1>5. CASE UserDeletes(h)
  <2>1. [hd[h] EXCEPT !.deleting = TRUE] \in Object
    BY <1>1 DEF Object
  <2>2. edits' \in 0..MaxEdits
    BY <1>5 DEF UserDeletes, TypeInv, RestInv
  <2> QED BY <1>5, <2>1, <2>2, SettleType, WriteByOtherType DEF UserDeletes
<1>6. CASE UserEdits(h)
  <2>1. PICK o \in UserOverrides : WriteByOther(h, [hd[h] EXCEPT !.override = o])
    BY <1>6 DEF UserEdits
  <2>2. [hd[h] EXCEPT !.override = o] \in Object
    BY <1>1, ReconcilerAssumption DEF Object
  <2>3. edits' \in 0..MaxEdits
    BY <1>6, ReconcilerAssumption DEF UserEdits, TypeInv, RestInv
  <2> QED BY <1>6, <2>1, <2>2, <2>3, WriteByOtherType DEF UserEdits
<1> QED BY <1>2, <1>3, <1>4, <1>5, <1>6

LEMMA WorkStepType ==
  ASSUME TypeInv, NEW id \in InfraIDs, ObserveWork(id) \/ AgentApplies(id) \/ AgentCleansUp(id)
  PROVE  TypeInv'
<1>1. work[id] \in Work /\ workCache[id] \in Work /\ hosted[id] \in SUBSET Kept
  BY DEF TypeInv, RestInv
<1>2. CASE ObserveWork(id)
  BY <1>1, <1>2 DEF ObserveWork, TypeInv, CallInv, WorkerInv, RestInv, IDChosen,
                    workerVars, cloudVars
<1>3. CASE AgentApplies(id)
  <2>1. [work[id] EXCEPT !.observed = TRUE] \in Work
    BY <1>1 DEF Work
  <2>2. work' \in [InfraIDs -> Work] /\ hosted' \in [InfraIDs -> SUBSET Kept]
    BY <1>3, <2>1 DEF AgentApplies, TypeInv, RestInv
  <2> QED BY <1>3, <2>2 DEF AgentApplies, TypeInv, CallInv, WorkerInv, RestInv, IDChosen,
                            workerVars, cloudVars
<1>4. CASE AgentCleansUp(id)
  <2>1. NoWork \in Work
    BY DEF NoWork, Work, Options
  <2>2. work' \in [InfraIDs -> Work]
    BY <1>4, <2>1 DEF AgentCleansUp, TypeInv, RestInv
  <2>3. hosted' \in [InfraIDs -> SUBSET Kept]
    BY <1>1, <1>4 DEF AgentCleansUp, TypeInv, RestInv
  <2> QED BY <1>4, <2>2, <2>3 DEF AgentCleansUp, TypeInv, CallInv, WorkerInv, RestInv,
                                  IDChosen, workerVars, cloudVars
<1> QED BY <1>2, <1>3, <1>4

LEMMA CrashType == ASSUME TypeInv, Crash PROVE TypeInv'
<1>1. WorkerInv'
  BY ZeroObjectType DEF Crash, Return, TypeInv, CallInv, WorkerInv, Steps, IDChosen, Early
<1>2. faults' \in 0..MaxFaults
  BY FaultType DEF Crash
<1> QED BY <1>1, <1>2 DEF Crash, TypeInv, CallInv, RestInv, cloudVars, workVars

LEMMA InitType == ASSUME Init PROVE TypeInv
<1>1. hd \in [HDs -> Object] /\ cache = hd
  BY HubAssumption DEF Init
<1>2. faults \in 0..MaxFaults /\ edits \in 0..MaxEdits
  BY HubAssumption, ReconcilerAssumption DEF Init
<1>3. NoWork \in Work
  BY DEF NoWork, Work, Options
<1> QED BY <1>1, <1>2, <1>3, ZeroObjectType
        DEF Init, TypeInv, CallInv, WorkerInv, RestInv, Steps, IDChosen, Early

LEMMA NextType == ASSUME TypeInv, [Next]_vars PROVE TypeInv'
<1>1. CASE UNCHANGED vars
  BY <1>1 DEF vars, workerVars, cloudVars, workVars, TypeInv, CallInv, WorkerInv, RestInv, IDChosen
<1> QED BY <1>1, StepType, ObjectStepType, WorkStepType, CrashType DEF Next

LEMMA TypeInvariant == Spec => []TypeInv
BY InitType, NextType, PTL DEF Spec

(***************************************************************************)
(* The variables of the reconciler keep their types, for caches that are   *)
(* caught up and for caches that are not: no step of Reconcile uses an     *)
(* infra ID that has not been chosen.                                      *)
(***************************************************************************)
THEOREM TypeCorrect == Spec => []TypeOK
<1>1. TypeInv => TypeOK
  BY DEF TypeInv, CallInv, WorkerInv, RestInv, TypeOK
<1> QED BY <1>1, TypeInvariant, PTL

-----------------------------------------------------------------------------
(***************************************************************************)
(* What the steps of the worker do to its object and to its copy, in four  *)
(* forms that cover every call of Reconcile but two: EnsureFinalizer gives *)
(* an object its infra ID and finalizer, RemoveDestroyFinalizer takes the  *)
(* finalizer away.  An invariant about objects and copies is proved of the *)
(* forms, once, and not of every action.                                   *)
(***************************************************************************)

\* c is a copy with the identity of the worker's copy.
Like(c) ==
  /\ c.infraID = mem.infraID /\ c.finalizers = mem.finalizers
  /\ c.configure = mem.configure /\ c.deleting = mem.deleting

\* And with its contents: of the parts of the spec, only the deprecated roles may be missing.
Carries(c) ==
  /\ c.override = mem.override /\ c.ready = mem.ready
  /\ mem.parts \ {"roles"} \subseteq c.parts

\* The part of the spec that a patch has filled in when the worker gets where it goes.
Fills(c) == /\ pc' = "platformTrue" => "infra" \in c.parts
            /\ pc' = "iamTrue" => "iam" \in c.parts

\* The condition that a step may report and that was not reported before.
Earned == (IF pc = "platformTrue" THEN {"PlatformConfigured"} ELSE {})
            \cup (IF pc = "iamTrue" \/ Platform = "Azure" THEN {"PlatformIAMConfigured"} ELSE {})

Judged == {[mem EXCEPT !.ready = ready] : ready \in SUBSET (mem.ready \cup Earned)}

Sends(c) == /\ PatchAdmitted(c) /\ Store(PatchResult(c))
            /\ mem' = Decoded(c, PatchResult(c))

Quiet   == hd' = hd /\ mem' \in Judged /\ pc' \notin {"platformTrue", "iamTrue"}
Patches == \E c \in Object : Like(c) /\ Carries(c) /\ Fills(c) /\ Sends(c)
Reports == /\ hd[key].exists /\ pc' \notin {"platformTrue", "iamTrue"}
           /\ \E c \in Judged : /\ Store(StatusPatched(hd[key], c))
                                /\ mem' = Decoded(c, StatusPatched(hd[key], c))
Ends    == pc' = "idle" /\ ReportReady(mem.ready)

Tame == key' = key /\ (Quiet \/ Patches \/ Reports \/ Ends)

-----------------------------------------------------------------------------
(* The calls of the worker in these forms. *)

LEMMA JudgedType ==
  ASSUME TypeInv, NEW c \in Judged
  PROVE  /\ c \in Object /\ Like(c) /\ c.override = mem.override /\ c.parts = mem.parts
         /\ c.ready \subseteq mem.ready \cup Earned
<1>1. PICK ready \in SUBSET (mem.ready \cup Earned) : c = [mem EXCEPT !.ready = ready]
  BY DEF Judged
<1>2. mem \in Object /\ ready \in SUBSET Conditions
  BY MemFacts DEF Earned, Conditions
<1> QED BY <1>1, <1>2 DEF Like, Object

LEMMA JudgedItself == ASSUME TypeInv PROVE mem \in Judged
<1>1. mem = [mem EXCEPT !.ready = mem.ready]
  BY MemFacts DEF Object
<1> QED BY <1>1 DEF Judged

LEMMA QuietTame ==
  ASSUME TypeInv, NEW next, NEW c \in Judged, next \notin {"platformTrue", "iamTrue"},
         Goto(next, c), hd' = hd
  PROVE  Tame /\ pc' = next
BY DEF Goto, Tame, Quiet

LEMMA PatchTame ==
  ASSUME TypeInv, NEW next, NEW c \in Object, Like(c), Carries(c), PatchObject(c, next),
         next = "platformTrue" => "infra" \in c.parts, next = "iamTrue" => "iam" \in c.parts
  PROVE  Tame /\ pc' = next
BY DEF PatchObject, Goto, Tame, Patches, Sends, Fills

LEMMA ReportTame ==
  ASSUME TypeInv, NEW next, NEW c \in Judged, next \notin {"platformTrue", "iamTrue"},
         hd[key].exists, Store(StatusPatched(hd[key], c)),
         Goto(next, Decoded(c, StatusPatched(hd[key], c)))
  PROVE  Tame /\ pc' = next
BY DEF Goto, Tame, Reports

LEMMA EndTame ==
  ASSUME Requeue \/ Done, ReportReady(mem.ready) \/ UNCHANGED hd
  PROVE  Tame /\ pc' = "idle"
BY DEF Requeue, Done, Return, Tame, Ends, ReportReady

LEMMA SetReadyTame ==
  ASSUME TypeInv, NEW next, next \notin {"platformTrue", "iamTrue"},
         NEW ready \in SUBSET (mem.ready \cup Earned),
         SetReady(ready, next) \/ SetReadyIgnoringError(ready, next)
  PROVE  Tame /\ pc' \in {next, "idle"}
<1> DEFINE c == [mem EXCEPT !.ready = ready]
<1>1. c \in Judged
  BY DEF Judged
<1> HIDE DEF c
<1>2. CASE SendStatus(c, next)
  BY <1>1, <1>2, ReportTame DEF SendStatus
<1>3. CASE StatusUnchanged(ready, next)
  BY <1>3, JudgedItself, QuietTame DEF StatusUnchanged
<1>4. CASE StatusFails /\ Requeue
  BY <1>4, EndTame DEF StatusFails
<1>5. CASE StatusFails /\ Goto(next, c)
  BY <1>1, <1>5, QuietTame DEF StatusFails
<1> QED BY <1>2, <1>3, <1>4, <1>5 DEF SetReady, SetReadyIgnoringError, c

\* The copies that the patches of an ordinary step are made from.
LEMMA RevisedCopy ==
  ASSUME TypeInv
  PROVE  /\ [mem EXCEPT !.parts = @ \ {"roles"}] \in Object
         /\ Like([mem EXCEPT !.parts = @ \ {"roles"}])
         /\ Carries([mem EXCEPT !.parts = @ \ {"roles"}])
         /\ \A part \in Parts : LET c == [mem EXCEPT !.parts = @ \cup {part}] IN
              c \in Object /\ Like(c) /\ Carries(c) /\ part \in c.parts
<1>1. mem \in Object
  BY CopyTypes
<1> QED BY <1>1, EditedType DEF Like, Carries, Object

-----------------------------------------------------------------------------
(* Where the worker goes, and what it has seen to when it gets there. *)

Flow ==
  /\ pc' \notin Early => pc \notin Early
  /\ pc' \in Creating =>
       \/ pc \in Creating
       \/ pc = "dispatch" /\ mem.configure /\ ~mem.deleting
  /\ pc' = "infra" => ~mem'.deleting
  /\ pc' = "scaffold" => mem.infraID \in infra'
  /\ pc' = "platformTrue" => pc = "scaffold"
  /\ pc' = "patchIAM" => mem.infraID \in iam'
  /\ pc' = "iamTrue" => pc = "patchIAM"
  /\ pc' = "apply" => \/ pc \in Creating \cup {"notApplicable"}
                      \/ pc = "badSecret" /\ ~mem.deleting
  /\ pc' = "notApplicable" => ~mem'.deleting
  /\ pc' = "work" => pc = "apply" /\ Applies

DestroyFlow ==
  /\ pc' = "badSecret" => /\ Platform = "Azure" /\ mem' = mem
                          /\ \/ pc = "infra"
                             \/ pc = "destroyInfra" /\ mem.override # "ORPHAN"
  /\ pc' \in Destroying =>
       \/ pc \in Destroying
       \/ pc \in {"dispatch", "badSecret"} /\ mem.deleting
  /\ pc' = "deleteWorkNow" => SetDeleteOption
  /\ pc' = "destroyInfra" => \/ pc = "destroy" /\ mem.override = "INFRA-ONLY"
                             \/ pc = "deleteWork" /\ workCache[mem.infraID].state = "absent"
  /\ pc' = "callDestroy" => pc = "destroyInfra" /\ mem.override # "ORPHAN"
  /\ pc' = "destroyIAM" => pc = "callDestroy" /\ mem.infraID \notin infra'
  /\ pc' = "unfinalize" =>
       \/ pc = "destroyInfra" /\ mem' = mem /\ (mem.override = "ORPHAN" \/ ~mem.configure)
       \/ pc = "destroyIAM" /\ infra' = infra /\ mem.infraID \notin iam'
       \/ pc = "badSecret"
       \/ pc = "callDestroy" /\ Platform = "Azure"

-----------------------------------------------------------------------------
LEMMA EntryTame ==
  ASSUME TypeInv, MigrateRoles \/ ReadProviderSecret \/ Dispatch
  PROVE  Tame /\ Flow /\ DestroyFlow
<1> USE DEF Flow, DestroyFlow, Early, Creating, Destroying
<1>1. CASE MigrateRoles
  <2> DEFINE migrated == [mem EXCEPT !.parts = @ \ {"roles"}]
  <2>1. pc = "migrate" /\ migrated \in Object /\ Like(migrated) /\ Carries(migrated)
    BY <1>1, RevisedCopy DEF MigrateRoles
  <2> HIDE DEF migrated
  <2>2. CASE PatchObject(migrated, "secret")
    BY <2>1, <2>2, PatchTame
  <2>3. CASE Requeue /\ UNCHANGED hd
    BY <2>1, <2>3, EndTame
  <2>4. CASE Goto("secret", mem) /\ UNCHANGED <<hd, queue, fresh, faults>>
    BY <2>1, <2>4, JudgedItself, QuietTame
  <2> QED BY <1>1, <2>2, <2>3, <2>4 DEF MigrateRoles, migrated
<1>2. CASE ReadProviderSecret
  <2>1. pc = "secret"
    BY <1>2 DEF ReadProviderSecret
  <2>2. CASE SetReady(mem.ready, "finalizer")
    BY <2>1, <2>2, SetReadyTame
  <2>3. CASE Requeue /\ ReportReady(mem.ready)
    BY <2>1, <2>3, EndTame
  <2>4. CASE Goto("finalizer", mem) /\ UNCHANGED <<hd, queue, fresh, faults>>
    BY <2>1, <2>4, JudgedItself, QuietTame
  <2> QED BY <1>2, <2>2, <2>3, <2>4 DEF ReadProviderSecret
<1>3. CASE Dispatch
  <2>1. /\ pc = "dispatch" /\ mem' = mem /\ hd' = hd
        /\ pc' = IF mem.deleting THEN "destroy" ELSE IF mem.configure THEN "infra" ELSE "notApplicable"
    BY <1>3 DEF Dispatch, Goto
  <2>2. Tame
    BY <1>3, <2>1, JudgedItself, QuietTame DEF Dispatch
  <2> QED BY <2>1, <2>2
<1> QED BY <1>1, <1>2, <1>3

LEMMA InfraTame ==
  ASSUME TypeInv, BeginInfra \/ ReportBadSecret \/ CreateInfra \/ ScaffoldSpec \/ PlatformTrue
  PROVE  Tame /\ Flow /\ DestroyFlow
<1> USE DEF Flow, DestroyFlow, Early, Creating, Destroying
<1>1. CASE BeginInfra
  <2>1. pc = "infra" /\ BeingConfigured \in SUBSET (mem.ready \cup Earned)
    BY <1>1, ReconcilerAssumption DEF BeginInfra, BeingConfigured, Earned
  <2>2. CASE Goto("apply", mem) /\ UNCHANGED <<hd, queue, fresh, faults>>
    BY <2>1, <2>2, JudgedItself, QuietTame
  <2>3. CASE SetReadyIgnoringError(BeingConfigured, "create")
    <3>1. Tame /\ pc' \in {"create", "idle"}
      BY <2>1, <2>3, SetReadyTame
    <3> QED BY <2>1, <3>1
  <2>4. CASE NoServicePrincipal
    BY <2>1, <2>4, JudgedItself, QuietTame DEF NoServicePrincipal, Goto
  <2> QED BY <1>1, <2>2, <2>3, <2>4 DEF BeginInfra
<1>2. CASE ReportBadSecret
  <2> DEFINE next == IF mem.deleting THEN "unfinalize" ELSE "apply"
  <2>1. pc = "badSecret" /\ next \notin {"platformTrue", "iamTrue"}
    BY <1>2 DEF ReportBadSecret
  <2>2. CASE SendStatus(mem, next)
    <3>1. Tame /\ pc' = next
      BY <2>1, <2>2, JudgedItself, ReportTame DEF SendStatus
    <3> QED BY <2>1, <3>1
  <2>3. CASE StatusFails /\ (Done \/ Requeue)
    BY <2>1, <2>3, EndTame DEF StatusFails
  <2> QED BY <1>2, <2>2, <2>3 DEF ReportBadSecret
<1>3. CASE CreateInfra
  <2>1. pc = "create"
    BY <1>3 DEF CreateInfra
  <2>2. CASE Goto("scaffold", mem) /\ UNCHANGED <<hd, queue, fresh>> /\ infra' = infra \cup {mem.infraID}
    BY <2>1, <2>2, JudgedItself, QuietTame
  <2>3. CASE Requeue /\ ReportReady(mem.ready)
    BY <2>1, <2>3, EndTame
  <2> QED BY <1>3, <2>2, <2>3 DEF CreateInfra
<1>4. CASE ScaffoldSpec
  <2> DEFINE scaffolded == [mem EXCEPT !.parts = @ \cup {"infra"}]
  <2>1. /\ pc = "scaffold" /\ scaffolded \in Object
        /\ Like(scaffolded) /\ Carries(scaffolded) /\ "infra" \in scaffolded.parts
    BY <1>4, RevisedCopy DEF ScaffoldSpec, Parts
  <2> HIDE DEF scaffolded
  <2>2. CASE PatchObject(scaffolded, "platformTrue")
    BY <2>1, <2>2, PatchTame
  <2>3. CASE Requeue /\ ReportReady(mem.ready)
    BY <2>1, <2>3, EndTame
  <2> QED BY <1>4, <2>2, <2>3 DEF ScaffoldSpec, scaffolded
<1>5. CASE PlatformTrue
  <2>1. pc = "platformTrue" /\ mem.ready \cup {"PlatformConfigured"} \in SUBSET (mem.ready \cup Earned)
    BY <1>5 DEF PlatformTrue, Earned
  <2>2. Tame /\ pc' \in {IF Platform = "AWS" THEN "iamFalse" ELSE "apply", "idle"}
    BY <1>5, <2>1, SetReadyTame DEF PlatformTrue
  <2> QED BY <2>1, <2>2
<1> QED BY <1>1, <1>2, <1>3, <1>4, <1>5

LEMMA IAMTame ==
  ASSUME TypeInv, IAMFalse \/ CreateIAM \/ PatchIAM \/ IAMTrue \/ NotApplicable
  PROVE  Tame /\ Flow /\ DestroyFlow
<1> USE DEF Flow, DestroyFlow, Early, Creating, Destroying
<1>1. CASE IAMFalse
  <2>1. pc = "iamFalse" /\ mem.ready \ {"PlatformIAMConfigured"} \in SUBSET (mem.ready \cup Earned)
    BY <1>1 DEF IAMFalse
  <2>2. Tame /\ pc' \in {"createIAM", "idle"}
    BY <1>1, <2>1, SetReadyTame DEF IAMFalse
  <2> QED BY <2>1, <2>2
<1>2. CASE CreateIAM
  <2>1. pc = "createIAM"
    BY <1>2 DEF CreateIAM
  <2>2. CASE Goto("patchIAM", mem) /\ UNCHANGED <<hd, queue, fresh>> /\ iam' = iam \cup {mem.infraID}
    BY <2>1, <2>2, JudgedItself, QuietTame
  <2>3. CASE Requeue /\ ReportReady(mem.ready)
    BY <2>1, <2>3, EndTame
  <2> QED BY <1>2, <2>2, <2>3 DEF CreateIAM
<1>3. CASE PatchIAM
  <2> DEFINE filled == [mem EXCEPT !.parts = @ \cup {"iam"}]
  <2>1. /\ pc = "patchIAM" /\ filled \in Object
        /\ Like(filled) /\ Carries(filled) /\ "iam" \in filled.parts
    BY <1>3, RevisedCopy DEF PatchIAM, Parts
  <2> HIDE DEF filled
  <2>2. CASE PatchObject(filled, "iamTrue")
    BY <2>1, <2>2, PatchTame
  <2>3. CASE Requeue /\ ReportReady(mem.ready)
    BY <2>1, <2>3, EndTame
  <2> QED BY <1>3, <2>2, <2>3 DEF PatchIAM, filled
<1>4. CASE IAMTrue
  <2>1. pc = "iamTrue" /\ mem.ready \cup {"PlatformIAMConfigured"} \in SUBSET (mem.ready \cup Earned)
    BY <1>4 DEF IAMTrue, Earned
  <2>2. Tame /\ pc' \in {"apply", "idle"}
    BY <1>4, <2>1, SetReadyTame DEF IAMTrue
  <2> QED BY <2>1, <2>2
<1>5. CASE NotApplicable
  <2>1. pc = "notApplicable" /\ {} \in SUBSET (mem.ready \cup Earned)
    BY <1>5 DEF NotApplicable
  <2>2. Tame /\ pc' \in {"apply", "idle"}
    BY <1>5, <2>1, SetReadyTame DEF NotApplicable
  <2> QED BY <2>1, <2>2
<1> QED BY <1>1, <1>2, <1>3, <1>4, <1>5

LEMMA WorkTame ==
  ASSUME TypeInv, SetDefaults \/ ApplyWork
  PROVE  Tame /\ Flow /\ DestroyFlow
<1> USE DEF Flow, DestroyFlow, Early, Creating, Destroying
<1>1. CASE SetDefaults
  <2> DEFINE set == [mem EXCEPT !.parts = @ \cup {"defaults"}]
  <2>1. pc = "apply" /\ set \in Object /\ Like(set) /\ Carries(set)
    BY <1>1, RevisedCopy DEF SetDefaults, Parts
  <2> HIDE DEF set
  <2>2. CASE (Done \/ Requeue) /\ UNCHANGED hd
    BY <2>1, <2>2, EndTame
  <2>3. CASE Applies /\ Goto("work", mem) /\ UNCHANGED hd
    BY <2>1, <2>3, JudgedItself, QuietTame
  <2>4. CASE Applies /\ PatchObject(set, "work")
    <3>1. Tame /\ pc' = "work"
      BY <2>1, <2>4, PatchTame
    <3> QED BY <2>1, <2>4, <3>1
  <2> QED BY <1>1, <2>2, <2>3, <2>4 DEF SetDefaults, set
<1>2. CASE ApplyWork
  <2>1. pc = "work" /\ (Done \/ Requeue) /\ (ReportReady(mem.ready) \/ UNCHANGED hd)
    BY <1>2 DEF ApplyWork, StatusFails
  <2> QED BY <2>1, EndTame
<1> QED BY <1>1, <1>2

LEMMA WithdrawTame ==
  ASSUME TypeInv, BeginDestroy \/ WorkGone \/ WorkDeleting \/ SetDeleteOption \/ DeleteWork
  PROVE  Tame /\ Flow /\ DestroyFlow
<1> USE DEF Flow, DestroyFlow, Early, Creating, Destroying
<1>1. CASE BeginDestroy
  <2>1. pc = "destroy" /\ hd' = hd
    BY <1>1 DEF BeginDestroy
  <2>2. CASE Done
    BY <2>1, <2>2, EndTame
  <2>3. CASE Goto(IF mem.override = "INFRA-ONLY" THEN "destroyInfra" ELSE "deleteWork", mem)
    BY <2>1, <2>3, JudgedItself, QuietTame
  <2> QED BY <1>1, <2>2, <2>3 DEF BeginDestroy
<1>2. CASE WorkGone
  <2>1. /\ pc = "deleteWork" /\ workCache[mem.infraID].state = "absent"
        /\ mem.ready \in SUBSET (mem.ready \cup Earned)
    BY <1>2 DEF WorkGone
  <2>2. Tame /\ pc' \in {"destroyInfra", "idle"}
    BY <1>2, <2>1, SetReadyTame DEF WorkGone
  <2> QED BY <2>1, <2>2
<1>3. CASE WorkDeleting
  BY <1>3, EndTame DEF WorkDeleting
<1>4. CASE SetDeleteOption
  <2>1. pc = "deleteWork"
    BY <1>4 DEF SetDeleteOption
  <2>2. CASE Goto("deleteWorkNow", mem) /\ UNCHANGED hd
    BY <1>4, <2>1, <2>2, JudgedItself, QuietTame
  <2>3. CASE Requeue /\ ReportReady(mem.ready)
    BY <2>1, <2>3, EndTame
  <2> QED BY <1>4, <2>2, <2>3 DEF SetDeleteOption
<1>5. CASE DeleteWork
  BY <1>5, EndTame DEF DeleteWork
<1> QED BY <1>1, <1>2, <1>3, <1>4, <1>5

LEMMA DestroyTame ==
  ASSUME TypeInv, BeginDestroyInfra \/ DestroyInfra \/ DestroyIAM
  PROVE  Tame /\ Flow /\ DestroyFlow
<1> USE DEF Flow, DestroyFlow, Early, Creating, Destroying
<1>1. CASE BeginDestroyInfra
  <2>1. pc = "destroyInfra" /\ mem.ready \ {"PlatformConfigured"} \in SUBSET (mem.ready \cup Earned)
    BY <1>1 DEF BeginDestroyInfra
  <2>2. CASE Goto("unfinalize", mem) /\ UNCHANGED hd /\ (mem.override = "ORPHAN" \/ ~mem.configure)
    BY <2>1, <2>2, JudgedItself, QuietTame DEF Goto
  <2>3. CASE /\ mem.override # "ORPHAN"
             /\ SetReadyIgnoringError(mem.ready \ {"PlatformConfigured"}, "callDestroy")
    <3>1. Tame /\ pc' \in {"callDestroy", "idle"}
      BY <2>1, <2>3, SetReadyTame
    <3> QED BY <2>1, <2>3, <3>1
  <2>4. CASE mem.override # "ORPHAN" /\ NoServicePrincipal
    BY <2>1, <2>4, JudgedItself, QuietTame DEF NoServicePrincipal, Goto
  <2> QED BY <1>1, <2>2, <2>3, <2>4 DEF BeginDestroyInfra
<1>2. CASE DestroyInfra
  <2>1. pc = "callDestroy" /\ mem.ready \ {"PlatformIAMConfigured"} \in SUBSET (mem.ready \cup Earned)
    BY <1>2 DEF DestroyInfra
  <2>2. CASE /\ infra' = infra \ {mem.infraID}
             /\ SetReadyIgnoringError(mem.ready \ {"PlatformIAMConfigured"}, "destroyIAM")
    <3>1. Tame /\ pc' \in {"destroyIAM", "idle"}
      BY <2>1, <2>2, SetReadyTame
    <3> QED BY <2>1, <2>2, <3>1
  <2>3. CASE Platform # "AWS" /\ Goto("unfinalize", mem) /\ UNCHANGED hd
    BY <2>1, <2>3, JudgedItself, QuietTame, ReconcilerAssumption
  <2>4. CASE Requeue /\ (ReportReady(mem.ready) \/ UNCHANGED hd)
    BY <2>1, <2>4, EndTame
  <2>5. CASE /\ Platform # "AWS" /\ hd[key].exists /\ Store(StatusPatched(hd[key], mem))
             /\ Goto("unfinalize", Decoded(mem, StatusPatched(hd[key], mem)))
    <3>1. Tame /\ pc' = "unfinalize"
      BY <2>5, JudgedItself, ReportTame
    <3> QED BY <2>1, <2>5, <3>1, ReconcilerAssumption
  <2> QED BY <1>2, <2>2, <2>3, <2>4, <2>5 DEF DestroyInfra
<1>3. CASE DestroyIAM
  <2>1. pc = "destroyIAM" /\ infra' = infra
    BY <1>3 DEF DestroyIAM
  <2>2. CASE Goto("unfinalize", mem) /\ UNCHANGED hd /\ iam' = iam \ {mem.infraID}
    BY <2>1, <2>2, JudgedItself, QuietTame
  <2>3. CASE Requeue /\ ReportReady(mem.ready)
    BY <2>1, <2>3, EndTame
  <2> QED BY <1>3, <2>2, <2>3 DEF DestroyIAM
<1> QED BY <1>1, <1>2, <1>3

\* The steps that leave the identity of the object as it is.
Ordinary ==
  \/ MigrateRoles \/ ReadProviderSecret \/ Dispatch
  \/ BeginInfra \/ ReportBadSecret \/ CreateInfra \/ ScaffoldSpec \/ PlatformTrue
  \/ IAMFalse \/ CreateIAM \/ PatchIAM \/ IAMTrue \/ NotApplicable
  \/ SetDefaults \/ ApplyWork
  \/ BeginDestroy \/ WorkGone \/ WorkDeleting \/ SetDeleteOption \/ DeleteWork
  \/ BeginDestroyInfra \/ DestroyInfra \/ DestroyIAM

LEMMA StepSplit == ASSUME Step PROVE Ordinary \/ EnsureFinalizer \/ RemoveDestroyFinalizer
BY DEF Step, Ordinary

LEMMA OrdinaryTame ==
  ASSUME TypeInv, Ordinary
  PROVE  Tame /\ Flow /\ DestroyFlow /\ pc # "idle" /\ UNCHANGED <<cache, workCache, hosted, edits>>
<1>1. Tame /\ Flow /\ DestroyFlow
  BY EntryTame, InfraTame, IAMTame, WorkTame, WithdrawTame, DestroyTame DEF Ordinary
<1>2. pc # "idle" /\ UNCHANGED <<cache, workCache, hosted, edits>>
  BY DEF Ordinary, MigrateRoles, ReadProviderSecret, Dispatch, BeginInfra, ReportBadSecret,
         CreateInfra, ScaffoldSpec, PlatformTrue, IAMFalse, CreateIAM, PatchIAM, IAMTrue,
         NotApplicable, SetDefaults, ApplyWork, BeginDestroy, WorkGone, WorkDeleting,
         SetDeleteOption, DeleteWork, BeginDestroyInfra, DestroyInfra, DestroyIAM, workVars
<1> QED BY <1>1, <1>2
=============================================================================
