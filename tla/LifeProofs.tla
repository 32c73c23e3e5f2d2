----------------------------- MODULE LifeProofs -----------------------------
(***************************************************************************)
(* The main reconciler implements DeploymentLife on AWS, for every set of  *)
(* objects and infra IDs, every number of faults and every edit: each of   *)
(* its steps, and each step of what runs next to it, is a step in the life *)
(* of one object or of none.                                               *)
(***************************************************************************)
EXTENDS DeletionProofs, ReconcilerLife

\* A work that is being deleted is of an object that a user has deleted.
DeletedRetired ==
  \A id \in InfraIDs, h \in HDs :
    work[id].state = "deleting" /\ hd[h].infraID = id => hd[h].deleting

\* One object moves in its life, or none.
Lives ==
  \/ \E h \in HDs : \/ Life!Hold(h) \/ Life!Build(h) \/ Life!Deploy(h) \/ Life!Retire(h)
                    \/ Life!Withdraw(h) \/ Life!Demolish(h) \/ Life!Release(h)
  \/ UNCHANGED <<Held, Retired, InCloud, Deployed>>

LEMMA LivesOn ==
  ASSUME TypeInv, IDInv, [Next]_vars, Lives PROVE Life!LifeNext
<1>1. {h \in HDs : hd'[h].configure} = {h \in HDs : hd[h].configure}
  BY ConfigureKept
<1>2. Orphaning' \subseteq HDs
  BY DEF Orphaning
<1> QED BY <1>1, <1>2 DEF Lives, Life!LifeNext

-----------------------------------------------------------------------------
(* What a step leaves alone of the abstract state.                         *)

LEMMA CloudSame ==
  ASSUME TypeInv, IDInv, [Next]_vars, UNCHANGED <<infra, iam>> PROVE InCloud' = InCloud
<1>1. NoID \notin infra /\ NoID \notin iam
  BY HubAssumption DEF TypeInv, RestInv
<1>2. \A h \in HDs : /\ (hd'[h].infraID \in infra) = (hd[h].infraID \in infra)
                     /\ (hd'[h].infraID \in iam) = (hd[h].infraID \in iam)
  BY <1>1, IDChange DEF IDKept, Used
<1> QED BY <1>2 DEF InCloud

LEMMA DeployedSame ==
  ASSUME TypeInv, TypeInv', IDInv, [Next]_vars,
         \A id \in InfraIDs : (work'[id].state = "absent") = (work[id].state = "absent")
  PROVE  Deployed' = Deployed
<1>1. ASSUME NEW h \in HDs
      PROVE  (hd'[h].infraID # NoID /\ work'[hd'[h].infraID].state # "absent")
               = (hd[h].infraID # NoID /\ work[hd[h].infraID].state # "absent")
  <2>1. hd[h].infraID \in InfraIDs \cup {NoID} /\ hd'[h].infraID \in InfraIDs \cup {NoID}
    BY DEF TypeInv, CallInv, Object
  <2>2. CASE hd'[h].infraID = hd[h].infraID
    BY <2>1, <2>2
  <2>3. CASE hd[h].infraID = NoID /\ hd'[h].infraID \notin Used
    BY <2>1, <2>3 DEF Used
  <2> QED BY <2>2, <2>3, IDChange DEF IDKept
<1> QED BY <1>1 DEF Deployed

LEMMA HeldSame == ASSUME IDInv, AllFollow PROVE Held' = Held
BY DEF IDInv, Named, AllFollow, Follows, Held

\* No call of the worker deletes an object for a user.
LEMMA TameRetires ==
  ASSUME TypeInv, Tame PROVE \A h \in HDs : hd'[h].deleting = hd[h].deleting
<1>1. key \in HDs /\ hd \in [HDs -> Object] /\ hd[key] \in Object /\ cache[key] \in Object
  BY CopyTypes DEF TypeInv, CallInv, WorkerInv
<1>2. ASSUME NEW p, Store(p), p.deleting = hd[key].deleting
      PROVE  \A h \in HDs : hd'[h].deleting = hd[h].deleting
  BY <1>1, <1>2 DEF Store
<1>3. ASSUME NEW c \in Object, Sends(c) PROVE PatchResult(c).deleting = hd[key].deleting
  BY <1>1 DEF PatchResult, Patched, MergeField, MergeStruct, Settle, Object
<1>4. \A ready : [hd[key] EXCEPT !.ready = ready].deleting = hd[key].deleting
  BY <1>1 DEF Object
<1> QED BY <1>2, <1>3, <1>4 DEF Tame, Quiet, Patches, Reports, Ends, Sends, ReportReady, StatusPatched

LEMMA StepRetires ==
  ASSUME TypeInv, IDInv, Step
  PROVE  Retired' = Retired /\ \A h \in HDs : hd'[h].deleting = hd[h].deleting
<1>0. key \in HDs /\ hd \in [HDs -> Object] /\ pc # "idle"
  BY StepWorker DEF TypeInv, CallInv, WorkerInv
<1>1. \A h \in HDs : hd'[h].deleting = hd[h].deleting
  <2>1. CASE EnsureFinalizer
    <3>1. ASSUME NEW p, NEW id, Store(p), AdoptsAs(p, id)
          PROVE  \A h \in HDs : hd'[h].deleting = hd[h].deleting
      BY <1>0, <3>1 DEF Store, AdoptsAs, Adopts
    <3> QED BY <2>1, <3>1, TameRetires, EnsureFinalizerEffect DEF Sends
  <2>2. CASE RemoveDestroyFinalizer
    <3>1. hd[key].deleting
      BY <1>0, <2>2, RemoveEffect DEF IDInv, Mirror, Guarded, Destroying
    <3>2. hd[key].deleting = TRUE
      BY <1>0, <3>1 DEF Object, TypeInv, CallInv
    <3>3. Unfinalized \in Object /\ Unfinalized.deleting => Unfinalized.deleting = TRUE
      BY DEF Object
    <3> QED BY <1>0, <2>2, <3>2, <3>3, RemoveEffect DEF Store
  <2> QED BY <2>1, <2>2, TameRetires, OrdinaryTame, StepSplit
<1> QED BY <1>1 DEF Retired

-----------------------------------------------------------------------------
LEMMA RetiredKept ==
  ASSUME TypeInv, IDInv, DistinctIDs, DeletedRetired, [Next]_vars PROVE DeletedRetired'
<1> SUFFICES ASSUME NEW id \in InfraIDs, NEW h \in HDs, work'[id].state = "deleting",
                    hd'[h].infraID = id
             PROVE  hd'[h].deleting
  BY DEF DeletedRetired
<1>1. CASE Step
  <2>1. CASE work[id].state = "deleting"
    BY <1>1, <2>1, IDBefore, StepRetires DEF DeletedRetired
  <2>2. CASE Deleted(id)
    <3>1. hd[key].deleting /\ hd[key].infraID = id /\ key \in HDs
      BY <2>2 DEF Deleted, IDInv, Guarded, Destroying, Mirror, TypeInv, CallInv, WorkerInv
    <3>2. h = key
      BY <2>2, <3>1, IDBefore, HubAssumption DEF Deleted, DistinctIDs
    <3> QED BY <1>1, <3>1, <3>2, StepRetires
  <2> QED BY <1>1, <2>1, <2>2, StepMoves DEF Created, Updated, Told
<1>2. CASE Beside
  <2>1. work[id].state = "deleting"
    BY <1>2, BesideMoves DEF Applied, CleanedUp
  <2> QED BY <1>2, <2>1, IDBefore, BesideObjects DEF DeletedRetired, UserMay, Follows
<1> QED BY <1>1, <1>2, NextSplit

-----------------------------------------------------------------------------
(* The steps of the worker.                                                *)

\* What the worker's object is to DeploymentLife.
LEMMA KeyLife ==
  ASSUME TypeInv, IDInv, DistinctIDs, pc \notin Early
  PROVE  /\ key \in HDs /\ key \in Held
         /\ hd[key].infraID = mem.infraID /\ mem.infraID \in InfraIDs /\ mem.infraID # NoID
         /\ \A h \in HDs : h # key => hd[h].infraID # mem.infraID
         /\ mem.deleting => key \in Retired
         /\ pc \in Creating => hd[key].configure
         /\ Withdrawn(mem.infraID) => key \notin Deployed
<1>1. pc # "idle" /\ key \in HDs /\ mem.infraID \in InfraIDs /\ mem.infraID # NoID
  BY MemFacts, HubAssumption DEF Early, TypeInv, CallInv, WorkerInv
<1>2. /\ DestroyFinalizer \in hd[key].finalizers /\ hd[key].infraID = mem.infraID
      /\ (mem.deleting => hd[key].deleting)
      /\ (pc \in Creating => hd[key].configure)
  BY <1>1 DEF IDInv, Guarded, Mirror
<1>3. \A h \in HDs : h # key => hd[h].infraID # mem.infraID
  BY <1>1, <1>2 DEF DistinctIDs
<1> QED BY <1>1, <1>2, <1>3 DEF IDInv, Named, Held, Retired, Withdrawn, Holder, Deployed

\* A step that changes one resource of the worker's infra ID moves its object alone.
LEMMA CloudMoves ==
  ASSUME TypeInv, IDInv, DistinctIDs, pc \notin Early, AllFollow, NEW resources,
         resources = (IF mem.infraID \in infra' THEN {"infra"} ELSE {})
                       \cup (IF mem.infraID \in iam' THEN {"iam"} ELSE {}),
         infra' \ {mem.infraID} = infra \ {mem.infraID},
         iam' \ {mem.infraID} = iam \ {mem.infraID}
  PROVE  InCloud' = [InCloud EXCEPT ![key] = resources]
<1> DEFINE In(h) == (IF hd[h].infraID \in infra THEN {"infra"} ELSE {})
                      \cup (IF hd[h].infraID \in iam THEN {"iam"} ELSE {})
           New(h) == (IF hd'[h].infraID \in infra' THEN {"infra"} ELSE {})
                      \cup (IF hd'[h].infraID \in iam' THEN {"iam"} ELSE {})
<1>1. \A h \in HDs : hd'[h].infraID = hd[h].infraID
  BY DEF AllFollow, Follows
<1>2. \A h \in HDs : New(h) = IF h = key THEN resources ELSE In(h)
  <2>1. ASSUME NEW h \in HDs, h # key PROVE New(h) = In(h)
    <3>1. hd[h].infraID # mem.infraID
      BY <2>1, KeyLife
    <3>2. /\ (hd[h].infraID \in infra') = (hd[h].infraID \in infra)
          /\ (hd[h].infraID \in iam') = (hd[h].infraID \in iam)
      BY <3>1
    <3> QED BY <1>1, <3>2
  <2>2. New(key) = resources
    BY <1>1, KeyLife
  <2> QED BY <2>1, <2>2
<1>3. InCloud = [h \in HDs |-> In(h)] /\ InCloud' = [h \in HDs |-> New(h)]
  BY DEF InCloud
<1> HIDE DEF In, New
<1> QED BY <1>2, <1>3

LEMMA OrdinaryLife ==
  ASSUME Platform = "AWS", TypeInv, TypeInv', IDInv, DistinctIDs, HoldInv, CloudReady, Ordinary
  PROVE  Lives
<1>1. /\ Step /\ [Next]_vars /\ pc # "idle" /\ AllFollow /\ Held' = Held /\ Retired' = Retired
  BY OrdinaryTame, TameFollows, HeldSame, StepRetires DEF IDInv, Ordinary, Step, Next
<1>2. CloudResources = {"infra", "iam"}
  BY DEF CloudResources
<1>3. CASE UNCHANGED <<infra, iam>>
  <2>1. InCloud' = InCloud
    BY <1>1, <1>3, CloudSame
  <2>2. CASE \E id \in InfraIDs : Created(id)
    <3>1. /\ pc = "work" /\ work[mem.infraID].state = "absent"
          /\ work'[mem.infraID].state # "absent" /\ pc \notin Early
      BY <2>2 DEF Created, Early
    <3>2. /\ key \in Held \ Deployed /\ key \in HDs /\ mem.infraID \in InfraIDs
          /\ hd[key].infraID = mem.infraID /\ mem.infraID # NoID
      BY <3>1, KeyLife DEF Deployed
    <3>3. Deployed' = Deployed \cup {key}
      <4>1. \A h \in HDs : hd'[h].infraID = hd[h].infraID
        BY <1>1 DEF AllFollow, Follows
      <4>2. \A id \in InfraIDs : id # mem.infraID =>
              (work'[id].state = "absent") = (work[id].state = "absent")
        BY <1>1, StepMoves DEF Created, Updated, Told, Deleted
      <4>3. \A h \in HDs : hd[h].infraID \in InfraIDs \cup {NoID}
        BY DEF TypeInv, CallInv, Object
      <4>4. \A h \in HDs : h # key => hd[h].infraID # mem.infraID
        BY <3>1, KeyLife
      <4> QED BY <3>1, <3>2, <4>1, <4>2, <4>3, <4>4 DEF Deployed
    <3>4. hd[key].configure => InCloud[key] = CloudResources
      BY <1>2, <3>1, <3>2 DEF CloudReady, IDInv, Mirror, InCloud
    <3> QED BY <1>1, <2>1, <3>2, <3>3, <3>4 DEF Lives, Life!Deploy
  <2>3. CASE ~(\E id \in InfraIDs : Created(id))
    <3>1. \A id \in InfraIDs : (work'[id].state = "absent") = (work[id].state = "absent")
      BY <1>1, <2>3, StepMoves DEF Updated, Told, Deleted
    <3> QED BY <1>1, <2>1, <3>1, DeployedSame DEF Lives
  <2> QED BY <2>2, <2>3
<1>4. CASE ~UNCHANGED <<infra, iam>>
  <2>1. CreateInfra \/ CreateIAM \/ DestroyInfra \/ DestroyIAM
    BY <1>1, <1>4, CloudEffect
  <2>2. pc \notin Early /\ Deployed' = Deployed
    <3>1. pc \notin Early /\ UNCHANGED work
      BY <2>1 DEF CreateInfra, CreateIAM, DestroyInfra, DestroyIAM, Early, workVars
    <3> QED BY <1>1, <3>1, DeployedSame
  <2>3. /\ key \in HDs /\ key \in Held /\ hd[key].infraID = mem.infraID
        /\ InCloud[key] = (IF mem.infraID \in infra THEN {"infra"} ELSE {})
                            \cup (IF mem.infraID \in iam THEN {"iam"} ELSE {})
    BY <2>2, KeyLife DEF InCloud
  <2>4. CASE CreateInfra \/ CreateIAM
    <3>1. key \in {h \in HDs : hd[h].configure}
      BY <2>2, <2>3, <2>4, KeyLife DEF CreateInfra, CreateIAM, Creating
    <3>2. CASE CreateInfra
      <4>1. infra' = infra \cup {mem.infraID} /\ mem.infraID \notin infra /\ iam' = iam
        BY <1>4, <3>2 DEF CreateInfra
      <4>2. InCloud' = [InCloud EXCEPT ![key] = @ \cup {"infra"}] /\ "infra" \notin InCloud[key]
        BY <1>1, <2>2, <2>3, <4>1, CloudMoves
      <4> QED BY <1>1, <1>2, <2>2, <2>3, <3>1, <4>2 DEF Lives, Life!Build
    <3>3. CASE CreateIAM
      <4>1. iam' = iam \cup {mem.infraID} /\ mem.infraID \notin iam /\ infra' = infra
        BY <1>4, <3>3 DEF CreateIAM
      <4>2. InCloud' = [InCloud EXCEPT ![key] = @ \cup {"iam"}] /\ "iam" \notin InCloud[key]
        BY <1>1, <2>2, <2>3, <4>1, CloudMoves
      <4> QED BY <1>1, <1>2, <2>2, <2>3, <3>1, <4>2 DEF Lives, Life!Build
    <3> QED BY <2>4, <3>2, <3>3
  <2>5. CASE DestroyInfra \/ DestroyIAM
    <3>1. key \in Retired \ Deployed
      <4>1. pc \in {"callDestroy", "destroyIAM"}
        BY <2>5 DEF DestroyInfra, DestroyIAM
      <4>2. mem.deleting /\ Withdrawn(mem.infraID)
        BY <4>1 DEF IDInv, Guarded, Destroying, HoldInv, WithdrawnInv
      <4> QED BY <2>2, <4>2, KeyLife
    <3>2. CASE DestroyInfra
      <4>1. infra' = infra \ {mem.infraID} /\ mem.infraID \in infra /\ iam' = iam
        BY <1>4, <3>2 DEF DestroyInfra
      <4>2. InCloud' = [InCloud EXCEPT ![key] = @ \ {"infra"}] /\ "infra" \in InCloud[key]
        BY <1>1, <2>2, <2>3, <4>1, CloudMoves
      <4> QED BY <1>1, <2>2, <2>3, <3>1, <4>2 DEF Lives, Life!Demolish
    <3>3. CASE DestroyIAM
      <4>1. iam' = iam \ {mem.infraID} /\ mem.infraID \in iam /\ infra' = infra
        BY <1>4, <3>3 DEF DestroyIAM
      <4>2. InCloud' = [InCloud EXCEPT ![key] = @ \ {"iam"}] /\ "iam" \in InCloud[key]
        BY <1>1, <2>2, <2>3, <4>1, CloudMoves
      <4> QED BY <1>1, <2>2, <2>3, <3>1, <4>2 DEF Lives, Life!Demolish
    <3> QED BY <2>5, <3>2, <3>3
  <2> QED BY <2>1, <2>4, <2>5
<1> QED BY <1>3, <1>4

LEMMA FinalizerLife ==
  ASSUME TypeInv, TypeInv', IDInv, EnsureFinalizer PROVE Lives
<1>1. /\ Step /\ [Next]_vars /\ pc # "idle" /\ UNCHANGED <<infra, iam, work>>
      /\ key \in HDs /\ hd \in [HDs -> Object]
  BY DEF EnsureFinalizer, Step, Next, cloudVars, workVars, TypeInv, CallInv, WorkerInv
<1>2. InCloud' = InCloud /\ Deployed' = Deployed /\ Retired' = Retired
  BY <1>1, CloudSame, DeployedSame, StepRetires
<1>3. CASE Tame
  BY <1>1, <1>2, <1>3, TameFollows, HeldSame DEF IDInv, Lives
<1>4. ASSUME NEW p, NEW id, Store(p), AdoptsAs(p, id) PROVE Lives
  <2>1. key \notin Held /\ Held' = Held \cup {key}
    BY <1>1, <1>4 DEF Store, AdoptsAs, Adopts, Held
  <2> QED BY <1>1, <1>2, <2>1 DEF Lives, Life!Hold
<1> QED BY <1>3, <1>4, EnsureFinalizerEffect DEF Sends

LEMMA ReleaseLife ==
  ASSUME TypeInv, TypeInv', IDInv, DistinctIDs, DistinctIDs', HoldInv, InfraNotLeaked',
         RemoveDestroyFinalizer
  PROVE  Lives
<1>1. /\ Step /\ [Next]_vars /\ pc = "unfinalize" /\ UNCHANGED <<infra, iam, work>>
      /\ key \in HDs /\ hd \in [HDs -> Object]
  BY DEF RemoveDestroyFinalizer, Step, Next, cloudVars, workVars, TypeInv, CallInv, WorkerInv
<1>2. InCloud' = InCloud /\ Deployed' = Deployed /\ Retired' = Retired
  BY <1>1, CloudSame, DeployedSame, StepRetires
<1>3. CASE AllFollow
  BY <1>2, <1>3, HeldSame DEF Lives
<1>4. CASE /\ Store(Unfinalized) /\ Unfinalized.infraID = hd[key].infraID
           /\ Unfinalized.finalizers = {} /\ ~Unfinalized.exists
  <2>1. Held' = Held \ {key}
    BY <1>1, <1>4 DEF Store, Held
  <2>2. key \in (Held \cap Retired) \ Deployed
    <3>1. mem.deleting /\ Withdrawn(mem.infraID) /\ pc \notin Early
      BY <1>1 DEF IDInv, Guarded, Destroying, HoldInv, WithdrawnInv, Early
    <3> QED BY <3>1, KeyLife
  <2>3. InCloud[key] # {} => key \in Orphaning'
    <3> SUFFICES ASSUME hd[key].infraID \in infra \cup iam PROVE hd'[key].override = "ORPHAN"
      BY <1>1 DEF InCloud, Orphaning
    <3>1. PICK g \in HDs : /\ hd'[g].infraID = hd[key].infraID
                           /\ hd'[g].exists \/ hd'[g].override = "ORPHAN"
      BY <1>1 DEF InfraNotLeaked, AnswersFor
    <3>2. hd'[key].infraID = hd[key].infraID /\ ~hd'[key].exists /\ hd[key].infraID # NoID
      BY <1>1, <1>4, HubAssumption DEF Store, TypeInv, RestInv
    <3>3. g = key
      BY <1>1, <3>1, <3>2 DEF DistinctIDs
    <3> QED BY <3>1, <3>2, <3>3
  <2> QED BY <1>1, <1>2, <2>1, <2>2, <2>3 DEF Lives, Life!Release
<1> QED BY <1>3, <1>4, RemoveEffect

-----------------------------------------------------------------------------
(* The steps of what runs next to the worker.                              *)

LEMMA BesideLife ==
  ASSUME ReadsOwnWrites = TRUE, TypeInv, TypeInv', IDInv, DistinctIDs, DeletedRetired, Beside,
         [Next]_vars
  PROVE  Lives
<1>1. Held' = Held /\ InCloud' = InCloud
  BY BesideObjects, BesideWorker, HeldSame, CloudSame
<1>2. CASE \E h \in HDs : UserDeletes(h)
  <2>1. PICK h \in HDs : UserDeletes(h)
    BY <1>2
  <2>2. Deployed' = Deployed
    BY <2>1, DeployedSame DEF UserDeletes, workVars
  <2>3. h \notin Retired /\ Retired' = Retired \cup {h}
    <3>1. hd \in [HDs -> Object] /\ hd[h] \in Object
      BY DEF TypeInv, CallInv
    <3>2. Settle([hd[h] EXCEPT !.deleting = TRUE]).deleting
      BY <3>1 DEF Settle, Object
    <3> QED BY <2>1, <3>1, <3>2 DEF UserDeletes, WriteByOther, Retired
  <2> QED BY <1>1, <2>2, <2>3 DEF Lives, Life!Retire
<1>3. CASE \E id \in InfraIDs : AgentCleansUp(id)
  <2>1. PICK id \in InfraIDs : AgentCleansUp(id)
    BY <1>3
  <2>2. /\ hd' = hd /\ work[id].state = "deleting" /\ work' = [work EXCEPT ![id] = NoWork]
        /\ work \in [InfraIDs -> Work] /\ id # NoID
    BY <2>1, HubAssumption DEF AgentCleansUp, TypeInv, RestInv
  <2>3. work'[id].state = "absent" /\ \A i \in InfraIDs : i # id => work'[i] = work[i]
    BY <2>2 DEF NoWork
  <2>4. Retired' = Retired /\ \A h \in HDs : hd[h].infraID \in InfraIDs \cup {NoID}
    BY <2>2 DEF Retired, TypeInv, CallInv, Object
  <2>5. CASE \E h \in HDs : hd[h].infraID = id
    <3>1. PICK h \in HDs : hd[h].infraID = id
      BY <2>5
    <3>2. \A g \in HDs : g # h => hd[g].infraID # id
      BY <2>2, <3>1 DEF DistinctIDs
    <3>3. h \in Deployed \cap Retired
      BY <2>2, <3>1 DEF DeletedRetired, Deployed, Retired
    <3>4. Deployed' = Deployed \ {h}
      BY <2>2, <2>3, <2>4, <3>1, <3>2 DEF Deployed
    <3> QED BY <1>1, <2>4, <3>3, <3>4 DEF Lives, Life!Withdraw
  <2>6. CASE ~(\E h \in HDs : hd[h].infraID = id)
    <3>1. Deployed' = Deployed
      BY <2>2, <2>3, <2>4, <2>6 DEF Deployed
    <3> QED BY <1>1, <2>4, <3>1 DEF Lives
  <2> QED BY <2>5, <2>6
<1>4. CASE \/ UNCHANGED vars \/ Crash
           \/ \E h \in HDs : Start(h) \/ ObserveObject(h) \/ Resync(h) \/ UserEdits(h)
           \/ \E id \in InfraIDs : ObserveWork(id) \/ AgentApplies(id)
  <2>1. \A h \in HDs : hd'[h].deleting = hd[h].deleting
    <3>1. ASSUME NEW h \in HDs, UserEdits(h) PROVE \A g \in HDs : hd'[g].deleting = hd[g].deleting
      BY <3>1 DEF UserEdits, WriteByOther, TypeInv, CallInv, Object
    <3> QED BY <1>4, <3>1 DEF vars, Crash, Start, ObserveObject, Resync, ObserveWork, AgentApplies
  <2>2. \A i \in InfraIDs : (work'[i].state = "absent") = (work[i].state = "absent")
    <3>1. ASSUME NEW id \in InfraIDs, AgentApplies(id)
          PROVE  \A i \in InfraIDs : work'[i].state = work[i].state
      BY <3>1 DEF AgentApplies, TypeInv, RestInv, Work
    <3> QED BY <1>4, <3>1 DEF vars, workVars, Crash, Start, ObserveObject, Resync, UserEdits, ObserveWork
  <2> QED BY <1>1, <2>1, <2>2, DeployedSame DEF Lives, Retired
<1> QED BY <1>2, <1>3, <1>4 DEF Beside

(***************************************************************************)
(* On AWS the main reconciler implements DeploymentLife: whatever fails,   *)
(* whenever the process dies and from whatever copy it works, an object is *)
(* held before anything is built for it, its cloud resources are complete  *)
(* before its ManifestWork is there, that is withdrawn before they are     *)
(* demolished, and the object is released when nothing is left of it or    *)
(* its user wants it orphaned.                                             *)
(***************************************************************************)
THEOREM LifeImplemented ==
  ASSUME Platform = "AWS", ReadsOwnWrites = TRUE, "INFRA-ONLY" \notin UserOverrides
  PROVE  Spec /\ DistinctIDs => ImplementsLife
<1>1. ASSUME Init PROVE Life!LifeInit /\ DeletedRetired
  <2>1. \A h \in HDs : hd[h].finalizers = {} /\ ~hd[h].deleting
                       /\ hd[h].infraID \in InfraIDs \cup {NoID}
    BY <1>1, HubAssumption DEF Init, Object
  <2>2. \A id \in InfraIDs : work[id].state = "absent"
    BY <1>1 DEF Init, NoWork
  <2>3. Held = {} /\ Retired = {} /\ Deployed = {} /\ InCloud = [h \in HDs |-> {}]
    BY <1>1, <2>1, <2>2 DEF Init, Held, Retired, Deployed, InCloud
  <2>4. Orphaning \subseteq HDs
    BY DEF Orphaning
  <2> QED BY <2>2, <2>3, <2>4 DEF Life!LifeInit, DeletedRetired
<1>2. ASSUME TypeInv, TypeInv', IDInv, DistinctIDs, DistinctIDs', HoldInv, CloudReady,
             InfraNotLeaked', DeletedRetired, [Next]_vars
      PROVE  [Life!LifeNext]_Life!lifeVars /\ DeletedRetired'
  <2>1. Lives
    BY <1>2, NextSplit, StepSplit, OrdinaryLife, FinalizerLife, ReleaseLife, BesideLife
  <2> QED BY <1>2, <2>1, LivesOn, RetiredKept
<1> QED BY <1>1, <1>2, TypeInvariant, IDInvariant, DistinctInvariant, HoldInvariant,
           CloudReadyInvariant, AWSInfraNotLeaked, PTL DEF Spec, ImplementsLife, Life!LifeSpec
=============================================================================
