---------------------------- MODULE ImportProofs ----------------------------
(***************************************************************************)
(* The safety of the auto-import controller next to the main one, for      *)
(* every set of objects and ManagedClusters and every number of faults and *)
(* acts of users.  The main controller's steps have the types that         *)
(* ReconcilerTypes proves; this controller's are sorted into what they do  *)
(* to the worker, to the objects and to the clusters.                      *)
(***************************************************************************)
EXTENDS Hub, ReconcilerTypes

ImportTypes == TypeInv /\ ImportTypeOK

LEMMA ImportFaultType ==
  ASSUME ImportTypes, NEW allowed, Fault \/ NoFault \/ FaultIf(allowed) \/ UNCHANGED faults
  PROVE  faults' \in 0..MaxFaults
BY FaultType DEF ImportTypes, TypeInv, CallInv

LEMMA ObjectTypes ==
  ASSUME ImportTypes
  PROVE  /\ hd \in [HDs -> Object] /\ cache \in [HDs -> Object]
         /\ importKey \in HDs /\ importMem \in Object
BY DEF ImportTypes, TypeInv, CallInv, RestInv, ImportTypeOK

\* A reconcile that ends, with or without another to follow.
LEMMA EndTypes ==
  ASSUME ImportTypeOK, ImportDone \/ ImportRequeue
  PROVE  /\ importQueue' \subseteq HDs /\ importPc' = "idle" /\ importKey' = importKey
         /\ importMem' = ZeroObject /\ ZeroObject \in Object
BY DEF ImportTypeOK, ImportDone, ImportRequeue, ImportReturn, ZeroObject, Object, Overrides

\* The copies that the three patches of this controller send.
Copies == {[importMem EXCEPT !.finalizers = @ \cup {ManagedClusterCleanupFinalizer}],
           [importMem EXCEPT !.createMC = "false"],
           [importMem EXCEPT !.finalizers = @ \ {ManagedClusterCleanupFinalizer}]}

LEMMA CopiesType == ASSUME ImportTypes PROVE Copies \subseteq Object
BY ObjectTypes DEF Copies, Object, Finalizers, ManagedClusterCleanupFinalizer

LEMMA PatchEffect ==
  ASSUME ImportTypes, NEW c \in Copies, ImportPatch(c)
  PROVE  /\ importQueue' \subseteq HDs /\ importPc' = "idle" /\ importKey' = importKey
         /\ importMem' = ZeroObject /\ ZeroObject \in Object
         /\ faults' \in 0..MaxFaults
         /\ \/ hd' = hd
            \/ hd' = [hd EXCEPT ![importKey] = Patched(hd[importKey], importMem, c)]
BY EndTypes, ImportFaultType DEF ImportPatch, ImportTypes

-----------------------------------------------------------------------------
(* What a step of the worker does.                                         *)

\* What the cache says lets the finalizer go.
CleanInCache ==
  \/ clusterCache[name].state = "absent"
  \/ clusterCache[name].state = "deleting" /\ ~clusterCache[name].works

\* The patches of a step; the one of a deletion is sent when the cluster looks clean.
PatchesObject ==
  /\ \E c \in Copies : hd' = [hd EXCEPT ![importKey] = Patched(hd[importKey], importMem, c)]
  /\ importPc = "delete" => CleanInCache

\* The worker's own step in its reconcile: it goes on with its copy, or ends.
Moves ==
  /\ importKey' = importKey
  /\ \/ importPc' = "idle" /\ importMem' = ZeroObject
     \/ importPc' \in ImportSteps /\ importMem' = importMem
  /\ importPc' = "delete" => importPc = "decide"
  /\ importPc' # "decide"

\* And the writes to a ManagedCluster.
MakesCluster ==
  /\ importPc = "ensure" /\ clusters[name].state = "absent"
  /\ clusters' = [clusters EXCEPT ![name] = [NoCluster EXCEPT !.state = "present", !.owner = importKey]]

ClaimsCluster ==
  /\ importPc = "ensure" /\ clusters[name].state # "absent"
  /\ clusters' = [clusters EXCEPT ![name].owner = importKey]

DeletesCluster ==
  /\ importPc = "delete" /\ clusters[name].state # "absent"
  /\ clusters' = [clusters EXCEPT ![name].state = "deleting"]

ImportWorker ==
  /\ importPc # "idle" /\ Moves
  /\ importQueue' \subseteq HDs /\ faults' \in 0..MaxFaults
  /\ hd' = hd \/ PatchesObject
  /\ clusters' = clusters \/ MakesCluster \/ ClaimsCluster \/ DeletesCluster
  /\ UNCHANGED <<clusterCache, kubeconfigs>>

LEMMA GotoMoves ==
  ASSUME ImportTypes, NEW step, ImportGoto(step), step \in ImportSteps,
         step = "delete" => importPc = "decide", step # "decide"
  PROVE  Moves /\ importQueue' \subseteq HDs
BY DEF ImportGoto, Moves, ImportTypes, ImportTypeOK

LEMMA EndMoves ==
  ASSUME ImportTypes, ImportDone \/ ImportRequeue PROVE Moves /\ importQueue' \subseteq HDs
BY EndTypes DEF Moves, ImportTypes

LEMMA EnsureWorks == ASSUME ImportTypes, EnsureCluster PROVE ImportWorker
<1>1. importPc = "ensure" /\ UNCHANGED <<hd, clusterCache, kubeconfigs>>
  BY DEF EnsureCluster
<1>2. ASSUME NEW joined, AfterEnsure(joined) PROVE Moves /\ importQueue' \subseteq HDs
  BY <1>2, GotoMoves DEF AfterEnsure, ImportSteps
<1>3. CASE EnsureAdmitted /\ CreateCluster /\ NoFault
  BY <1>1, <1>2, <1>3, ImportFaultType DEF CreateCluster, EnsureAdmitted, MakesCluster, ImportWorker
<1>4. CASE EnsureAdmitted /\ ClaimCluster /\ NoFault
  BY <1>1, <1>2, <1>4, ImportFaultType DEF ClaimCluster, EnsureAdmitted, ClaimsCluster, ImportWorker
<1>5. CASE FaultIf(EnsureAdmitted) /\ ImportRequeue /\ UNCHANGED clusters
  BY <1>1, <1>5, EndMoves, ImportFaultType DEF ImportWorker
<1> QED BY <1>3, <1>4, <1>5 DEF EnsureCluster

LEMMA PatchMoves ==
  ASSUME ImportTypes, NEW c \in Copies, ImportPatch(c)
  PROVE  Moves /\ importQueue' \subseteq HDs /\ faults' \in 0..MaxFaults
BY PatchEffect DEF Moves

LEMMA DeleteWorks == ASSUME ImportTypes, DeleteManagedCluster PROVE ImportWorker
<1>1. importPc = "delete" /\ UNCHANGED <<clusterCache, kubeconfigs>>
  BY DEF DeleteManagedCluster
<1>2. CASE /\ RemoveFinalizer /\ UNCHANGED clusters
           /\ \/ clusterCache[name].state = "absent"
              \/ clusterCache[name].state = "deleting" /\ ~WorksRemain
  <2>1. CASE ImportDone /\ UNCHANGED <<hd, faults>>
    BY <1>1, <1>2, <2>1, EndMoves, ImportFaultType DEF ImportWorker
  <2>2. CASE ImportPatch([importMem EXCEPT !.finalizers = @ \ {ManagedClusterCleanupFinalizer}])
    <3> DEFINE c == [importMem EXCEPT !.finalizers = @ \ {ManagedClusterCleanupFinalizer}]
    <3>1. c \in Copies
      BY DEF Copies, ImportTypes, ImportTypeOK, Object
    <3> HIDE DEF c
    <3>2. ImportPatch(c)
      BY <2>2 DEF c
    <3> QED BY <1>1, <1>2, <3>1, <3>2, PatchEffect, PatchMoves DEF ImportWorker, PatchesObject, CleanInCache, WorksRemain
  <2> QED BY <1>2, <2>1, <2>2 DEF RemoveFinalizer
<1>3. CASE WaitForCluster /\ UNCHANGED <<hd, faults, clusters>>
  BY <1>1, <1>3, EndMoves, ImportFaultType DEF WaitForCluster, ImportWorker
<1>4. CASE /\ UNCHANGED hd
           /\ \/ /\ clusters[name].state # "absent" /\ NoFault
                 /\ clusters' = [clusters EXCEPT ![name].state = "deleting"]
                 /\ WaitForCluster
              \/ FaultIf(clusters[name].state # "absent") /\ UNCHANGED clusters /\ ImportRequeue
  BY <1>1, <1>4, EndMoves, ImportFaultType DEF WaitForCluster, DeletesCluster, ImportWorker
<1> QED BY <1>2, <1>3, <1>4 DEF DeleteManagedCluster

LEMMA StepWorks == ASSUME ImportTypes, ImportStep PROVE ImportWorker
<1>1. CASE Decide
  BY <1>1, GotoMoves, EndMoves, ImportFaultType DEF Decide, clusterVars, ImportSteps, ImportWorker
<1>2. CASE SetFinalizer
  <2> DEFINE c == [importMem EXCEPT !.finalizers = @ \cup {ManagedClusterCleanupFinalizer}]
  <2>1. c \in Copies
    BY DEF Copies, ImportTypes, ImportTypeOK, Object
  <2> HIDE DEF c
  <2>2. importPc = "finalizer" /\ ImportPatch(c) /\ UNCHANGED clusterVars
    BY <1>2 DEF SetFinalizer, c
  <2> QED BY <2>1, <2>2, PatchEffect, PatchMoves DEF ImportWorker, PatchesObject, clusterVars
<1>3. CASE WaitForKubeconfig
  BY <1>3, GotoMoves, EndMoves, ImportFaultType DEF WaitForKubeconfig, clusterVars, ImportSteps, ImportWorker
<1>4. CASE AnnotateFalse
  <2> DEFINE c == [importMem EXCEPT !.createMC = "false"]
  <2>1. c \in Copies
    BY DEF Copies, ImportTypes, ImportTypeOK, Object
  <2> HIDE DEF c
  <2>2. importPc = "annotate" /\ ImportPatch(c) /\ UNCHANGED clusterVars
    BY <1>4 DEF AnnotateFalse, c
  <2> QED BY <2>1, <2>2, PatchEffect, PatchMoves DEF ImportWorker, PatchesObject, clusterVars
<1> QED BY <1>1, <1>2, <1>3, <1>4, EnsureWorks, DeleteWorks DEF ImportStep

-----------------------------------------------------------------------------
(* What everybody else does to the clusters.                               *)

\* A cluster as users and the cluster manager leave it.
ClusterMoves(n) ==
  \/ clusters'[n] = clusters[n]
  \/ /\ clusters[n].state = "absent"                                      \* a user imports it
     /\ clusters'[n] = [NoCluster EXCEPT !.state = "present"]
  \/ /\ clusters[n].state = "present" /\ interventions' # interventions   \* a user detaches it
     /\ clusters'[n] = [clusters[n] EXCEPT !.state = "deleting"]
  \/ /\ clusters[n].state = "present"                                     \* it joins
     /\ clusters'[n] = [clusters[n] EXCEPT !.joined = TRUE, !.works = TRUE]
  \/ /\ clusters[n].state = "deleting"                                    \* it is cleaned up
     /\ clusters'[n] \in {[clusters[n] EXCEPT !.works = FALSE], NoCluster}

Around ==
  /\ UNCHANGED importWorker
  /\ importQueue' \subseteq HDs /\ kubeconfigs' \subseteq HDs /\ interventions' \in 0..MaxInterventions
  /\ clusters' = [n \in Names |-> clusters'[n]] /\ \A n \in Names : ClusterMoves(n)
  /\ clusterCache' \in [Names -> Cluster]
  /\ \A n \in Names : clusterCache'[n] = clusterCache[n]
                      \/ (clusterCache'[n] = clusters[n] /\ clusters'[n] = clusters[n])

\* The clusters stay as they are.
LEMMA ClustersStay ==
  ASSUME ImportTypes, UNCHANGED <<importWorker, clusterVars, interventions>>, importQueue' \subseteq HDs
  PROVE  Around
BY DEF Around, ClusterMoves, clusterVars, ImportTypes, ImportTypeOK

\* One cluster is replaced.
LEMMA OneCluster ==
  ASSUME ImportTypes, NEW n \in Names, NEW c, clusters' = [clusters EXCEPT ![n] = c],
         clusters'[n] = c => ClusterMoves(n),
         UNCHANGED <<importWorker, importQueue, clusterCache, kubeconfigs>>,
         interventions' \in 0..MaxInterventions
  PROVE  Around
<1>1. /\ clusters' = [k \in Names |-> clusters'[k]] /\ clusters'[n] = c
      /\ \A k \in Names \ {n} : clusters'[k] = clusters[k]
  BY DEF ImportTypes, ImportTypeOK
<1>2. \A k \in Names : ClusterMoves(k)
  BY <1>1 DEF ClusterMoves
<1>3. /\ importQueue' \subseteq HDs /\ kubeconfigs' \subseteq HDs
      /\ clusterCache' \in [Names -> Cluster] /\ clusterCache' = clusterCache
  BY DEF ImportTypes, ImportTypeOK
<1> QED BY <1>1, <1>2, <1>3 DEF Around

LEMMA InterveneType ==
  ASSUME ImportTypes, Intervene PROVE interventions' \in 0..MaxInterventions /\ interventions' # interventions
BY AutoImportAssumption DEF Intervene, ImportTypes, ImportTypeOK

LEMMA ManagerMoves == ASSUME ImportTypes, ClustersChange PROVE Around
<1>1. UNCHANGED importWorker
  BY DEF ClustersChange, AroundThem
<1>2. ASSUME NEW n \in Names, ObserveCluster(n) PROVE Around
  BY <1>1, <1>2 DEF ObserveCluster, Around, ClusterMoves, ImportTypes, ImportTypeOK
<1>3. ASSUME NEW h \in HDs, Synced(h) PROVE Around
  BY <1>1, <1>3 DEF Synced, KubeconfigSynced, Around, ClusterMoves, ImportTypes, ImportTypeOK
<1>4. ASSUME NEW n \in Names, ClusterChanges(n) PROVE Around
  <2>1. UNCHANGED <<importWorker, importQueue, clusterCache, kubeconfigs, interventions>>
    BY <1>1, <1>4 DEF ClusterChanges
  <2>2. CASE /\ clusters[n].state = "present"
             /\ clusters' = [clusters EXCEPT ![n].joined = TRUE, ![n].works = TRUE]
    <3>1. clusters' = [clusters EXCEPT ![n] = [clusters[n] EXCEPT !.joined = TRUE, !.works = TRUE]]
      BY <2>2 DEF ImportTypes, ImportTypeOK
    <3> QED BY <2>1, <2>2, <3>1, OneCluster DEF ClusterMoves, ImportTypes, ImportTypeOK
  <2>3. CASE /\ clusters[n].state = "deleting"
             /\ clusters' = [clusters EXCEPT ![n] = IF @.works THEN [@ EXCEPT !.works = FALSE] ELSE NoCluster]
    <3> DEFINE c == IF clusters[n].works THEN [clusters[n] EXCEPT !.works = FALSE] ELSE NoCluster
    <3>1. clusters' = [clusters EXCEPT ![n] = c] /\ c \in {[clusters[n] EXCEPT !.works = FALSE], NoCluster}
      BY <2>3
    <3> HIDE DEF c
    <3> QED BY <2>1, <2>3, <3>1, OneCluster DEF ClusterMoves, ImportTypes, ImportTypeOK
  <2> QED BY <1>4, <2>2, <2>3 DEF ClusterChanges
<1> QED BY <1>2, <1>3, <1>4 DEF ClustersChange

LEMMA UsersMove == ASSUME ImportTypes, UsersAct PROVE Around /\ hd' \in [HDs -> Object]
<1> USE InterveneType
<1>0. UNCHANGED importWorker
  BY DEF UsersAct, AroundThem
<1>1. ASSUME NEW n \in Names, UNCHANGED hd, UserImports(n) PROVE Around /\ hd' \in [HDs -> Object]
  BY <1>0, <1>1, OneCluster, ObjectTypes DEF UserImports, ClusterMoves
<1>2. ASSUME NEW n \in Names, UNCHANGED hd, UserDetaches(n) PROVE Around /\ hd' \in [HDs -> Object]
  <2>1. clusters' = [clusters EXCEPT ![n] = [clusters[n] EXCEPT !.state = "deleting"]]
    BY <1>2 DEF UserDetaches, ImportTypes, ImportTypeOK
  <2> QED BY <1>0, <1>2, <2>1, OneCluster, ObjectTypes DEF UserDetaches, ClusterMoves
<1>3. ASSUME NEW h \in HDs, UserAnnotates(h) PROVE Around /\ hd' \in [HDs -> Object]
  <2> PICK a \in UserAnnotations : hd' = [hd EXCEPT ![h].createMC = a]
    BY <1>3 DEF UserAnnotates
  <2>1. [hd[h] EXCEPT !.createMC = a] \in Object
    BY ObjectTypes, AutoImportAssumption DEF Object
  <2>2. hd' \in [HDs -> Object]
    BY <2>1, ObjectTypes
  <2> QED BY <1>0, <1>3, <2>2 DEF UserAnnotates, Around, ClusterMoves, clusterVars, ImportTypes, ImportTypeOK
<1> QED BY <1>1, <1>2, <1>3 DEF UsersAct

-----------------------------------------------------------------------------
(* The four kinds of steps.                                                *)

Begins(h) ==
  /\ importPc = "idle" /\ importKey' = h
  /\ ReadsOwnWrites => clusterCache = clusters
  /\ importQueue' \subseteq HDs
  /\ \/ importPc' = "decide" /\ importMem' = cache[h]
     \/ importPc' = "idle" /\ importMem' = importMem
  /\ UNCHANGED <<hd, faults, clusterVars, interventions>>

Dies == /\ importPc' = "idle" /\ importMem' = ZeroObject /\ importKey' = importKey
        /\ importQueue' \subseteq HDs
        /\ UNCHANGED <<hd, clusterVars, interventions>>

LEMMA HubSteps ==
  ASSUME ImportTypes, [HubNext]_hubVars
  PROVE  \/ ImportWorker /\ NotByMain /\ UNCHANGED interventions
         \/ \E h \in HDs : Begins(h) /\ NotByMain
         \/ Dies
         \/ Around
<1>1. CASE ImportRuns
  <2>1. CASE ImportStep
    BY <1>1, <2>1, StepWorks DEF ImportRuns
  <2>2. ASSUME NEW h \in HDs, ImportStart(h) PROVE Begins(h)
    BY <1>1, <2>2 DEF ImportRuns, ImportStart, Begins, ImportTypes, ImportTypeOK
  <2>3. ASSUME NEW h \in HDs, ImportResync(h) PROVE Around
    BY <1>1, <2>3, ClustersStay DEF ImportRuns, ImportResync, ImportTypes, ImportTypeOK
  <2> QED BY <1>1, <2>1, <2>2, <2>3 DEF ImportRuns
<1>2. CASE MainRuns \/ UNCHANGED hubVars
  BY <1>2, ClustersStay DEF MainRuns, hubVars, importVars, ImportTypes, ImportTypeOK
<1>3. ASSUME NEW h \in HDs, BothObserve(h) PROVE Around
  BY <1>3, ClustersStay DEF BothObserve, ImportTypes, ImportTypeOK
<1>4. CASE ManagerCrash
  BY <1>4 DEF ManagerCrash, ImportReturn, Dies
<1> QED BY <1>1, <1>2, <1>3, <1>4, ManagerMoves, UsersMove DEF HubNext

-----------------------------------------------------------------------------
(* Types.                                                                  *)

LEMMA ClusterTypes ==
  /\ NoCluster \in Cluster /\ NoCluster.owner = NoOwner /\ NoCluster.state = "absent" /\ ~NoCluster.works
  /\ \A c \in Cluster : /\ [c EXCEPT !.state = "deleting"] \in Cluster
                        /\ [c EXCEPT !.joined = TRUE, !.works = TRUE] \in Cluster
                        /\ [c EXCEPT !.works = FALSE] \in Cluster
                        /\ [c EXCEPT !.state = "present"] \in Cluster
                        /\ \A h \in HDs : [c EXCEPT !.owner = h] \in Cluster
                        /\ \A h \in HDs : [c EXCEPT !.state = "present", !.owner = h] \in Cluster
BY DEF Cluster, NoCluster

LEMMA NamesOfKey == ASSUME ImportTypes PROVE name \in Names /\ importKey \in HDs /\ NoOwner \notin HDs
BY AutoImportAssumption, HubAssumption DEF name, ImportTypes, ImportTypeOK

LEMMA WorkerTypes ==
  ASSUME ImportTypes, ImportWorker, UNCHANGED interventions
  PROVE  ImportTypeOK' /\ hd' \in [HDs -> Object]
<1>1. hd' \in [HDs -> Object]
  <2>1. ASSUME NEW c \in Copies, hd' = [hd EXCEPT ![importKey] = Patched(hd[importKey], importMem, c)]
        PROVE  hd' \in [HDs -> Object]
    <3>1. Patched(hd[importKey], importMem, c) \in Object
      BY CopiesType, ObjectTypes, PatchedType
    <3> QED BY <2>1, <3>1, ObjectTypes
  <2> QED BY <2>1, ObjectTypes DEF ImportWorker, PatchesObject
<1>2. importPc' \in ImportSteps /\ importKey' \in HDs /\ importMem' \in Object
  BY ZeroObjectType DEF ImportWorker, Moves, ImportTypes, ImportTypeOK, ImportSteps
<1>3. clusters' \in [Names -> Cluster]
  <2>1. name \in Names /\ importKey \in HDs /\ clusters \in [Names -> Cluster]
    BY NamesOfKey DEF ImportTypes, ImportTypeOK
  <2>2. CASE MakesCluster
    BY <2>1, <2>2, ClusterTypes DEF MakesCluster
  <2>3. CASE ClaimsCluster
    <3>1. clusters' = [clusters EXCEPT ![name] = [clusters[name] EXCEPT !.owner = importKey]]
      BY <2>3 DEF ClaimsCluster
    <3> QED BY <2>1, <3>1, ClusterTypes
  <2>4. CASE DeletesCluster
    <3>1. clusters' = [clusters EXCEPT ![name] = [clusters[name] EXCEPT !.state = "deleting"]]
      BY <2>4 DEF DeletesCluster
    <3> QED BY <2>1, <3>1, ClusterTypes
  <2> QED BY <2>1, <2>2, <2>3, <2>4 DEF ImportWorker
<1> QED BY <1>1, <1>2, <1>3 DEF ImportWorker, ImportTypes, ImportTypeOK

LEMMA AroundTypes == ASSUME ImportTypes, Around PROVE ImportTypeOK'
<1>1. ASSUME NEW n \in Names PROVE clusters'[n] \in Cluster
  <2>1. clusters[n] \in Cluster /\ ClusterMoves(n)
    BY DEF Around, ImportTypes, ImportTypeOK
  <2> QED BY <2>1, ClusterTypes DEF ClusterMoves
<1> QED BY <1>1 DEF Around, importWorker, ImportTypes, ImportTypeOK

LEMMA ImportTypeStep == ASSUME ImportTypes, [HubNext]_hubVars PROVE ImportTypeOK'
<1>1. ASSUME NEW h \in HDs, Begins(h) PROVE ImportTypeOK'
  BY <1>1, ObjectTypes DEF Begins, clusterVars, ImportTypes, ImportTypeOK, ImportSteps
<1>2. CASE Dies
  BY <1>2, ZeroObjectType DEF Dies, clusterVars, ImportTypes, ImportTypeOK, ImportSteps
<1> QED BY <1>1, <1>2, HubSteps, WorkerTypes, AroundTypes

\* The main controller takes no part in the step.
LEMMA AsideType ==
  ASSUME ImportTypes, NotByMain, hd' \in [HDs -> Object], faults' \in 0..MaxFaults PROVE TypeInv'
BY DEF NotByMain, cloudVars, workVars, ImportTypes, TypeInv, CallInv, WorkerInv, RestInv, IDChosen

LEMMA MainTypeStep == ASSUME ImportTypes, [HubNext]_hubVars PROVE TypeInv'
<1>1. CASE MainRuns \/ (\E h \in HDs : BothObserve(h)) \/ UNCHANGED hubVars
  <2>1. [Next]_vars
    BY <1>1 DEF MainRuns, BothObserve, Next, hubVars
  <2> QED BY <2>1, NextType DEF ImportTypes
<1>2. CASE ImportRuns
  <2>1. NotByMain
    BY <1>2 DEF ImportRuns
  <2>2. hd' \in [HDs -> Object] /\ faults' \in 0..MaxFaults
    <3>1. CASE ImportStep
      <4>1. ImportWorker /\ UNCHANGED interventions
        BY <1>2, <3>1, StepWorks DEF ImportRuns
      <4> QED BY <4>1, WorkerTypes DEF ImportWorker
    <3>2. CASE \E h \in HDs : ImportStart(h) \/ ImportResync(h)
      BY <3>2, ObjectTypes, ImportFaultType DEF ImportStart, ImportResync
    <3> QED BY <1>2, <3>1, <3>2 DEF ImportRuns
  <2> QED BY <2>1, <2>2, AsideType
<1>3. CASE ManagerCrash
  <2>1. WorkerInv'
    BY <1>3, ZeroObjectType DEF ManagerCrash, Return, ImportTypes, TypeInv, CallInv, WorkerInv, Steps, IDChosen, Early
  <2>2. faults' \in 0..MaxFaults
    BY <1>3, ImportFaultType DEF ManagerCrash
  <2> QED BY <1>3, <2>1, <2>2 DEF ManagerCrash, ImportTypes, TypeInv, CallInv, RestInv, cloudVars, workVars
<1>4. CASE ClustersChange
  BY <1>4, ObjectTypes, ImportFaultType, AsideType DEF ClustersChange, AroundThem
<1>5. CASE UsersAct
  BY <1>5, UsersMove, ImportFaultType, AsideType DEF UsersAct, AroundThem
<1> QED BY <1>1, <1>2, <1>3, <1>4, <1>5 DEF HubNext

LEMMA HubInitTypes == ASSUME HubInit PROVE ImportTypes
<1>1. TypeInv
  BY InitType DEF HubInit
<1>2. clusters \in [Names -> Cluster] /\ clusterCache = clusters
  BY ClusterTypes DEF HubInit, ImportInit
<1>3. interventions \in 0..MaxInterventions
  BY AutoImportAssumption DEF HubInit, ImportInit
<1> QED BY <1>1, <1>2, <1>3, ZeroObjectType DEF HubInit, ImportInit, ImportTypes, ImportTypeOK, ImportSteps

LEMMA HubTypes == HubSpec => []ImportTypes
<1>1. ImportTypes /\ [HubNext]_hubVars => ImportTypes'
  BY ImportTypeStep, MainTypeStep DEF ImportTypes
<1> QED BY <1>1, HubInitTypes, PTL DEF HubSpec

(***************************************************************************)
(* The state of the auto-import controller is well typed when it runs next *)
(* to the main one: its queue holds only keys of objects, whatever secrets *)
(* wake it, and its copy and its patches are objects.                      *)
(***************************************************************************)
THEOREM ImportTypeCorrect == HubSpec => []ImportTypeOK
<1>1. ImportTypes => ImportTypeOK
  BY DEF ImportTypes
<1> QED BY <1>1, HubTypes, PTL

-----------------------------------------------------------------------------
(* The inductive invariant.                                                *)

\* A ManagedCluster that is not there has no owner.
ClusterInv == \A n \in Names : clusters[n].state = "absent" => clusters[n].owner = NoOwner

(***************************************************************************)
(* RemovedSafely is not inductive: the finalizer goes on the word of the   *)
(* cache, and the cluster it speaks of may have changed since.  But it can *)
(* only get cleaner: one that was gone when the reconcile began comes back *)
(* without an owner, since only "ensure" makes one for an object, and one  *)
(* that was on its way out does not join again.                            *)
(***************************************************************************)
CleanInv ==
  importPc \in {"decide", "delete"} /\ CleanInCache /\ clusters[name].owner = importKey
  => clusters[name].state # "present" /\ ~clusters[name].works

\* The clusters after a step of the worker.
LEMMA WorkerClusters ==
  ASSUME ImportTypes, ImportWorker, NEW n \in Names
  PROVE  \/ clusters'[n] = clusters[n]
         \/ /\ n = name /\ importPc = "ensure" /\ clusters[n].state = "absent"
            /\ clusters'[n].state = "present" /\ clusters'[n].owner = importKey
         \/ /\ n = name /\ importPc = "ensure" /\ clusters[n].state # "absent"
            /\ clusters'[n].state = clusters[n].state /\ clusters'[n].owner = importKey
         \/ /\ n = name /\ importPc = "delete" /\ clusters[n].state # "absent"
            /\ clusters'[n].state = "deleting" /\ clusters'[n].owner = clusters[n].owner
            /\ clusters'[n].works = clusters[n].works
<1>1. name \in Names /\ clusters \in [Names -> Cluster]
  BY NamesOfKey DEF ImportTypes, ImportTypeOK
<1>2. CASE MakesCluster
  BY <1>1, <1>2 DEF MakesCluster, NoCluster
<1>3. CASE ClaimsCluster
  BY <1>1, <1>3 DEF ClaimsCluster, Cluster
<1>4. CASE DeletesCluster
  BY <1>1, <1>4 DEF DeletesCluster, Cluster
<1> QED BY <1>2, <1>3, <1>4 DEF ImportWorker

\* A cluster after a step of anyone else.
LEMMA AroundClusters ==
  ASSUME ImportTypes, Around, NEW n \in Names
  PROVE  \/ clusters'[n] = clusters[n]
         \/ clusters[n].state = "absent" /\ clusters'[n].state = "present" /\ clusters'[n].owner = NoOwner
         \/ /\ clusters[n].state = "present" /\ interventions' # interventions
            /\ clusters'[n].state = "deleting" /\ clusters'[n].owner = clusters[n].owner
            /\ clusters'[n].works = clusters[n].works
         \/ /\ clusters[n].state = "present" /\ clusters'[n].state = "present"
            /\ clusters'[n].owner = clusters[n].owner
         \/ /\ clusters[n].state = "deleting" /\ clusters'[n].state = "deleting"
            /\ clusters'[n].owner = clusters[n].owner /\ ~clusters'[n].works
         \/ clusters[n].state = "deleting" /\ clusters'[n] = NoCluster
<1>1. clusters[n] \in Cluster /\ ClusterMoves(n)
  BY DEF Around, ImportTypes, ImportTypeOK
<1> QED BY <1>1 DEF ClusterMoves, Cluster, NoCluster

LEMMA ClusterStep ==
  ASSUME ImportTypes, ClusterInv, [HubNext]_hubVars PROVE ClusterInv'
<1>1. CASE ImportWorker
  BY <1>1, WorkerClusters, NamesOfKey DEF ClusterInv
<1>2. CASE Around
  BY <1>2, AroundClusters, ClusterTypes DEF ClusterInv
<1>3. CASE UNCHANGED clusters
  BY <1>3 DEF ClusterInv
<1> QED BY <1>1, <1>2, <1>3, HubSteps DEF Begins, Dies, clusterVars

LEMMA CleanStep ==
  ASSUME ReadsOwnWrites, ImportTypes, ClusterInv, CleanInv, [HubNext]_hubVars PROVE CleanInv'
<1> USE NamesOfKey
<1>1. CASE ImportWorker
  <2>1. SUFFICES ASSUME importPc' \in {"decide", "delete"} PROVE CleanInv'
    BY DEF CleanInv
  <2>2. importPc = "decide" /\ importKey' = importKey /\ UNCHANGED clusterCache
    BY <1>1, <2>1 DEF ImportWorker, Moves
  <2>3. clusters' = clusters
    BY <1>1, <2>2 DEF ImportWorker, MakesCluster, ClaimsCluster, DeletesCluster
  <2> QED BY <2>2, <2>3 DEF CleanInv, CleanInCache, name
<1>2. CASE Around
  <2>1. UNCHANGED <<importPc, importKey>>
    BY <1>2 DEF Around, importWorker
  <2>2. \/ clusterCache'[name] = clusterCache[name]
        \/ clusterCache'[name] = clusters[name] /\ clusters'[name] = clusters[name]
    BY <1>2 DEF Around
  <2>3. CASE clusterCache'[name] = clusterCache[name]
    BY <1>2, <2>1, <2>3, AroundClusters, ClusterTypes DEF CleanInv, CleanInCache, name
  <2>4. CASE clusterCache'[name] = clusters[name] /\ clusters'[name] = clusters[name]
    BY <2>1, <2>4 DEF ClusterInv, CleanInv, CleanInCache, name
  <2> QED BY <2>2, <2>3, <2>4
<1>3. ASSUME NEW h \in HDs, Begins(h) PROVE CleanInv'
  <2>1. importKey' = h /\ clusterCache' = clusters /\ clusters' = clusters /\ ClusterName[h] \in Names
    BY <1>3, AutoImportAssumption DEF Begins, clusterVars
  <2> QED BY <2>1 DEF ClusterInv, CleanInv, CleanInCache, name
<1>4. CASE Dies
  BY <1>4 DEF Dies, CleanInv
<1> QED BY <1>1, <1>2, <1>3, <1>4, HubSteps

-----------------------------------------------------------------------------
LEMMA RemovalStep ==
  ASSUME ImportTypes, CleanInv, [HubNext]_hubVars, NEW h \in HDs,
         importPc = "delete", importPc' = "idle",
         ManagedClusterCleanupFinalizer \in hd[h].finalizers \ hd'[h].finalizers,
         clusters[ClusterName[h]].owner = h
  PROVE  clusters[ClusterName[h]].state # "present" /\ ~clusters[ClusterName[h]].works
<1>1. ImportWorker
  BY HubSteps DEF Begins, Dies, Around, importWorker
<1>2. h = importKey /\ CleanInCache
  BY <1>1, ObjectTypes DEF ImportWorker, PatchesObject
<1> QED BY <1>2 DEF CleanInv, name

(***************************************************************************)
(* "Now the manifestworks of the managed cluster are deleted, the managed  *)
(* cluster finalizer can be removed safely": the worker of this controller *)
(* takes the finalizer off only when the ManagedCluster made for the       *)
(* object is on its way out and has no ManifestWorks, with any number of   *)
(* objects that share a name, next to a main controller that writes the    *)
(* same list.  It assumes that reconciles begin on caches that are caught  *)
(* up with what is in the API server; within the reconcile they may lag.   *)
(***************************************************************************)
THEOREM FinalizerRemovedSafely ==
  ASSUME ReadsOwnWrites = TRUE PROVE HubSpec => RemovedSafely
<1>1. HubInit => ClusterInv /\ CleanInv
  BY ClusterTypes, HubAssumption DEF HubInit, ImportInit, ClusterInv, CleanInv
<1>2. ImportTypes /\ ClusterInv /\ CleanInv /\ [HubNext]_hubVars => ClusterInv' /\ CleanInv'
  BY ClusterStep, CleanStep
<1>3. ImportTypes /\ CleanInv /\ [HubNext]_hubVars
      => [\A h \in HDs :
            LET c == clusters[ClusterName[h]] IN
            /\ importPc = "delete" /\ importPc' = "idle"
            /\ ManagedClusterCleanupFinalizer \in hd[h].finalizers \ hd'[h].finalizers
            /\ c.owner = h
            => c.state # "present" /\ ~c.works]_<<hd, importVars>>
  BY RemovalStep
<1> QED BY <1>1, <1>2, <1>3, HubTypes, PTL DEF HubSpec, RemovedSafely
=============================================================================
