----------------------------- MODULE AutoImport -----------------------------
(***************************************************************************)
(* The auto-import controller: it creates a ManagedCluster for each        *)
(* HypershiftDeployment, holds the deletion of the object with a finalizer *)
(* of its own until the ManagedCluster is cleaned up, and writes the       *)
(* annotation createmanagedcluster=false once the cluster can be imported. *)
(* Its queue and worker are its own; the objects and the informer cache    *)
(* are those of the main controller.                                       *)
(***************************************************************************)
EXTENDS HubApi

CONSTANTS Names,               \* the names of ManagedClusters, which have no namespace
          ClusterName,         \* ManagedClusterName: the name part of each HypershiftDeployment
          UserAnnotations,     \* the values users give the annotation
          MaxInterventions     \* how often users import, detach or annotate

ASSUME AutoImportAssumption ==
  /\ ClusterName \in [HDs -> Names]
  /\ UserAnnotations \subseteq {"absent", "true", "false"}
  /\ MaxInterventions \in Nat

VARIABLES importQueue, importPc, importKey, importMem,   \* the worker of this controller
          clusters,       \* the ManagedClusters in the API server, by name
          clusterCache,   \* the ManagedClusters in the informer cache
          kubeconfigs,    \* the objects whose hosted kubeconfig secret has been synced
          interventions

importWorker == <<importPc, importKey, importMem>>
clusterVars  == <<clusters, clusterCache, kubeconfigs>>
importVars   == <<importQueue, importWorker, clusterVars, interventions>>

Cluster == [state  : {"absent", "present", "deleting"},
            owner  : HDs \cup {NoOwner},   \* the hypershiftdeployment annotation
            joined : BOOLEAN,
            works  : BOOLEAN]              \* the ManifestWork cleanup finalizer

NoCluster == [state |-> "absent", owner |-> NoOwner, joined |-> FALSE, works |-> FALSE]

ImportSteps == {"idle", "decide", "ensure", "finalizer", "kubeconfig", "annotate", "delete"}

ImportTypeOK ==
  /\ importQueue \subseteq HDs
  /\ importPc \in ImportSteps /\ importKey \in HDs /\ importMem \in Object
  /\ clusters \in [Names -> Cluster] /\ clusterCache \in [Names -> Cluster]
  /\ kubeconfigs \subseteq HDs
  /\ interventions \in 0..MaxInterventions

ImportInit ==
  /\ importQueue = HDs
  /\ importPc = "idle" /\ importKey \in HDs /\ importMem = ZeroObject
  /\ clusters = [n \in Names |-> NoCluster] /\ clusterCache = clusters
  /\ kubeconfigs = {}
  /\ interventions = MaxInterventions

-----------------------------------------------------------------------------
ImportGoto(step) == importPc' = step /\ UNCHANGED <<importKey, importMem, importQueue>>

ImportReturn  == importPc' = "idle" /\ importMem' = ZeroObject /\ UNCHANGED importKey
ImportDone    == ImportReturn /\ UNCHANGED importQueue
ImportRequeue == ImportReturn /\ importQueue' = importQueue \cup {importKey}

name == ClusterName[importKey]

(***************************************************************************)
(* The patches of this controller have the copy itself as their base, so   *)
(* they write what they add and nothing else; but the finalizers are one   *)
(* list, and it is written as the copy had it.  Each ends the reconcile.   *)
(***************************************************************************)
ImportPatch_IgnoresError(copy) ==     \* mutant
  LET result == Patched(hd[importKey], importMem, copy) IN
  \/ /\ Admits(hd[importKey], result) /\ NoFault
     /\ hd' = [hd EXCEPT ![importKey] = result]
     /\ ImportDone
  \/ /\ FaultIf(Admits(hd[importKey], result))
     /\ ImportDone /\ UNCHANGED hd

ImportPatch(copy) ==
  LET result == Patched(hd[importKey], importMem, copy) IN
  \/ /\ Admits(hd[importKey], result) /\ NoFault
     /\ hd' = [hd EXCEPT ![importKey] = result]
     /\ ImportDone
  \/ /\ FaultIf(Admits(hd[importKey], result))
     /\ ImportRequeue /\ UNCHANGED hd

ImportStart(h) ==
  /\ importPc = "idle" /\ h \in importQueue
  /\ ReadsOwnWrites => cache = hd /\ clusterCache = clusters
  /\ importQueue' = importQueue \ {h}
  /\ importKey' = h
  /\ IF cache[h].exists THEN importPc' = "decide" /\ importMem' = cache[h]
                        ELSE UNCHANGED <<importPc, importMem>>
  /\ UNCHANGED <<hd, faults, clusterVars>>

Decide ==
  /\ importPc = "decide"
  /\ IF importMem.deleting THEN ImportGoto("delete")
     ELSE IF importMem.createMC = "false" THEN ImportDone ELSE ImportGoto("ensure")
  /\ UNCHANGED <<hd, faults, clusterVars>>

\* What follows ensureManagedCluster in Reconcile, for the ManagedCluster it returned.
AfterEnsure(joined) ==
  ImportGoto(IF ManagedClusterCleanupFinalizer \notin importMem.finalizers THEN "finalizer"
             ELSE IF joined THEN "annotate" ELSE "kubeconfig")

Claims == clusterCache[name].state # "absent" /\ clusterCache[name].owner = NoOwner

\* Whether the create or the patch of ensureManagedCluster meets what it expects.
EnsureAdmitted ==
  /\ clusterCache[name].state = "absent" => clusters[name].state = "absent"
  /\ Claims => clusters[name].state # "absent"

CreateCluster ==
  /\ clusterCache[name].state = "absent"
  /\ clusters' = [clusters EXCEPT ![name] = [NoCluster EXCEPT !.state = "present", !.owner = importKey]]
  /\ AfterEnsure(FALSE)

\* ensureManagedClusterObjectMeta claims a ManagedCluster that has no owner yet, and no other.
ClaimCluster ==
  /\ clusterCache[name].state # "absent"
  /\ IF Claims
     THEN /\ clusters' = [clusters EXCEPT ![name].owner = importKey]
          /\ AfterEnsure(clusters[name].joined)
     ELSE UNCHANGED clusters /\ AfterEnsure(clusterCache[name].joined)

EnsureCluster ==
  /\ importPc = "ensure"
  /\ \/ EnsureAdmitted /\ (CreateCluster \/ ClaimCluster) /\ NoFault
     \/ FaultIf(EnsureAdmitted) /\ ImportRequeue /\ UNCHANGED clusters
  /\ UNCHANGED <<hd, clusterCache, kubeconfigs>>

SetFinalizer ==
  /\ importPc = "finalizer"
  /\ ImportPatch([importMem EXCEPT !.finalizers = @ \cup {ManagedClusterCleanupFinalizer}])
  /\ UNCHANGED clusterVars

\* A secret that is not there ends the reconcile; any other error counts as the secret.
WaitForKubeconfig ==
  /\ importPc = "kubeconfig"
  /\ \/ importKey \notin kubeconfigs /\ ImportDone /\ NoFault
     \/ importKey \in kubeconfigs /\ ImportGoto("annotate") /\ NoFault
     \/ ImportGoto("annotate") /\ Fault
  /\ UNCHANGED <<hd, clusterVars>>

AnnotateFalse ==
  /\ importPc = "annotate"
  /\ ImportPatch([importMem EXCEPT !.createMC = "false"])
  /\ UNCHANGED clusterVars

RemoveFinalizer ==
  IF ManagedClusterCleanupFinalizer \notin importMem.finalizers
  THEN ImportDone /\ UNCHANGED <<hd, faults>>
  ELSE ImportPatch([importMem EXCEPT !.finalizers = @ \ {ManagedClusterCleanupFinalizer}])

\* The ManifestWorks of a ManagedCluster that is being deleted are still there.
WorksRemain_Ignored == FALSE      \* mutant
WorksRemain == clusterCache[name].works

\* The requeue after ten seconds, the only way back: ManagedClusters are not watched.
WaitForCluster_NoRequeue == ImportDone      \* mutant
WaitForCluster == ImportRequeue

\* deleteManagedCluster, which looks at the name only.
DeleteManagedCluster ==
  /\ importPc = "delete"
  /\ \/ /\ \/ clusterCache[name].state = "absent"
           \/ clusterCache[name].state = "deleting" /\ ~WorksRemain
        /\ RemoveFinalizer /\ UNCHANGED clusters
     \/ /\ clusterCache[name].state = "deleting" /\ WorksRemain
        /\ WaitForCluster /\ UNCHANGED <<hd, faults, clusters>>
     \/ /\ clusterCache[name].state = "present"
        /\ \/ /\ clusters[name].state # "absent" /\ NoFault
              /\ clusters' = [clusters EXCEPT ![name].state = "deleting"]
              /\ WaitForCluster
           \/ FaultIf(clusters[name].state # "absent") /\ UNCHANGED clusters /\ ImportRequeue
        /\ UNCHANGED hd
  /\ UNCHANGED <<clusterCache, kubeconfigs>>

ImportStep ==
  \/ Decide \/ EnsureCluster \/ SetFinalizer \/ WaitForKubeconfig
  \/ AnnotateFalse \/ DeleteManagedCluster

-----------------------------------------------------------------------------
(* What runs next to this worker: the cluster manager and users. *)

ObserveCluster(n) ==
  /\ clusterCache[n] # clusters[n]
  /\ clusterCache' = [clusterCache EXCEPT ![n] = clusters[n]]
  /\ UNCHANGED <<importQueue, clusters, kubeconfigs, interventions>>   \* no watch on ManagedClusters

\* Mutants: a secret without the annotation wakes the worker too; secrets are not watched.
KubeconfigSynced_AnySecret(h) ==
  /\ h \notin kubeconfigs
  /\ kubeconfigs' = kubeconfigs \cup {h}
  /\ importQueue' = importQueue \cup {NoOwner}
  /\ UNCHANGED <<clusters, clusterCache, interventions>>

KubeconfigSynced_NotWatched(h) ==
  /\ h \notin kubeconfigs
  /\ kubeconfigs' = kubeconfigs \cup {h}
  /\ UNCHANGED <<importQueue, clusters, clusterCache, interventions>>

\* The secret of the hosted cluster is synced to the hub, which wakes the worker.
KubeconfigSynced(h) ==
  /\ h \notin kubeconfigs
  /\ kubeconfigs' = kubeconfigs \cup {h}
  /\ importQueue' = importQueue \cup {h}
  /\ UNCHANGED <<clusters, clusterCache, interventions>>

ClusterChanges(n) ==
  /\ \/ /\ clusters[n].state = "present" /\ ~clusters[n].joined   \* imported
        /\ \E h \in kubeconfigs : ClusterName[h] = n
        /\ clusters' = [clusters EXCEPT ![n].joined = TRUE, ![n].works = TRUE]
     \/ /\ clusters[n].state = "deleting"                         \* cleaned up, then gone
        /\ clusters' = [clusters EXCEPT ![n] =
                          IF @.works THEN [@ EXCEPT !.works = FALSE] ELSE NoCluster]
  /\ UNCHANGED <<importQueue, clusterCache, kubeconfigs, interventions>>

Intervene == interventions > 0 /\ interventions' = interventions - 1

UserImports(n) ==
  /\ Intervene /\ clusters[n].state = "absent"
  /\ clusters' = [clusters EXCEPT ![n] = [NoCluster EXCEPT !.state = "present"]]
  /\ UNCHANGED <<importQueue, clusterCache, kubeconfigs>>

UserDetaches(n) ==
  /\ Intervene /\ clusters[n].state = "present"
  /\ clusters' = [clusters EXCEPT ![n].state = "deleting"]
  /\ UNCHANGED <<importQueue, clusterCache, kubeconfigs>>

\* The new value of an object whose annotation a user edits.
UserAnnotates(h) ==
  /\ Intervene /\ hd[h].exists
  /\ \E a \in UserAnnotations \ {hd[h].createMC} :
       hd' = [hd EXCEPT ![h].createMC = a]
  /\ UNCHANGED <<importQueue, clusterVars>>

-----------------------------------------------------------------------------
(***************************************************************************)
(* "Now the manifestworks of the managed cluster are deleted, the managed  *)
(* cluster finalizer can be removed safely": this worker takes it off only *)
(* when the ManagedCluster made for the object is on its way out and has   *)
(* no ManifestWorks, although it looks at the cache, and only at the name. *)
(***************************************************************************)
RemovedSafely ==
  [][\A h \in HDs :
       LET c == clusters[ClusterName[h]] IN
       /\ importPc = "delete" /\ importPc' = "idle"
       /\ ManagedClusterCleanupFinalizer \in hd[h].finalizers \ hd'[h].finalizers
       /\ c.owner = h
       => c.state # "present" /\ ~c.works]_<<hd, importVars>>
=============================================================================
