-------------------------------- MODULE Hub ---------------------------------
(***************************************************************************)
(* Both controllers in one manager process, as main.go starts them, with   *)
(* the users, the cluster manager and the work agent around them.  The     *)
(* controllers share the objects, the informer cache and nothing else.     *)
(***************************************************************************)
EXTENDS DeploymentReconciler, AutoImport

hubVars == <<vars, importVars>>

HubInit == Init /\ ImportInit

\* A step that the main worker takes no part in: its copy may be overtaken.
NotByMain ==
  /\ fresh' = (fresh /\ hd'[key] = hd[key])
  /\ UNCHANGED <<cache, queue, pc, key, mem, cloudVars, workVars, edits>>

MainRuns ==
  /\ \/ Step
     \/ \E h \in HDs : Start(h) \/ Resync(h) \/ UserDeletes(h) \/ UserEdits(h)
     \/ \E id \in InfraIDs : ObserveWork(id) \/ AgentApplies(id) \/ AgentCleansUp(id)
  /\ UNCHANGED importVars

\* One informer tells both controllers of an object.
BothObserve(h) ==
  /\ ObserveObject(h)
  /\ importQueue' = importQueue \cup {h}
  /\ UNCHANGED <<importWorker, clusterVars, interventions>>

ImportResync(h) ==
  /\ h \notin importQueue /\ cache[h].exists
  /\ importQueue' = importQueue \cup {h}
  /\ UNCHANGED <<hd, faults, importWorker, clusterVars>>

ImportRuns ==
  /\ ImportStep \/ \E h \in HDs : ImportStart(h) \/ ImportResync(h)
  /\ NotByMain /\ UNCHANGED interventions

\* One process runs both workers, so they end together.
ManagerCrash ==
  /\ pc # "idle" \/ importPc # "idle"
  /\ Fault
  /\ Return /\ queue' = HDs
  /\ ImportReturn /\ importQueue' = HDs
  /\ UNCHANGED <<hd, cache, cloudVars, workVars, edits, clusterVars, interventions>>

\* A step outside of both workers.
AroundThem == NotByMain /\ UNCHANGED <<faults, importWorker>>

\* The hosted cluster's secret reaches the hub once the agent has the HostedCluster.
Synced(h) ==
  /\ hd[h].infraID # NoID /\ "HostedCluster" \in hosted[hd[h].infraID]
  /\ KubeconfigSynced(h)

ClustersChange ==
  /\ \/ \E n \in Names : ObserveCluster(n) \/ ClusterChanges(n)
     \/ \E h \in HDs : Synced(h)
  /\ UNCHANGED hd /\ AroundThem

UsersAct ==
  /\ \/ UNCHANGED hd /\ \E n \in Names : UserImports(n) \/ UserDetaches(n)
     \/ \E h \in HDs : UserAnnotates(h)
  /\ AroundThem

HubNext ==
  \/ MainRuns \/ ImportRuns \/ ManagerCrash \/ ClustersChange \/ UsersAct
  \/ \E h \in HDs : BothObserve(h)

HubSpec == HubInit /\ [][HubNext]_hubVars

(***************************************************************************)
(* Both workers run on and both queues are served in order; the informers, *)
(* the work agent and the cluster manager do their part.  An object comes  *)
(* back to a worker only by what the code asks for: an event, a requeue.   *)
(***************************************************************************)
HubFairness ==
  /\ WF_hubVars(Step /\ UNCHANGED importVars)
  /\ WF_hubVars(ImportStep /\ NotByMain /\ UNCHANGED interventions)
  /\ \A h \in HDs :
       /\ SF_hubVars(Start(h) /\ UNCHANGED importVars)
       /\ SF_hubVars(ImportStart(h) /\ NotByMain /\ UNCHANGED interventions)
       /\ WF_hubVars(BothObserve(h))
       /\ WF_hubVars(Synced(h) /\ UNCHANGED hd /\ AroundThem)
  /\ \A n \in Names : /\ WF_hubVars(ObserveCluster(n) /\ UNCHANGED hd /\ AroundThem)
                      /\ WF_hubVars(ClusterChanges(n) /\ UNCHANGED hd /\ AroundThem)
  /\ \A id \in InfraIDs : /\ WF_hubVars(ObserveWork(id) /\ UNCHANGED importVars)
                          /\ WF_hubVars(AgentApplies(id) /\ UNCHANGED importVars)
                          /\ WF_hubVars(AgentCleansUp(id) /\ UNCHANGED importVars)

HubFairSpec == HubSpec /\ HubFairness

-----------------------------------------------------------------------------
\* Nothing is queued, running or unseen.
Settled ==
  /\ pc = "idle" /\ importPc = "idle" /\ queue = {} /\ importQueue = {}
  /\ cache = hd /\ clusterCache = clusters

(***************************************************************************)
(* "Once we are sure there is a ManagedCluster, we set the finalizer": at  *)
(* rest, an object that is to have a ManagedCluster and has one made for   *)
(* it holds the finalizer, although the main controller's patch may have   *)
(* replaced the list in between.                                           *)
(***************************************************************************)
GuardedWhenSettled ==
  Settled => \A h \in HDs :
    /\ hd[h].exists /\ ~hd[h].deleting /\ hd[h].createMC # "false"
    /\ clusters[ClusterName[h]].state # "absent" /\ clusters[ClusterName[h]].owner = h
    => ManagedClusterCleanupFinalizer \in hd[h].finalizers

(***************************************************************************)
(* At rest no deletion hangs and no cluster that could be imported is      *)
(* overlooked, whatever failed before: a reconcile that ends without a     *)
(* requeue leaves something behind that will start another.                *)
(***************************************************************************)
NothingStuck ==
  Settled => \A h \in HDs : hd[h].exists =>
    /\ ~hd[h].deleting
    /\ h \in kubeconfigs => hd[h].createMC = "false"

(***************************************************************************)
(* "Once the Hypershift-operator has deployed OpenShift, the new cluster   *)
(* is automatically imported": a reconcile without the kubeconfig secret   *)
(* ends for good, and the secret, when it is there, is not forgotten.      *)
(***************************************************************************)
ImportCompletes ==
  \A h \in HDs : h \in kubeconfigs ~>
    hd[h].createMC = "false" \/ hd[h].deleting \/ ~hd[h].exists

(***************************************************************************)
(* A deleted object goes away, whatever users do to its ManagedCluster.    *)
(* The main controller ends a reconcile that sees the other's finalizer    *)
(* without a requeue, and the other waits for a cluster it does not watch. *)
(***************************************************************************)
ImportedDeletionCompletes == \A h \in HDs : hd[h].deleting ~> ~hd[h].exists
=============================================================================
