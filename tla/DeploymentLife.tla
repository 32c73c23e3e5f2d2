--------------------------- MODULE DeploymentLife ---------------------------
(***************************************************************************)
(* What the main reconciler promises of every HypershiftDeployment,        *)
(* without its worker, its copies, its caches and its failures: the object *)
(* is held by the destroy finalizer before anything is built for it, its   *)
(* cloud resources are complete before its ManifestWork is there, its      *)
(* ManifestWork is gone before they are taken down, and it is let go when  *)
(* nothing of it is left, unless its user wants the resources orphaned.    *)
(***************************************************************************)
CONSTANTS Objects,      \* the HypershiftDeployments
          Resources     \* what the controller builds for an object in the cloud

VARIABLES configuring,  \* the objects it builds them for
          orphaning,    \* the objects with the override ORPHAN
          held,         \* the objects that have the destroy finalizer
          retired,      \* the objects a user has deleted
          cloud,        \* what is in the cloud, by object
          deployed      \* the objects that have a ManifestWork

lifeVars == <<configuring, orphaning, held, retired, cloud, deployed>>

LifeInit ==
  /\ configuring \subseteq Objects /\ orphaning \subseteq Objects
  /\ held = {} /\ retired = {} /\ deployed = {}
  /\ cloud = [h \in Objects |-> {}]

Hold(h) ==
  /\ h \notin held
  /\ held' = held \cup {h}
  /\ UNCHANGED <<retired, cloud, deployed>>

\* Also after the deletion: the reconcile that builds has not seen it.
Build(h) ==
  /\ h \in held \cap configuring
  /\ \E r \in Resources \ cloud[h] : cloud' = [cloud EXCEPT ![h] = @ \cup {r}]
  /\ UNCHANGED <<held, retired, deployed>>

Deploy(h) ==
  /\ h \in held \ deployed
  /\ h \in configuring => cloud[h] = Resources
  /\ deployed' = deployed \cup {h}
  /\ UNCHANGED <<held, retired, cloud>>

Retire(h) ==
  /\ h \notin retired
  /\ retired' = retired \cup {h}
  /\ UNCHANGED <<held, cloud, deployed>>

Withdraw(h) ==
  /\ h \in deployed \cap retired
  /\ deployed' = deployed \ {h}
  /\ UNCHANGED <<held, retired, cloud>>

Demolish(h) ==
  /\ h \in retired \ deployed
  /\ \E r \in cloud[h] : cloud' = [cloud EXCEPT ![h] = @ \ {r}]
  /\ UNCHANGED <<held, retired, deployed>>

Release(h) ==
  /\ h \in (held \cap retired) \ deployed
  /\ held' = held \ {h}
  /\ cloud[h] # {} => h \in orphaning'
  /\ UNCHANGED <<retired, cloud, deployed>>

\* The override changes at any time: by a user, or by a patch that brings an old one back.
LifeNext ==
  /\ orphaning' \subseteq Objects
  /\ UNCHANGED configuring
  /\ \/ \E h \in Objects : \/ Hold(h) \/ Build(h) \/ Deploy(h) \/ Retire(h)
                           \/ Withdraw(h) \/ Demolish(h) \/ Release(h)
     \/ UNCHANGED <<held, retired, cloud, deployed>>

LifeSpec == LifeInit /\ [][LifeNext]_lifeVars
=============================================================================
