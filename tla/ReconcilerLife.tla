--------------------------- MODULE ReconcilerLife ---------------------------
(***************************************************************************)
(* DeploymentReconciler implements DeploymentLife: the finalizer, the      *)
(* deletion and the override are read off the API server, the cloud and    *)
(* the ManifestWork are found by the infra ID of the object.               *)
(***************************************************************************)
EXTENDS DeploymentReconciler

CloudResources == IF Platform = "AWS" THEN {"infra", "iam"} ELSE {"infra"}

Held      == {h \in HDs : hd[h].exists /\ DestroyFinalizer \in hd[h].finalizers}
Retired   == {h \in HDs : hd[h].deleting}
Orphaning == {h \in HDs : hd[h].override = "ORPHAN"}

InCloud == [h \in HDs |-> (IF hd[h].infraID \in infra THEN {"infra"} ELSE {})
                            \cup (IF hd[h].infraID \in iam THEN {"iam"} ELSE {})]

Deployed == {h \in HDs : hd[h].infraID # NoID /\ work[hd[h].infraID].state # "absent"}

Life == INSTANCE DeploymentLife WITH
          Objects     <- HDs,
          Resources   <- CloudResources,
          configuring <- {h \in HDs : hd[h].configure},
          held        <- Held,
          retired     <- Retired,
          orphaning   <- Orphaning,
          cloud       <- InCloud,
          deployed    <- Deployed

(***************************************************************************)
(* Every step of the reconciler, of the work agent and of a user, from     *)
(* whatever copy and in whatever order, is a step in the life of one       *)
(* deployment or none: build, deploy, withdraw, demolish and release come  *)
(* in this order and at the right time.                                    *)
(***************************************************************************)
ImplementsLife == Life!LifeSpec
=============================================================================
