---------------------------- MODULE MCReconciler ----------------------------
(* Values for the constants of DeploymentReconciler. *)
EXTENDS ReconcilerLife

CONSTANTS h1, h2, i1, i2, none

Submitted(configure, ids, overrides, parts) ==
  {[exists |-> TRUE, deleting |-> FALSE, finalizers |-> {}, infraID |-> id,
    override |-> o, configure |-> c, createMC |-> "false", parts |-> p, ready |-> {}] :
      c \in configure, id \in ids, o \in overrides, p \in parts}

\* The infra ID is left to the controller, or chosen by the user.
AnyObject    == Submitted(BOOLEAN, {none, i1}, Overrides, {{}, {"roles", "defaults"}})
PlainObject  == Submitted({TRUE}, {none}, {"none"}, {{}})
EitherObject == Submitted(BOOLEAN, {none}, {"none"}, {{}})

\* Under an infra ID the user has chosen.
ChosenObject == Submitted(BOOLEAN, {i1}, {"none"}, {{}})

\* Infrastructure of the user's own, the infra ID left to the controller.
SpecOnly == Submitted({FALSE}, {none}, {"none"}, {{}})
=============================================================================
