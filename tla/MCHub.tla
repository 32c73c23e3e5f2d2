------------------------------- MODULE MCHub --------------------------------
(* Values for the constants of Hub. *)
EXTENDS Hub, TLC

CONSTANTS h1, i1, n1, none

Submitted(configure, ids, parts) ==
  {[exists |-> TRUE, deleting |-> FALSE, finalizers |-> {}, infraID |-> id,
    override |-> "none", configure |-> c, createMC |-> "absent", parts |-> parts, ready |-> {}] :
     c \in configure, id \in ids}

\* With infrastructure to configure, the infra ID left to the controller or chosen by the user;
\* and with infrastructure of the user's own.
ToConfigure == Submitted({TRUE}, {none}, {})
ChosenID    == Submitted({TRUE}, {i1}, {"defaults"})
SpecGiven   == Submitted({FALSE}, {i1}, {"defaults"})

OneName == (h1 :> n1)

\* A fault or an act of a user, not both.
OneDisturbance == faults + interventions > 0
=============================================================================
