--------------------------- MODULE StatusFeedback ---------------------------
(***************************************************************************)
(* How the reports of the work agent become conditions of the              *)
(* HypershiftDeployment: getStatusFeedbackAsCondition and                  *)
(* syncManifestworkStatusToHypershiftDeployment.                           *)
(*                                                                         *)
(* A report is what the agent says of one manifest of the work.  Its       *)
(* status is "none" while the manifest has no reason or no status yet;     *)
(* the reports come in an order the agent chooses.                         *)
(***************************************************************************)
EXTENDS Integers, Sequences

CONSTANT PoolNames   \* the names node pools may have

ReportedStatus == {"none", "True", "False", "Unknown"}

HostedCluster == "hostedcluster"

Report == [manifest : PoolNames \cup {HostedCluster}, status : ReportedStatus]

\* feedbackToCondition: the field is missing or not updated properly.
Complete(report) == report.status # "none"

\* The report is of a manifest that getManifestWorkConfigs asks for feedback on.
Counts(names, report) == report.manifest \in names /\ Complete(report)

\* Mutant: each report replaces the one before it.
FailedWins_LastWins(condition, report) == report.status

\* The first report makes the condition, and any that is not True replaces it.
FailedWins(condition, report) ==
  IF condition = "none" \/ report.status # "True" THEN report.status ELSE condition

\* What the loop makes of one more report: "out" as it was, with the condition of the report.
WithReport(conditions, pools, report) ==
  [nodePool  |-> IF Counts(pools, report) THEN FailedWins(conditions.nodePool, report)
                 ELSE conditions.nodePool,
   available |-> IF Counts({HostedCluster}, report) THEN report.status
                 ELSE conditions.available]

NoFeedback == [nodePool |-> "none", available |-> "none"]

\* getStatusFeedbackAsCondition: the loop over the reports, in their order.
Feedback(pools, reports) ==
  LET after[i \in 0..Len(reports)] ==
        IF i = 0 THEN NoFeedback ELSE WithReport(after[i - 1], pools, reports[i])
  IN  after[Len(reports)]

\* A condition without a report keeps the status it has.
Synced(status, pools, reports) ==
  LET new == Feedback(pools, reports)
      Set(old, said) == IF said = "none" THEN old ELSE said IN
  [status EXCEPT !.nodePool = Set(@, new.nodePool), !.available = Set(@, new.available)]

(***************************************************************************)
(* What the conditions are to say, without an order: the node pools are    *)
(* ready when all that report are.                                         *)
(***************************************************************************)
StatusesOf(names, reports) ==
  {reports[i].status : i \in {j \in 1..Len(reports) : Counts(names, reports[j])}}

TellsTruth(condition, names, reports) ==
  LET said == StatusesOf(names, reports) IN
  said # {} => condition \in (IF said = {"True"} THEN said ELSE said \ {"True"})
=============================================================================
