---------------------------- MODULE FeedbackProofs ----------------------------
(***************************************************************************)
(* What the loop of getStatusFeedbackAsCondition makes of the reports, for *)
(* every list of reports in every order.  The conditions are a recursive   *)
(* function of the list, so what they say is proved by induction: the      *)
(* numbers of reports for which it is false would have a least one.        *)
(***************************************************************************)
EXTENDS StatusFeedback, WellFoundedInduction, TLAPS

FeedbackConditions == [nodePool : ReportedStatus, available : ReportedStatus]

-----------------------------------------------------------------------------
(* Induction over the numbers up to a bound. *)

\* A set of numbers that is not empty has a least one.
LEMMA LeastNumber ==
  ASSUME NEW T \in SUBSET Nat, T # {} PROVE \E m \in T : \A n \in T : m <= n
<1> DEFINE R == {ss \in Nat \X Nat : ss[1] < ss[2]}
<1>1. IsWellFoundedOn(R, Nat)
  BY NatLessThanWellFounded DEF OpToRel
<1>2. PICK m \in T : \A n \in T : <<n, m>> \notin R
  BY <1>1, WFMin
<1>3. \A n \in T : ~(n < m)
  BY <1>2
<1>4. m \in Nat /\ \A n \in T : n \in Nat
  OBVIOUS
<1> QED BY <1>3, <1>4

\* What is true of 0, and of each number when it is of the one before, is true of all.
LEMMA InductionUpTo ==
  ASSUME NEW N \in Nat, NEW T, 0 \in T, \A i \in 1..N : i - 1 \in T => i \in T
  PROVE  0..N \subseteq T
<1> SUFFICES ASSUME 0..N \ T # {} PROVE FALSE
  OBVIOUS
<1>1. PICK m \in 0..N \ T : \A n \in 0..N \ T : m <= n
  <2>1. (0..N \ T) \in SUBSET Nat
    OBVIOUS
  <2> QED BY <2>1, LeastNumber
<1>2. m \in 1..N /\ m - 1 \in 0..N
  BY <1>1
<1>3. m - 1 \in T
  BY <1>1, <1>2
<1> QED BY <1>1, <1>2, <1>3

-----------------------------------------------------------------------------
(* The function the loop computes. *)

\* Whatever each round does to the conditions, there is the row of what they become.
LEMMA Iterates ==
  ASSUME NEW N \in Nat, NEW step \in [1..N -> [FeedbackConditions -> FeedbackConditions]]
  PROVE  \E f \in [0..N -> FeedbackConditions] :
           f[0] = NoFeedback /\ \A i \in 1..N : f[i] = step[i][f[i - 1]]
<1> DEFINE Run(g, k) == \A i \in 0..k : g[i] = IF i = 0 THEN NoFeedback ELSE step[i][g[i - 1]]
           T == {k \in 0..N : \E g \in [0..k -> FeedbackConditions] : Run(g, k)}
<1> NoFeedback \in FeedbackConditions
  BY DEF NoFeedback, FeedbackConditions, ReportedStatus
<1>1. 0 \in T
  <2>1. [i \in 0..0 |-> NoFeedback] \in [0..0 -> FeedbackConditions] /\ Run([i \in 0..0 |-> NoFeedback], 0)
    OBVIOUS
  <2> DEFINE h == [i \in 0..0 |-> NoFeedback]
  <2>2. h \in [0..0 -> FeedbackConditions] /\ Run(h, 0) /\ 0 \in 0..N
    BY <2>1
  <2> HIDE DEF h, Run
  <2> QED BY <2>2
<1>2. ASSUME NEW k \in 1..N, k - 1 \in T PROVE k \in T
  <2>1. PICK g \in [0..(k - 1) -> FeedbackConditions] : Run(g, k - 1)
    BY <1>2
  <2> DEFINE h == [i \in 0..k |-> IF i = k THEN step[k][g[k - 1]] ELSE g[i]]
  <2>2. k - 1 \in 0..(k - 1) /\ g[k - 1] \in FeedbackConditions
    OBVIOUS
  <2>3. h \in [0..k -> FeedbackConditions]
    BY <2>2
  <2>4. ASSUME NEW i \in 0..k PROVE h[i] = IF i = 0 THEN NoFeedback ELSE step[i][h[i - 1]]
    <3>1. CASE i = k
      <4>1. h[k - 1] = g[k - 1]
        BY <2>2
      <4> QED BY <3>1, <4>1
    <3>2. CASE i # k
      <4>1. i \in 0..(k - 1) /\ h[i] = g[i] /\ (i # 0 => h[i - 1] = g[i - 1])
        BY <3>2
      <4> QED BY <2>1, <4>1
    <3> QED BY <3>1, <3>2
  <2> HIDE DEF h
  <2>5. Run(h, k) /\ k \in 0..N
    BY <2>4
  <2> HIDE DEF Run
  <2> QED BY <2>3, <2>5
<1>3. N \in T
  <2> HIDE DEF T
  <2>1. 0..N \subseteq T
    BY <1>1, <1>2, InductionUpTo
  <2> QED BY <2>1
<1>4. PICK f \in [0..N -> FeedbackConditions] : Run(f, N)
  BY <1>3
<1> QED BY <1>4

\* What the first i reports of these manifests say.
SaidUpTo(names, reports, i) == {reports[j].status : j \in {j \in 1..i : Counts(names, reports[j])}}

\* The next report adds its status, if it counts.
LEMMA SaidNext ==
  ASSUME NEW names, NEW reports \in Seq(Report), NEW i \in 1..Len(reports)
  PROVE  /\ SaidUpTo(names, reports, 0) = {}
         /\ Counts(names, reports[i]) =>
              /\ SaidUpTo(names, reports, i) = SaidUpTo(names, reports, i - 1) \cup {reports[i].status}
              /\ reports[i].status \in ReportedStatus /\ reports[i].status # "none"
         /\ ~Counts(names, reports[i]) =>
              SaidUpTo(names, reports, i) = SaidUpTo(names, reports, i - 1)
<1>1. SaidUpTo(names, reports, 0) = {}
  BY DEF SaidUpTo
<1>2. Counts(names, reports[i]) => SaidUpTo(names, reports, i) = SaidUpTo(names, reports, i - 1) \cup {reports[i].status}
  BY DEF SaidUpTo
<1>3. ~Counts(names, reports[i]) => SaidUpTo(names, reports, i) = SaidUpTo(names, reports, i - 1)
  BY DEF SaidUpTo
<1>4. reports[i] \in Report
  OBVIOUS
<1>5. /\ reports[i].status \in ReportedStatus
      /\ Counts(names, reports[i]) => reports[i].status # "none"
  BY <1>4 DEF Report, Counts, Complete
<1> QED BY <1>1, <1>2, <1>3, <1>5

\* The conditions are the last of a row, which has one more for each report.
LEMMA FeedbackRun ==
  ASSUME NEW pools, NEW reports \in Seq(Report)
  PROVE  \E g : /\ g[0] = NoFeedback /\ Feedback(pools, reports) = g[Len(reports)]
                /\ \A i \in 1..Len(reports) : g[i] = WithReport(g[i - 1], pools, reports[i])
<1> DEFINE Rule(g, i) == IF i = 0 THEN NoFeedback ELSE WithReport(g[i - 1], pools, reports[i])
           after == CHOOSE g : g = [i \in 0..Len(reports) |-> Rule(g, i)]
           step == [i \in 1..Len(reports) |-> [c \in FeedbackConditions |-> WithReport(c, pools, reports[i])]]
<1>1. Feedback(pools, reports) = after[Len(reports)]
  BY DEF Feedback
<1>2. Len(reports) \in Nat
  OBVIOUS
<1>3. step \in [1..Len(reports) -> [FeedbackConditions -> FeedbackConditions]]
  <2>1. ASSUME NEW i \in 1..Len(reports), NEW c \in FeedbackConditions
        PROVE  WithReport(c, pools, reports[i]) \in FeedbackConditions
    <3>1. reports[i] \in Report
      OBVIOUS
    <3>2. reports[i].status \in ReportedStatus
      BY <3>1 DEF Report
    <3> QED BY <3>2 DEF WithReport, FailedWins, FeedbackConditions
  <2> QED BY <2>1
<1>4. \A i \in 1..Len(reports), c \in FeedbackConditions : step[i][c] = WithReport(c, pools, reports[i])
  OBVIOUS
<1> HIDE DEF step
<1>5. PICK f \in [0..Len(reports) -> FeedbackConditions] :
        f[0] = NoFeedback /\ \A i \in 1..Len(reports) : f[i] = step[i][f[i - 1]]
  BY <1>2, <1>3, Iterates
<1>6. ASSUME NEW i \in 0..Len(reports) PROVE f[i] = Rule(f, i)
  <2>1. i # 0 => i \in 1..Len(reports) /\ i - 1 \in 0..Len(reports)
    BY <1>2
  <2> QED BY <1>4, <1>5, <2>1
<1> HIDE DEF Rule
<1>7. f = [i \in 0..Len(reports) |-> Rule(f, i)]
  BY <1>6
<1>8. after = [i \in 0..Len(reports) |-> Rule(after, i)]
  BY <1>7
<1> HIDE DEF after
<1>9. \A i \in 0..Len(reports) : after[i] = Rule(after, i)
  BY <1>8
<1>10. after[0] = NoFeedback
  BY <1>2, <1>9 DEF Rule
<1>11. \A i \in 1..Len(reports) : after[i] = WithReport(after[i - 1], pools, reports[i])
  BY <1>2, <1>9 DEF Rule
<1> QED BY <1>1, <1>10, <1>11

-----------------------------------------------------------------------------
(* What the conditions say. *)

\* A condition is there when something has been said, and is one of the things said.
OneOf(condition, said) ==
  /\ condition \in ReportedStatus
  /\ (condition = "none") <=> (said = {})
  /\ said # {} => condition \in said

\* And it is True only if nothing else has been said.
WorstOf(condition, said) == OneOf(condition, said) /\ (condition = "True" => said = {"True"})

\* One more report, of which the last one counts.
LEMMA OneMore ==
  ASSUME NEW names, NEW reports \in Seq(Report), NEW i \in 1..Len(reports), NEW c, NEW d,
         OneOf(c, SaidUpTo(names, reports, i - 1)),
         d = IF Counts(names, reports[i]) THEN reports[i].status ELSE c
  PROVE  OneOf(d, SaidUpTo(names, reports, i))
<1>1. CASE Counts(names, reports[i])
  <2>1. /\ SaidUpTo(names, reports, i) = SaidUpTo(names, reports, i - 1) \cup {reports[i].status}
        /\ reports[i].status \in ReportedStatus /\ reports[i].status # "none"
    BY <1>1, SaidNext
  <2> QED BY <1>1, <2>1 DEF OneOf
<1>2. CASE ~Counts(names, reports[i])
  BY <1>2, SaidNext
<1> QED BY <1>1, <1>2

\* One more report, of which the worst one counts.
LEMMA WorstOfMore ==
  ASSUME NEW names, NEW reports \in Seq(Report), NEW i \in 1..Len(reports), NEW c, NEW d,
         WorstOf(c, SaidUpTo(names, reports, i - 1)),
         d = IF Counts(names, reports[i]) THEN FailedWins(c, reports[i]) ELSE c
  PROVE  WorstOf(d, SaidUpTo(names, reports, i))
<1>1. CASE Counts(names, reports[i])
  <2>1. /\ SaidUpTo(names, reports, i) = SaidUpTo(names, reports, i - 1) \cup {reports[i].status}
        /\ reports[i].status \in ReportedStatus /\ reports[i].status # "none"
    BY <1>1, SaidNext
  <2> QED BY <1>1, <2>1 DEF WorstOf, OneOf, FailedWins
<1>2. CASE ~Counts(names, reports[i])
  BY <1>2, SaidNext
<1> QED BY <1>1, <1>2

(***************************************************************************)
(* getStatusFeedbackAsCondition: for every list of reports, in whatever    *)
(* order the agent sends them, the node pools are said to be ready only if *)
(* every report of one says so, and else what one of the others says; the  *)
(* HostedCluster is said to be what some report of it says; and a          *)
(* condition is missing only if nothing has been reported.                 *)
(***************************************************************************)
THEOREM FeedbackTells ==
  ASSUME NEW pools, NEW reports \in Seq(Report)
  PROVE  /\ WorstOf(Feedback(pools, reports).nodePool, StatusesOf(pools, reports))
         /\ OneOf(Feedback(pools, reports).available, StatusesOf({HostedCluster}, reports))
<1> PICK g : /\ g[0] = NoFeedback /\ Feedback(pools, reports) = g[Len(reports)]
             /\ \A i \in 1..Len(reports) : g[i] = WithReport(g[i - 1], pools, reports[i])
  BY FeedbackRun
<1> DEFINE T == {i \in 0..Len(reports) :
                   /\ WorstOf(g[i].nodePool, SaidUpTo(pools, reports, i))
                   /\ OneOf(g[i].available, SaidUpTo({HostedCluster}, reports, i))}
<1>1. Len(reports) \in Nat
  OBVIOUS
<1>2. 0 \in T
  BY <1>1 DEF WorstOf, OneOf, SaidUpTo, ReportedStatus, NoFeedback
<1>3. ASSUME NEW i \in 1..Len(reports), i - 1 \in T PROVE i \in T
  <2>1. /\ WorstOf(g[i - 1].nodePool, SaidUpTo(pools, reports, i - 1))
        /\ OneOf(g[i - 1].available, SaidUpTo({HostedCluster}, reports, i - 1))
    BY <1>3
  <2> HIDE DEF T
  <2>2. g[i] = WithReport(g[i - 1], pools, reports[i])
    OBVIOUS
  <2>3. WorstOf(g[i].nodePool, SaidUpTo(pools, reports, i))
    BY <2>1, <2>2, WorstOfMore DEF WithReport
  <2>4. OneOf(g[i].available, SaidUpTo({HostedCluster}, reports, i))
    BY <2>1, <2>2, OneMore DEF WithReport
  <2> QED BY <1>1, <2>3, <2>4 DEF T
<1>4. Len(reports) \in T
  <2> HIDE DEF T
  <2>1. 0..Len(reports) \subseteq T
    BY <1>1, <1>2, <1>3, InductionUpTo
  <2> QED BY <1>1, <2>1
<1> QED BY <1>4 DEF StatusesOf, SaidUpTo

=============================================================================
