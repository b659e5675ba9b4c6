-------------------------- MODULE EvaluationDomain --------------------------
(***************************************************************************)
(* The pure rules of a conduct-evaluation form ("phieu"): which status      *)
(* changes exist, which role works at which step, and how scores become     *)
(* totals and a classification.  No state; every evaluation module uses it. *)
(* Source: training-evaluations/domain/{evaluation-transition,              *)
(* score-calculator}.ts.                                                    *)
(***************************************************************************)
EXTENDS Integers, Functions

CONSTANT Null        \* an empty database column

Statuses == {"draft", "submitted", "class_leader_approved", "class_approved",
             "faculty_approved", "finalized", "rejected"}

-----------------------------------------------------------------------------
(* EVALUATION_TRANSITIONS: the only edges of a form's life.                 *)

Transition(sources, target) == [from |-> sources, target |-> target]

submit              == Transition({"draft", "rejected"}, "submitted")
classLeaderApproval == Transition({"submitted"}, "class_leader_approved")
advisorApproval     == Transition({"class_leader_approved"}, "class_approved")
facultyApproval     == Transition({"class_approved"}, "faculty_approved")
finalize            == Transition({"faculty_approved"}, "finalized")
reject              == Transition({"submitted", "class_leader_approved",
                                   "faculty_approved"}, "rejected")
reopen              == Transition(Statuses \ {"draft"}, "draft")

\* Every transition but the administrative exception `reopen`.
WorkflowTransitions == {submit, classLeaderApproval, advisorApproval,
                        facultyApproval, finalize, reject}

CanTransition(current, target) ==
    \E t \in WorkflowTransitions : t.target = target /\ current \in t.from

\* A draft is editable exactly where it may be submitted.
Editable(status) == CanTransition(status, submit.target)

\* The transition a role decides on: REVIEW_STAGES for the three roles of a
\* review decision; the faculty only forwards batches.
StageOf(role) == CASE role = "classLeader" -> classLeaderApproval
                   [] role = "advisor"     -> advisorApproval
                   [] role = "faculty"     -> facultyApproval
                   [] role = "admin"       -> finalize

-----------------------------------------------------------------------------
(* Scores.                                                                  *)

Ranks == {"excellent", "good", "fair", "average", "weak", "poor"}

Classify(score) == IF      score >= 90 THEN "excellent"
                   ELSE IF score >= 80 THEN "good"
                   ELSE IF score >= 65 THEN "fair"
                   ELSE IF score >= 50 THEN "average"
                   ELSE IF score >= 35 THEN "weak"
                   ELSE "poor"

\* The self-assessed total: the sum of the sections, capped at 100.
StudentTotal(sections) ==
    LET sum == SumFunction(sections) IN IF sum > 100 THEN 100 ELSE sum

\* The sum of the criteria a reviewer has scored (class_score not null).
Scored(sheet) == {c \in DOMAIN sheet : sheet[c] # Null}
SheetTotal(sheet) == SumFunctionOnSet(sheet, Scored(sheet))

=============================================================================
