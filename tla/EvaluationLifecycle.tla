------------------------ MODULE EvaluationLifecycle ------------------------
(***************************************************************************)
(* What the evaluation module promises of each form: every change is one    *)
(* step, allowed by the form as it is at that step.  There are no requests, *)
(* snapshots or versions here; EvaluationWorkflow is shown to implement     *)
(* this, so its optimistic two-step requests never do what an atomic        *)
(* request could not.  A batch is a step of several forms.                  *)
(***************************************************************************)
EXTENDS EvaluationDomain

CONSTANTS
    Forms, Semesters, SemesterOf,
    NoWork      \* the student's work on a form nobody has filled in

VARIABLES
    card,       \* status, lock, student's work, scores and signatures of a form
    open        \* the open semesters

Blank == [status |-> "draft", locked |-> FALSE, work |-> NoWork,
          classScore |-> Null, finalScore |-> Null, signed |-> {}]

\* No form exists, no semester is open.
Init ==
    /\ card = [f \in Forms |-> [Blank EXCEPT !.status = "none"]]
    /\ open = {}

\* A new round: nothing of an earlier one is left.
NewRound(c, status) == [c EXCEPT !.status = status, !.classScore = Null,
                                 !.finalScore = Null, !.signed = {}]
At(role, c) == c.status \in StageOf(role).from

\* One form, from card c to card d.
Student(c, d) ==
    /\ Editable(c.status) /\ ~c.locked
    /\ \/ d = [c EXCEPT !.work = d.work]
       \/ d = NewRound(c, submit.target)

\* Scoring takes back one's confirmation; confirming needs a score.
Review(role, c, d) ==
    /\ At(role, c) /\ ~c.locked
    /\ d.classScore # Null
    /\ d = [c EXCEPT !.classScore = d.classScore, !.signed = d.signed]
    /\ d.signed \in {c.signed \ {role}, c.signed \cup {role}}

\* Up one step, signed by the role of the step; an advisor's form has a score.
Approve(role, c, d) ==
    /\ At(role, c)
    /\ role = "advisor" => d.classScore # Null
    /\ d = [c EXCEPT !.status = StageOf(role).target,
                     !.classScore = IF role = "advisor" THEN d.classScore ELSE @,
                     !.signed = @ \cup {role}]

\* A batch hands on only unlocked forms that their reviewer has signed.
Forward(role, c, d) ==
    /\ At(role, c) /\ ~c.locked
    /\ role # "faculty" => role \in c.signed
    /\ role # "classLeader" => c.classScore # Null
    /\ d = [c EXCEPT !.status = StageOf(role).target]

Finalize(c, d) ==
    /\ At("admin", c) /\ c.classScore # Null
    /\ d.finalScore # Null
    /\ d = [c EXCEPT !.status = finalize.target, !.finalScore = d.finalScore,
                     !.signed = @ \cup {"admin"}]

Return(c, d) ==
    \/ c.status \in reject.from /\ d = NewRound(c, reject.target)
    \/ c.status \in reopen.from /\ d = NewRound(c, reopen.target)

FormStep(c, d) ==
    \/ Student(c, d)
    \/ \E role \in {"classLeader", "advisor"} : Review(role, c, d) \/ Approve(role, c, d)
    \/ \E role \in {"classLeader", "advisor", "faculty"} : Forward(role, c, d)
    \/ Finalize(c, d)
    \/ c.status # "none" /\ Return(c, d)

Create(f) ==
    /\ card[f].status = "none"
    /\ card' = [card EXCEPT ![f] = Blank]
    /\ UNCHANGED open

Work ==
    /\ card' = [f \in Forms |-> card'[f]]
    /\ \A f \in Forms : card'[f] = card[f] \/ FormStep(card[f], card'[f])
    /\ UNCHANGED open

\* A lock changes only to follow a semester: a semester that closes locks its
\* forms, and no form of an open one is left locked.
Switch ==
    /\ open' \subseteq Semesters
    /\ card' = [f \in Forms |-> card'[f]]
    /\ \A f \in Forms :
          /\ \/ card'[f] = card[f]
             \/ card'[f] = [card[f] EXCEPT !.locked = SemesterOf[f] \notin open']
          /\ card[f].status # "none" =>
                /\ SemesterOf[f] \in open' => ~card'[f].locked
                /\ SemesterOf[f] \in open \ open' => card'[f].locked

Next == (\E f \in Forms : Create(f)) \/ Work \/ Switch

Spec == Init /\ [][Next]_<<card, open>>

=============================================================================
