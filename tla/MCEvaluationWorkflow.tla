------------------------ MODULE MCEvaluationWorkflow ------------------------
(* Instances of EvaluationWorkflow for TLC. *)
EXTENDS EvaluationWorkflow, TLC

CONSTANTS f1, f2, c1, h1, h2

\* One form, or two forms of one class, of one semester.
SameClass == [f \in Forms |-> c1]
SameSemester == [f \in Forms |-> h1]
\* At most 50 points for each of two criteria.
HalfEach == [c \in Criteria |-> 50]
\* Two forms of one student, a semester each.
OneEach == f1 :> h1 @@ f2 :> h2

HandlerSymmetry == Permutations(Handlers)
FormSymmetry == Permutations(Handlers) \cup Permutations(Forms)

\* A view that forgets absolute versions, what a request holds once a version
\* it read is out of date (all it can do is Fail), and every stored key whose
\* versions were all claimed: a later write of those forms claims higher ones.
\* Exploration is then complete for any number of writes below MaxVersion.
Outlook(w) ==
    IF pending[w] = Idle THEN <<"idle">>
    ELSE IF ~Fresh(w) THEN <<"stale">>
    ELSE <<pending[w].op, pending[w].by, Selected(w),
           \A f \in Selected(w) : Snap(w)[f] = forms[f]>>
Unclaimed == {k \in notices : \E p \in k.forms : p[2] \notin 1..forms[p[1]].version}
VersionlessView == <<[f \in Forms |-> [forms[f] EXCEPT !.version = 0]],
                     semesters, [w \in Handlers |-> Outlook(w)], Unclaimed>>
=============================================================================
