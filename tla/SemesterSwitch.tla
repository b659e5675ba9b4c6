--------------------------- MODULE SemesterSwitch ---------------------------
(***************************************************************************)
(* What administering semesters comes to for everybody else: a semester is  *)
(* created, opened or closed in one step, and opening one closes whichever  *)
(* was open in the same step.                                               *)
(*                                                                          *)
(* EvaluationWorkflow takes these steps to be atomic; SemesterAdministration*)
(* takes the transactions apart.  Both are shown to implement this module,  *)
(* so the one may rely on what the other describes.                         *)
(***************************************************************************)
CONSTANT Semesters

VARIABLE state      \* "absent", "closed" or "open", of each semester

Init == state = [s \in Semesters |-> "absent"]

Create(s) ==
    /\ state[s] = "absent"
    /\ state' = [state EXCEPT ![s] = "closed"]

\* A semester that exists, or a new one that is created open.
Open(s) ==
    state' = [t \in Semesters |-> IF t = s THEN "open"
                                  ELSE IF state[t] = "open" THEN "closed"
                                  ELSE state[t]]

Close(s) ==
    /\ state[s] = "open"
    /\ state' = [state EXCEPT ![s] = "closed"]

Next == \E s \in Semesters : Create(s) \/ Open(s) \/ Close(s)

Spec == Init /\ [][Next]_state

=============================================================================
