------------------------- MODULE MCStudentEnrolment -------------------------
(* Instances of StudentEnrolment for TLC. *)
EXTENDS StudentEnrolment, TLC

CONSTANTS o1, o2, o3, o4, p1, p2, p3, p4, A, B, k1, k2, k3, u1, u2

Asked(kind, person, class, code) ==
    [kind |-> kind, person |-> person, class |-> class, code |-> code,
     user |-> u1, rows |-> <<>>]
File(rows) == [Asked("import", p1, Null, Null) EXCEPT !.rows = rows]
Listed(person, class, code, phone) ==
    [person |-> person, class |-> class, code |-> code, phone |-> phone]
Confirm(user) == [Asked("confirm", p1, Null, Null) EXCEPT !.user = user]

\* p1 is in class A, p2 has an account and no class, p3 is new; p4 is no student.
Accounts == p1 :> "live" @@ p2 :> "live" @@ p3 :> "absent" @@ p4 :> "live"
Enrolments == p1 :> [id |-> Initial, class |-> A, code |-> k1, deleted |-> FALSE]
              @@ p2 :> Null @@ p3 :> Null @@ p4 :> Null

AllRequests == {
    Asked("add", p1, B, k1), Asked("add", p2, A, k2), Asked("remove", p1, A, Null),
    Asked("update", p1, Null, k3), Asked("update", p1, B, Null),
    Asked("delete", p1, Null, Null), Asked("deleteUser", p3, Null, Null),
    Asked("create", p3, A, k2), Asked("create", p3, Null, Null),
    Asked("createUser", p3, Null, Null), Asked("form", p1, Null, Null),
    File(<<Listed(p1, A, k1, TRUE), Listed(p2, A, k2, FALSE), Listed(p3, A, k3, FALSE)>>),
    File(<<Listed(p2, B, k2, FALSE), Listed(p2, B, k3, FALSE)>>),
    File(<<Listed(p4, A, k2, FALSE)>>),
    Confirm(u1), Confirm(u2)}

FieldRequests == {
    Asked("add", p1, B, k1), Asked("update", p1, Null, k3), Asked("update", p1, B, Null)}

CallerSymmetry == Permutations(Callers)
=============================================================================
