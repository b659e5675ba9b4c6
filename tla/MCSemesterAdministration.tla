---------------------- MODULE MCSemesterAdministration ----------------------
(* Instances of SemesterAdministration for TLC. *)
EXTENDS SemesterAdministration, TLC

CONSTANTS y1, y2, t1, t2, s1, s2

Dates(from, due, to) ==
    [c \in Columns |-> CASE c = "startDate" -> from
                         [] c = "endDate" -> to
                         [] c = "studentDeadline" -> due
                         [] OTHER -> Null]

\* New semesters of every order of their dates, with the deadlines of dues.
Creating(dues) ==
    {[year |-> y, term |-> t, dates |-> Dates(from, due, to), isActive |-> a] :
        y \in Years, t \in Terms, from \in {1, 2}, due \in dues, to \in {1, 2},
        a \in BOOLEAN}

None == [c \in {} |-> 0]
Only(dates) == [c \in Columns |-> IF c \in DOMAIN dates THEN dates[c] ELSE Unset]
Patch(year, term, dates, active) ==
    [year |-> year, term |-> term, dates |-> Only(dates), isActive |-> active]

\* A year alone, a term with a null year, a switch, one end of the period.
Updating ==
    {Patch(y, Unset, None, Unset) : y \in Years}
    \cup {Patch(Null, t, None, Unset) : t \in Terms}
    \cup {Patch(Unset, Unset, None, a) : a \in BOOLEAN}
    \cup {Patch(Unset, Unset, c :> d, Unset) : c \in {"startDate", "endDate"},
                                               d \in Days \cup {Null}}

UndatedCreations == Creating({Null})

SomeCreations == Creating({Null, 2})

\* Deadlines too: set or cleared alone, or cleared with the end of the period.
SomeUpdates ==
    Updating
    \cup {Patch(Unset, Unset, "studentDeadline" :> d, Unset) : d \in {Null, 1}}
    \cup {Patch(Unset, Unset, "studentDeadline" :> Null @@ "endDate" :> 1, a) :
             a \in {Unset, TRUE}}

Interchangeable ==
    Permutations({s1, s2}) \cup Permutations({y1, y2}) \cup Permutations({t1, t2})
=============================================================================
