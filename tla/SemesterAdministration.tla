----------------------- MODULE SemesterAdministration -----------------------
(***************************************************************************)
(* AdminSemestersService: creating, updating, opening and closing           *)
(* semesters.                                                               *)
(*                                                                          *)
(* A request checks names, dates and overlaps with plain reads, then opens  *)
(* a READ COMMITTED transaction that waits for the activation lock, reads   *)
(* which semesters are open, and writes.  Only the last part is protected   *)
(* by the lock.  EvaluationWorkflow models what the same transactions do to *)
(* the forms, as one step; here the transaction is taken apart and forms    *)
(* are reduced to "this semester has some".                                 *)
(*                                                                          *)
(* The partial unique index on is_active is left out: AtMostOneActive is    *)
(* then a fact about the lock and the code under it.                        *)
(***************************************************************************)
EXTENDS Integers

CONSTANTS
    Semesters,          \* ids
    Years, Terms,       \* a semester is a term of a school year
    Days,               \* calendar days
    Creations,          \* the CreateSemesterDto that may arrive
    Updates,            \* the UpdateSemesterDto that may arrive
    Editors,            \* handlers of POST and PATCH
    Switchers,          \* handlers of PATCH toggle-active
    Null, Unset         \* a null column or field; a field left out of a dto

Handlers == Editors \cup Switchers

\* The date columns, in the order validateDateOrder compares them.
DateOrder == <<"startDate", "studentDeadline", "classDeadline",
               "facultyDeadline", "endDate">>
Deadlines == {"studentDeadline", "classDeadline", "facultyDeadline"}
Columns == Deadlines \cup {"startDate", "endDate"}

Semester == [year : Years, term : Terms, dates : [Columns -> Days \cup {Null}],
             isActive : BOOLEAN]
CreateDto == Semester
UpdateDto == [year : Years \cup {Null, Unset}, term : Terms \cup {Null, Unset},
              dates : [Columns -> Days \cup {Null, Unset}],
              isActive : BOOLEAN \cup {Unset}]

ASSUME DaysAssumption  == Days \subseteq Int
ASSUME DtoAssumption   == Creations \subseteq CreateDto /\ Updates \subseteq UpdateDto
ASSUME NullAssumption  == /\ Null \notin Days /\ Null \notin Years /\ Null \notin Terms
                          /\ Null \notin Handlers /\ Null \notin Semester
ASSUME UnsetAssumption == /\ Unset \notin Years /\ Unset \notin Terms /\ Unset \notin Days
                          /\ Unset \notin BOOLEAN /\ Unset # Null

VARIABLES
    semesters,          \* the rows, Null where there is none
    hasForms,           \* the semesters some evaluation form belongs to
    holder,             \* the transaction that holds the activation lock
    requests            \* the requests in flight

vars == <<semesters, hasForms, holder, requests>>

Existing == {s \in Semesters : semesters[s] # Null}
Active == {s \in Existing : semesters[s].isActive}

(* A request: the semester it is about, what it will write (a field is      *)
(* Unset when the UPDATE leaves its column alone), the open semesters it    *)
(* found under the lock, and what it will announce once committed.          *)
Event == {"opened", "closed"} \X Semesters
Request == [step : {"read", "checked", "locked", "committed"},
            op : {"create", "update", "toggle"}, id : Semesters,
            dto : UpdateDto, current : Semester \cup {Null},
            found : SUBSET Semesters, notices : SUBSET Event]

Idle(h) == requests[h] = Null
At(h, step) == requests[h] # Null /\ requests[h].step = step
Set(h, r) == requests' = [requests EXCEPT ![h] = r]

Init ==
    /\ semesters = [s \in Semesters |-> Null]
    /\ hasForms = {}
    /\ holder = Null
    /\ requests = [h \in Handlers |-> Null]

-----------------------------------------------------------------------------
(* The checks outside the transaction.                                      *)

\* Each date that is there against every later one that is there.
validateDateOrder(dates) ==
    \A i, j \in DOMAIN DateOrder :
        (i < j /\ dates[DateOrder[i]] # Null /\ dates[DateOrder[j]] # Null)
            => dates[DateOrder[i]] <= dates[DateOrder[j]]

Overlap(d, e) == d.startDate <= e.endDate /\ e.startDate <= d.endDate

validateNoOverlap(dates, id) ==
    \A s \in Existing \ {id} : ~Overlap(dates, semesters[s].dates)

assertUniqueSemester(year, term, id) ==
    \A s \in Existing \ {id} : <<semesters[s].year, semesters[s].term>> # <<year, term>>

\* The dates an update is validated with.  A field left out falls back to the
\* stored date; a null start or end does too, while a null deadline counts as
\* no deadline.
buildSemesterData(dates, fallback) ==
    [c \in Columns |->
        IF dates[c] = Unset \/ (dates[c] = Null /\ c \notin Deadlines)
        THEN fallback[c] ELSE dates[c]]

\* A year or a semester that is null or left out is the stored one.
Given(new, stored) == IF new \in {Null, Unset} THEN stored ELSE new

\* The columns the UPDATE sets, by the row that was read: a field that was given
\* is set to what it was checked as, so that a null year, semester, start or end
\* writes back what was read.  A deadline given as null is undefined by then, and
\* Prisma leaves a column given undefined as it is.
Written(dto, row) ==
    LET next == buildSemesterData(dto.dates, row.dates) IN
    [year     |-> IF dto.year = Unset THEN Unset ELSE Given(dto.year, row.year),
     term     |-> IF dto.term = Unset THEN Unset ELSE Given(dto.term, row.term),
     dates    |-> [c \in Columns |->
                      IF dto.dates[c] = Unset \/ next[c] = Null THEN Unset ELSE next[c]],
     isActive |-> dto.isActive]

NewRequest(step, op, s, dto) ==
    [step |-> step, op |-> op, id |-> s, dto |-> dto,
     current |-> semesters[s], found |-> {}, notices |-> {}]

\* create: everything is checked before the transaction.
Create(h) ==
    /\ Idle(h)
    /\ \E s \in Semesters \ Existing, dto \in Creations :
        /\ dto.dates.startDate # Null /\ dto.dates.endDate # Null
        /\ validateDateOrder(dto.dates)
        /\ validateNoOverlap(dto.dates, s)
        /\ assertUniqueSemester(dto.year, dto.term, s)
        /\ Set(h, NewRequest("checked", "create", s, dto))
    /\ UNCHANGED <<semesters, hasForms, holder>>

\* What a semester with forms must not change.
ChangesIdentity(dto) ==
    \/ dto.year # Unset \/ dto.term # Unset
    \/ dto.dates.startDate # Unset
    \/ dto.dates.endDate # Unset

\* update: findRecordById and hasEvaluationForms.
Read(h) ==
    /\ Idle(h)
    /\ \E s \in Existing, dto \in Updates :
        /\ ~(s \in hasForms /\ ChangesIdentity(dto))
        /\ Set(h, NewRequest("read", "update", s, dto))
    /\ UNCHANGED <<semesters, hasForms, holder>>

\* Mutant: the overlap is checked only when both ends are given.
CheckBothEnds(h) ==
    /\ At(h, "read")
    /\ LET r == requests[h]
           year == Given(r.dto.year, r.current.year)
           term == Given(r.dto.term, r.current.term)
           next == buildSemesterData(r.dto.dates, r.current.dates)
       IN /\ <<year, term>> # <<r.current.year, r.current.term>> =>
                 assertUniqueSemester(year, term, r.id)
          /\ validateDateOrder(next)
          /\ (r.dto.dates.startDate # Unset /\ r.dto.dates.endDate # Unset) =>
                 validateNoOverlap(next, r.id)
          /\ Set(h, [r EXCEPT !.step = "checked", !.dto = Written(@, r.current)])
    /\ UNCHANGED <<semesters, hasForms, holder>>

\* The rest of update's checks, against the row as it was read.
Check(h) ==
    /\ At(h, "read")
    /\ LET r == requests[h]
           year == Given(r.dto.year, r.current.year)
           term == Given(r.dto.term, r.current.term)
           next == buildSemesterData(r.dto.dates, r.current.dates)
       IN /\ <<year, term>> # <<r.current.year, r.current.term>> =>
                 assertUniqueSemester(year, term, r.id)
          /\ validateDateOrder(next)
          /\ (r.dto.dates.startDate # Unset \/ r.dto.dates.endDate # Unset) =>
                 validateNoOverlap(next, r.id)
          /\ Set(h, [r EXCEPT !.step = "checked", !.dto = Written(@, r.current)])
    /\ UNCHANGED <<semesters, hasForms, holder>>

OnlyActive(active) ==
    [year |-> Unset, term |-> Unset, dates |-> [c \in Columns |-> Unset],
     isActive |-> active]

\* toggleActive checks nothing before its transaction.
Toggle(h) ==
    /\ Idle(h)
    /\ \E s \in Existing, active \in BOOLEAN :
        Set(h, NewRequest("checked", "toggle", s, OnlyActive(active)))
    /\ UNCHANGED <<semesters, hasForms, holder>>

-----------------------------------------------------------------------------
(* The transaction.                                                         *)

\* Mutant: an advisory lock that does not exclude.
LockShared(h) ==
    /\ At(h, "checked")
    /\ holder' = h
    /\ Set(h, [requests[h] EXCEPT !.step = "locked", !.found = Active])
    /\ UNCHANGED <<semesters, hasForms>>

\* lockSemesterActivation, then the reads under it: the row's isActive and the
\* semesters to close.
Lock(h) ==
    /\ At(h, "checked")
    /\ holder = Null
    /\ holder' = h
    /\ Set(h, [requests[h] EXCEPT !.step = "locked", !.found = Active])
    /\ UNCHANGED <<semesters, hasForms>>

\* The row after the UPDATE of a dto.
Applied(row, dto) ==
    [year     |-> IF dto.year = Unset THEN row.year ELSE dto.year,
     term     |-> IF dto.term = Unset THEN row.term ELSE dto.term,
     dates    |-> [c \in Columns |->
                      IF dto.dates[c] = Unset THEN row.dates[c] ELSE dto.dates[c]],
     isActive |-> IF dto.isActive = Unset THEN row.isActive ELSE dto.isActive]

Opens(r) == r.dto.isActive = TRUE

\* update and toggleActive decide by the row read under the lock.
WasActive(r) == r.id \in r.found

\* Mutant: whether the semester was open is taken from the first read.
ClosesOfFirstRead(r) ==
    LET was == r.current # Null /\ r.current.isActive
    IN IF Opens(r) /\ ~(r.op = "update" /\ was) THEN r.found \ {r.id} ELSE {}

\* The semesters a request closes: create and toggle close every other open
\* one whenever they open theirs, update only when it was closed.
Closes(r) ==
    IF Opens(r) /\ ~(r.op = "update" /\ WasActive(r)) THEN r.found \ {r.id} ELSE {}

\* Mutant: whether the semester was open is taken from the first read.
NoticesOfFirstRead(r) ==
    LET was == r.current # Null /\ r.current.isActive IN
    IF r.op = "create" THEN {}
    ELSE {<<"closed", s>> : s \in Closes(r)}
         \cup {<<"closed", s>> : s \in {x \in {r.id} : r.dto.isActive = FALSE /\ was}}
         \cup {<<"opened", s>> : s \in {x \in {r.id} : Opens(r) /\ ~was}}

\* What is announced after the commit; create announces nothing.
NoticesOf(r) ==
    IF r.op = "create" THEN {}
    ELSE {<<"closed", s>> : s \in Closes(r)}
         \cup {<<"closed", s>> : s \in {x \in {r.id} : r.dto.isActive = FALSE
                                                       /\ WasActive(r)}}
         \cup {<<"opened", s>> : s \in {x \in {r.id} : Opens(r) /\ ~WasActive(r)}}

Closed(row) == [row EXCEPT !.isActive = FALSE]

\* The writes and the COMMIT, which gives the lock back.  The database refuses
\* the year and term of another semester, and an id cannot be inserted twice.
Write(h) ==
    /\ At(h, "locked")
    /\ LET r == requests[h]
           row == IF r.op = "create" THEN r.dto ELSE Applied(semesters[r.id], r.dto)
       IN /\ r.op = "create" => r.id \notin Existing
          /\ assertUniqueSemester(row.year, row.term, r.id)
          /\ semesters' = [s \in Semesters |->
                IF s = r.id THEN row
                ELSE IF s \in Closes(r) THEN Closed(semesters[s]) ELSE semesters[s]]
          /\ Set(h, [r EXCEPT !.step = "committed", !.notices = NoticesOf(r)])
    /\ holder' = Null
    /\ UNCHANGED hasForms

\* The response is sent; the notices go to createMany in the background.
Finish(h) ==
    /\ At(h, "committed")
    /\ Set(h, Null)
    /\ UNCHANGED <<semesters, hasForms, holder>>

\* A refused check, a conflict of the database, an error or a crash: nothing is
\* written, and a transaction's lock goes with it.
Fail(h) ==
    /\ requests[h] # Null
    /\ Set(h, Null)
    /\ holder' = IF holder = h THEN Null ELSE holder
    /\ UNCHANGED <<semesters, hasForms>>

\* TrainingEvaluationsService.create, of a student: it takes no lock.
CreateForm ==
    /\ \E s \in Existing \ hasForms : hasForms' = hasForms \cup {s}
    /\ UNCHANGED <<semesters, holder, requests>>

Next ==
    \/ \E h \in Editors : Create(h) \/ Read(h) \/ Check(h)
    \/ \E h \in Switchers : Toggle(h)
    \/ \E h \in Handlers : Lock(h) \/ Write(h) \/ Finish(h) \/ Fail(h)
    \/ CreateForm

Spec == Init /\ [][Next]_vars

-----------------------------------------------------------------------------
TypeOK ==
    /\ semesters \in [Semesters -> Semester \cup {Null}]
    /\ hasForms \subseteq Semesters
    /\ holder \in Handlers \cup {Null}
    /\ requests \in [Handlers -> Request \cup {Null}]

\* At most one semester is open, whatever administrators create, switch and
\* edit at once: each closes what it found open, and only the activation lock
\* makes that still be all there is when it writes.
AtMostOneActive == \A s, t \in Active : s = t

Switches == INSTANCE SemesterSwitch
    WITH state <- [s \in Semesters |-> IF s \notin Existing THEN "absent"
                                       ELSE IF s \in Active THEN "open" ELSE "closed"]

\* The transactions, taken apart here, are the atomic switches that
\* EvaluationWorkflow supposes: at the commit, whatever a request read before.
ImplementsSwitch == Switches!Spec

\* Students are told of exactly the openings and closings their request
\* brought about, no matter who else switched semesters since it first read
\* the row.  Creating an open semester tells nobody.
Flips == {<<"closed", s>> : s \in Active \ Active'}
         \cup {<<"opened", s>> : s \in Active' \ Active}
NoticesMatchSwitches ==
    [][\A h \in Handlers :
          (At(h, "locked") /\ At(h, "committed")' /\ requests[h].op # "create")
              => requests'[h].notices = Flips]_vars

\* With one editor at a time, no sequence of creations and partial updates
\* makes two semesters overlap: an update that gives one end is checked with
\* the other end as stored.
NoOverlap ==
    \A s, t \in Existing : s # t => ~Overlap(semesters[s].dates, semesters[t].dates)

\* What validateDateOrder asks of a request holds of the stored row.
DatesOrdered == \A s \in Existing : validateDateOrder(semesters[s].dates)

\* A semester that has forms keeps its year, term and dates, as update's refusal
\* says.
UsedSemesterKept ==
    [][\A s \in hasForms :
          /\ semesters'[s].year = semesters[s].year
          /\ semesters'[s].term = semesters[s].term
          /\ \A c \in {"startDate", "endDate"} :
                semesters'[s].dates[c] = semesters[s].dates[c]]_vars

=============================================================================
