------------------- MODULE SemesterAdministration_proofs -------------------
(***************************************************************************)
(* Proofs about SemesterAdministration for any number of semesters,         *)
(* administrators and requests.                                             *)
(***************************************************************************)
EXTENDS SemesterAdministration, TLAPS

\* Who is past the lock holds it, and what it found open is what is open.
FoundIsActive ==
    \A h \in Handlers : At(h, "locked") =>
        holder = h /\ requests[h].found = Active

\* What an UPDATE is given: no null year or term any more.
Patch == {dto \in UpdateDto : dto.year # Null /\ dto.term # Null}

\* A request is about a row that exists, or brings a whole new one; what it
\* will write is settled by its check, from the row it has read.
Sound(r) ==
    IF r.op = "create" THEN r.dto \in Semester /\ r.step # "read"
    ELSE /\ r.id \in Existing
         /\ IF r.step = "read" THEN r.current \in Semester ELSE r.dto \in Patch
Grounded == \A h \in Handlers : requests[h] # Null => Sound(requests[h])

\* The inductive invariant.
Inv == TypeOK /\ AtMostOneActive /\ FoundIsActive /\ Grounded

-----------------------------------------------------------------------------
\* A new row is a dto like any other.
LEMMA CreateIsUpdate == Semester \subseteq UpdateDto
BY DEF Semester, UpdateDto

\* A request that has just been accepted has its type.
LEMMA NewRequestType ==
    ASSUME TypeOK, NEW step \in {"read", "checked"},
           NEW op \in {"create", "update", "toggle"},
           NEW s \in Semesters, NEW dto \in UpdateDto
    PROVE  NewRequest(step, op, s, dto) \in Request
BY DEF TypeOK, NewRequest, Request

\* What an update writes: its own fields, each with a value or left out.
LEMMA WrittenType ==
    ASSUME NEW row \in Semester, NEW dto \in UpdateDto
    PROVE  /\ Written(dto, row) \in Patch
           /\ ~ChangesIdentity(dto) => ~ChangesIdentity(Written(dto, row))
<1> DEFINE w == Written(dto, row)
<1>1. /\ row.year \in Years /\ row.term \in Terms
      /\ row.dates \in [Columns -> Days \cup {Null}]
  BY DEF Semester
<1>2. /\ dto.year \in Years \cup {Null, Unset} /\ dto.term \in Terms \cup {Null, Unset}
      /\ dto.dates \in [Columns -> Days \cup {Null, Unset}]
      /\ dto.isActive \in BOOLEAN \cup {Unset}
  BY DEF UpdateDto
<1>3. w.year \in Years \cup {Unset} /\ w.term \in Terms \cup {Unset}
  BY <1>1, <1>2 DEF Written, Given
<1>4. w.dates \in [Columns -> Days \cup {Null, Unset}]
  <2>1. \A c \in Columns : w.dates[c] \in Days \cup {Null, Unset}
    BY <1>1, <1>2 DEF Written, buildSemesterData
  <2>2. w.dates = [c \in Columns |-> w.dates[c]]
    BY DEF Written
  <2> HIDE DEF w
  <2> QED
    BY <2>1, <2>2
<1>5. w = [year |-> w.year, term |-> w.term, dates |-> w.dates, isActive |-> w.isActive]
      /\ w.isActive = dto.isActive
  BY DEF Written
<1>6. Null # Unset /\ Null \notin Years /\ Null \notin Terms
  BY NullAssumption, UnsetAssumption
<1>7. ~ChangesIdentity(dto) => ~ChangesIdentity(w)
  BY DEF Written, ChangesIdentity, Columns
<1> HIDE DEF w
<1>8. w \in UpdateDto
  BY <1>2, <1>3, <1>4, <1>5 DEF UpdateDto
<1>9. w.year # Null /\ w.term # Null
  BY <1>3, <1>6
<1>10. w \in Patch
  BY <1>8, <1>9 DEF Patch
<1> QED
  BY <1>7, <1>10 DEF w

\* The updated row is a row.
LEMMA AppliedType ==
    ASSUME NEW row \in Semester, NEW dto \in Patch
    PROVE  Applied(row, dto) \in Semester
<1> USE DEF Applied, Semester, UpdateDto, Patch
<1>1. Applied(row, dto).year \in Years /\ Applied(row, dto).term \in Terms
  OBVIOUS
<1>2. Applied(row, dto).dates \in [Columns -> Days \cup {Null}]
  OBVIOUS
<1>3. Applied(row, dto).isActive \in BOOLEAN
  OBVIOUS
<1> QED
  BY <1>1, <1>2, <1>3

\* The row a request writes.
NewRow(h) == IF requests[h].op = "create" THEN requests[h].dto
             ELSE Applied(semesters[requests[h].id], requests[h].dto)

LEMMA NewRowType ==
    ASSUME Inv, NEW h \in Handlers, At(h, "locked")
    PROVE  NewRow(h) \in Semester
<1> requests[h] \in Request /\ requests[h] # Null /\ requests[h].step = "locked"
  BY DEF Inv, TypeOK, At
<1>1. CASE requests[h].op = "create"
  BY <1>1 DEF NewRow, Inv, Grounded, Sound
<1>2. CASE requests[h].op # "create"
  <2> semesters[requests[h].id] \in Semester
    BY <1>2 DEF Inv, Grounded, Sound, Existing, TypeOK, Request
  <2> requests[h].dto \in Patch
    BY <1>2 DEF Inv, Grounded, Sound
  <2> QED
    BY <1>2, AppliedType DEF NewRow
<1> QED
  BY <1>1, <1>2

-----------------------------------------------------------------------------
\* What a transaction leaves open: its semester if it opens it (or leaves it
\* open), and of the others those it does not close.
LEMMA WriteActive ==
    ASSUME Inv, NEW h \in Handlers, Write(h)
    PROVE  /\ semesters' \in [Semesters -> Semester \cup {Null}]
           /\ \A s \in Semesters : s \in Existing => s \in Existing'
           /\ requests[h].id \in Active' <=> NewRow(h).isActive
           /\ \A s \in Semesters : s # requests[h].id =>
                  (s \in Active' <=> s \in Active /\ s \notin Closes(requests[h]))
<1> DEFINE r == requests[h]
<1>1. r \in Request /\ r # Null /\ At(h, "locked") /\ r.id \in Semesters
  BY DEF Inv, TypeOK, Write, At, Request
<1>2. NewRow(h) \in Semester
  BY <1>1, NewRowType DEF Write
<1>3. semesters' = [s \in Semesters |->
                IF s = r.id THEN NewRow(h)
                ELSE IF s \in Closes(r) THEN Closed(semesters[s]) ELSE semesters[s]]
  BY DEF Write, NewRow
<1>4. Closes(r) \subseteq Active
  BY <1>1 DEF Inv, FoundIsActive, Closes
<1>5. \A s \in Active : semesters[s] \in Semester /\ semesters[s] # Null
  BY DEF Active, Existing, Inv, TypeOK
<1>6. Null \notin Semester
  BY NullAssumption
<1>7. ASSUME NEW s \in Semesters
      PROVE  /\ semesters'[s] \in Semester \cup {Null}
             /\ s \in Existing => s \in Existing'
  <2>1. CASE s = r.id
    BY <2>1, <1>2, <1>3, <1>6 DEF Existing
  <2>2. CASE s # r.id /\ s \in Closes(r)
    <3> semesters'[s] = Closed(semesters[s])
      BY <2>2, <1>3
    <3> semesters'[s] \in Semester
      BY <2>2, <1>4, <1>5 DEF Semester, Closed
    <3> QED
      BY <1>6 DEF Existing
  <2>3. CASE s # r.id /\ s \notin Closes(r)
    BY <2>3, <1>3 DEF Existing, Inv, TypeOK
  <2> QED
    BY <2>1, <2>2, <2>3
<1>8. r.id \in Active' <=> NewRow(h).isActive
  <2> semesters'[r.id] = NewRow(h)
    BY <1>1, <1>3
  <2> QED
    BY <1>1, <1>2, <1>6 DEF Active, Existing
<1>9. ASSUME NEW s \in Semesters, s # r.id
      PROVE  s \in Active' <=> s \in Active /\ s \notin Closes(r)
  <2>1. CASE s \in Closes(r)
    <3> semesters'[s] = Closed(semesters[s])
      BY <2>1, <1>3, <1>9
    <3> semesters'[s].isActive = FALSE
      BY <2>1, <1>4, <1>5 DEF Semester, Closed
    <3> QED
      BY <2>1 DEF Active
  <2>2. CASE s \notin Closes(r)
    <3> semesters'[s] = semesters[s]
      BY <2>2, <1>3, <1>9
    <3> QED
      BY <2>2 DEF Active, Existing
  <2> QED
    BY <2>1, <2>2
<1> QED
  <2>1. semesters' \in [Semesters -> Semester \cup {Null}]
    <3> DEFINE f(s) == IF s = r.id THEN NewRow(h)
                ELSE IF s \in Closes(r) THEN Closed(semesters[s]) ELSE semesters[s]
    <3>1. semesters' = [s \in Semesters |-> f(s)]
      BY <1>3
    <3>2. \A s \in Semesters : f(s) \in Semester \cup {Null}
      BY <1>7, <3>1
    <3> HIDE DEF f
    <3> QED
      BY <3>1, <3>2
  <2> QED
    BY <2>1, <1>7, <1>8, <1>9

\* A write adds at most its own row, and changes the dates of no other.
LEMMA WriteRows ==
    ASSUME Inv, NEW h \in Handlers, Write(h)
    PROVE  LET id == requests[h].id IN
           /\ id \in Semesters /\ semesters'[id] = NewRow(h)
           /\ Existing' = Existing \cup {id}
           /\ \A s \in Existing \ {id} : semesters'[s].dates = semesters[s].dates
<1> DEFINE r == requests[h]
<1>1. r \in Request /\ r # Null /\ r.id \in Semesters /\ r.found = Active
  BY DEF Write, Inv, TypeOK, At, FoundIsActive, Request
<1>2. semesters' = [s \in Semesters |->
                IF s = r.id THEN NewRow(h)
                ELSE IF s \in Closes(r) THEN Closed(semesters[s]) ELSE semesters[s]]
  BY DEF Write, NewRow
<1>3. Closes(r) \subseteq Existing
  BY <1>1 DEF Closes, Active
<1>4. \A s \in Existing : /\ semesters[s] \in Semester
                          /\ Closed(semesters[s]) \in Semester
                          /\ Closed(semesters[s]).dates = semesters[s].dates
  BY DEF Existing, Inv, TypeOK, Closed, Semester
<1>5. NewRow(h) \in Semester /\ Null \notin Semester
  BY <1>1, NewRowType, NullAssumption DEF Write
<1>6. semesters'[r.id] = NewRow(h)
  BY <1>1, <1>2
<1>7. \A s \in Existing \ {r.id} :
          semesters'[s] \in Semester /\ semesters'[s].dates = semesters[s].dates
  BY <1>2, <1>4 DEF Existing
<1>8. \A s \in Semesters \ (Existing \cup {r.id}) : semesters'[s] = Null
  BY <1>2, <1>3 DEF Existing
<1>9. Existing' = Existing \cup {r.id}
  BY <1>1, <1>5, <1>6, <1>7, <1>8 DEF Existing
<1> QED
  BY <1>1, <1>6, <1>7, <1>9

\* A step that writes no row opens and closes nothing.
LEMMA RowsKept ==
    ASSUME UNCHANGED semesters
    PROVE  Existing' = Existing /\ Active' = Active
BY DEF Existing, Active

\* The initial state satisfies the invariant.
LEMMA InvInit == Init => Inv
BY NullAssumption
   DEF Init, Inv, TypeOK, AtMostOneActive, FoundIsActive, Grounded, Sound, Active,
       Existing, At

-----------------------------------------------------------------------------
(* Steps that write no row: they change one request, and perhaps the lock.  *)

\* The requests after a step of h.
LEMMA SetType ==
    ASSUME TypeOK, NEW h \in Handlers, NEW r \in Request \cup {Null}, Set(h, r)
    PROVE  /\ requests' \in [Handlers -> Request \cup {Null}]
           /\ requests'[h] = r
           /\ \A g \in Handlers : g # h => requests'[g] = requests[g]
BY DEF TypeOK, Set

\* What keeps the invariant when no row changes: the new request is grounded,
\* and locked only with the lock and a fresh look at what is open.
LEMMA QuietStep ==
    ASSUME Inv, UNCHANGED semesters, hasForms' \subseteq Semesters,
           NEW h \in Handlers, NEW r \in Request \cup {Null}, Set(h, r),
           holder' \in Handlers \cup {Null},
           r # Null => Sound(r),
           (r # Null /\ r.step = "locked") => holder' = h /\ r.found = Active,
           \A g \in Handlers \ {h} : holder = g => holder' = g
    PROVE  Inv'
<1>1. /\ requests' \in [Handlers -> Request \cup {Null}]
      /\ requests'[h] = r
      /\ \A g \in Handlers : g # h => requests'[g] = requests[g]
  BY SetType DEF Inv
<1>2. Existing' = Existing /\ Active' = Active
  BY RowsKept
<1>3. TypeOK'
  BY <1>1 DEF Inv, TypeOK
<1>4. AtMostOneActive'
  BY <1>2 DEF Inv, AtMostOneActive
<1>5. FoundIsActive'
  BY <1>1, <1>2 DEF Inv, FoundIsActive, At
<1>6. Grounded'
  BY <1>1, <1>2 DEF Inv, Grounded, Sound
<1> QED
  BY <1>3, <1>4, <1>5, <1>6 DEF Inv

\* Accepting a request.
LEMMA AcceptStep ==
    ASSUME Inv, NEW h \in Handlers, Create(h) \/ Read(h) \/ Toggle(h)
    PROVE  Inv'
<1> USE DEF Inv, TypeOK
<1>1. CASE Create(h)
  <2> PICK s \in Semesters \ Existing, dto \in Creations :
        Set(h, NewRequest("checked", "create", s, dto))
    BY <1>1 DEF Create
  <2>1. dto \in Semester
    BY DtoAssumption DEF CreateDto, Semester
  <2>2. NewRequest("checked", "create", s, dto) \in Request
    BY <2>1, CreateIsUpdate, NewRequestType
  <2> QED
    BY <1>1, <2>1, <2>2, QuietStep DEF Create, NewRequest, Sound
<1>2. CASE Read(h)
  <2> PICK s \in Existing, dto \in Updates :
        Set(h, NewRequest("read", "update", s, dto))
    BY <1>2 DEF Read
  <2>1. NewRequest("read", "update", s, dto) \in Request
    BY DtoAssumption, NewRequestType DEF Existing
  <2>2. semesters[s] \in Semester
    BY DEF Existing
  <2> QED
    BY <1>2, <2>1, <2>2, QuietStep DEF Read, NewRequest, Sound
<1>3. CASE Toggle(h)
  <2> PICK s \in Existing, active \in BOOLEAN :
        Set(h, NewRequest("checked", "toggle", s, OnlyActive(active)))
    BY <1>3 DEF Toggle
  <2>1. OnlyActive(active) \in UpdateDto /\ OnlyActive(active) \in Patch
    BY UnsetAssumption DEF OnlyActive, UpdateDto, Patch
  <2>2. NewRequest("checked", "toggle", s, OnlyActive(active)) \in Request
    BY <2>1, NewRequestType DEF Existing
  <2> QED
    BY <1>3, <2>1, <2>2, QuietStep DEF Toggle, NewRequest, Sound
<1> QED
  BY <1>1, <1>2, <1>3

\* Validating an update, taking the lock, and every way to end.
LEMMA MoveStep ==
    ASSUME Inv, NEW h \in Handlers, Check(h) \/ Lock(h) \/ Finish(h) \/ Fail(h)
    PROVE  Inv'
<1> DEFINE r == requests[h]
<1>1. r \in Request \cup {Null} /\ (r # Null => r \in Request)
  BY DEF Inv, TypeOK
<1>2. CASE Check(h)
  <2> DEFINE q == [r EXCEPT !.step = "checked", !.dto = Written(@, r.current)]
  <2>1. r # Null /\ r.step = "read" /\ Set(h, q)
    BY <1>2 DEF Check, At
  <2>2. r.op # "create" /\ r.id \in Existing /\ r.current \in Semester
    BY <2>1 DEF Inv, Grounded, Sound
  <2>3. Written(r.dto, r.current) \in Patch /\ Patch \subseteq UpdateDto
    BY <1>1, <2>1, <2>2, WrittenType DEF Request, Patch
  <2>4. /\ q \in Request /\ q.op = r.op /\ q.id = r.id /\ q.step = "checked"
        /\ q.dto = Written(r.dto, r.current)
    BY <1>1, <2>1, <2>3 DEF Request
  <2>5. Sound(q)
    BY <2>2, <2>3, <2>4 DEF Sound
  <2> HIDE DEF q
  <2> QED
    BY <1>2, <2>1, <2>4, <2>5, QuietStep DEF Check, Inv, TypeOK
<1>3. CASE Lock(h)
  <2> DEFINE q == [r EXCEPT !.step = "locked", !.found = Active]
  <2>1. r # Null /\ Set(h, q) /\ holder = Null /\ holder' = h
    BY <1>3 DEF Lock, At
  <2>2. Active \subseteq Semesters
    BY DEF Active, Existing
  <2>3. /\ q \in Request /\ q.op = r.op /\ q.id = r.id /\ q.dto = r.dto
        /\ q.step = "locked" /\ q.found = Active
    BY <1>1, <2>1, <2>2 DEF Request
  <2>4. \A g \in Handlers \ {h} : holder = g => holder' = g
    BY <2>1, NullAssumption
  <2>5. Sound(q)
    BY <1>3, <2>1, <2>3 DEF Lock, At, Inv, Grounded, Sound
  <2> HIDE DEF q
  <2> QED
    BY <1>3, <2>1, <2>3, <2>4, <2>5, QuietStep DEF Lock, Inv, TypeOK
<1>4. CASE Finish(h)
  BY <1>4, QuietStep DEF Finish, Inv, TypeOK
<1>5. CASE Fail(h)
  BY <1>5, QuietStep DEF Fail, Inv, TypeOK
<1> QED
  BY <1>2, <1>3, <1>4, <1>5

-----------------------------------------------------------------------------
(* The transaction's writes.                                                *)

\* What is announced about semesters that exist.
LEMMA NoticesType ==
    ASSUME NEW r \in Request
    PROVE  NoticesOf(r) \subseteq Event
BY DEF NoticesOf, Closes, Event, Request

LEMMA WriteStep ==
    ASSUME Inv, NEW h \in Handlers, Write(h)
    PROVE  Inv'
<1> DEFINE r == requests[h]
           q == [r EXCEPT !.step = "committed", !.notices = NoticesOf(r)]
<1>1. /\ r \in Request /\ r.id \in Semesters /\ r # Null /\ r.step = "locked"
      /\ holder = h /\ r.found = Active /\ Set(h, q) /\ holder' = Null
  BY DEF Write, Inv, TypeOK, At, FoundIsActive, Request
<1>2. NoticesOf(r) \subseteq Event
  BY <1>1, NoticesType
<1>3. q \in Request /\ q.op = r.op /\ q.dto = r.dto /\ q.id = r.id /\ q.step = "committed"
  BY <1>1, <1>2 DEF Request
<1> HIDE DEF q
<1>4. /\ requests' \in [Handlers -> Request \cup {Null}]
      /\ requests'[h] = q
      /\ \A g \in Handlers : g # h => requests'[g] = requests[g]
  BY <1>1, <1>3, SetType DEF Inv
<1>5. /\ semesters' \in [Semesters -> Semester \cup {Null}]
      /\ \A s \in Semesters : s \in Existing => s \in Existing'
      /\ r.id \in Active' <=> NewRow(h).isActive
      /\ \A s \in Semesters : s # r.id =>
             (s \in Active' <=> s \in Active /\ s \notin Closes(r))
  BY WriteActive
<1>6. TypeOK'
  BY <1>1, <1>4, <1>5 DEF Write, Inv, TypeOK
<1>7. AtMostOneActive'
  <2>1. CASE Opens(r) /\ ~(r.op = "update" /\ WasActive(r))
    \* Every other open semester is closed.
    <3> Closes(r) = Active \ {r.id}
      BY <2>1, <1>1 DEF Closes
    <3> Active' \subseteq {r.id}
      BY <1>5 DEF Active, Existing
    <3> QED
      BY DEF AtMostOneActive
  <2>2. CASE ~(Opens(r) /\ ~(r.op = "update" /\ WasActive(r)))
    \* Nothing is opened that was not open.
    <3>1. Closes(r) = {}
      BY <2>2 DEF Closes
    <3>2. NewRow(h).isActive => r.id \in Active
      <4>1. CASE Opens(r)
        BY <2>2, <4>1, <1>1 DEF WasActive
      <4>2. CASE ~Opens(r)
        <5> SUFFICES ASSUME NewRow(h).isActive PROVE r.id \in Active
          OBVIOUS
        <5>1. NewRow(h) \in Semester
          BY <1>1, NewRowType DEF Write
        <5>2. NewRow(h).isActive = TRUE
          BY <5>1 DEF Semester
        <5>3. r.op # "create"
          BY <5>2, <4>2 DEF NewRow, Opens
        <5>4. r.id \in Existing /\ semesters[r.id] \in Semester
          BY <5>3, <1>1 DEF Inv, Grounded, Sound, TypeOK, Existing
        <5>5. r.dto.isActive = Unset
          BY <5>2, <5>3, <4>2 DEF NewRow, Applied, Opens
        <5>6. semesters[r.id].isActive = TRUE
          BY <5>2, <5>3, <5>5 DEF NewRow, Applied
        <5> QED
          BY <5>4, <5>6 DEF Active
      <4> QED
        BY <4>1, <4>2
    <3>3. Active' \subseteq Active
      BY <1>5, <3>1, <3>2 DEF Active, Existing
    <3> QED
      BY <3>3 DEF Inv, AtMostOneActive
  <2> QED
    BY <2>1, <2>2
<1>8. FoundIsActive'
  \* Nobody else is past the lock.
  <2> SUFFICES ASSUME NEW g \in Handlers, At(g, "locked")' PROVE FALSE
    BY DEF FoundIsActive
  <2>1. CASE g = h
    BY <2>1, <1>3, <1>4 DEF At
  <2>2. CASE g # h
    BY <2>2, <1>1, <1>4 DEF At, Inv, FoundIsActive
  <2> QED
    BY <2>1, <2>2
<1>9. Grounded'
  <2>1. Existing \subseteq Existing'
    BY <1>5 DEF Existing
  <2>2. Sound(r) /\ (r.op = "create" \/ r.dto \in Patch)
    BY <1>1 DEF Inv, Grounded, Sound
  <2>3. \A g \in Handlers : g # h /\ requests'[g] # Null => Sound(requests[g])'
    BY <1>4, <2>1 DEF Inv, Grounded, Sound
  <2>4. Sound(requests[h])'
    BY <1>3, <1>4, <2>1, <2>2 DEF Sound
  <2> QED
    BY <2>3, <2>4 DEF Grounded
<1> QED
  BY <1>6, <1>7, <1>8, <1>9 DEF Inv

-----------------------------------------------------------------------------
\* Every step keeps the invariant.
LEMMA InvNext == Inv /\ [Next]_vars => Inv'
<1> SUFFICES ASSUME Inv, [Next]_vars PROVE Inv'
  OBVIOUS
<1>1. CASE \E h \in Handlers : Create(h) \/ Read(h) \/ Toggle(h)
  BY <1>1, AcceptStep
<1>2. CASE \E h \in Handlers : Check(h) \/ Lock(h) \/ Finish(h) \/ Fail(h)
  BY <1>2, MoveStep
<1>3. CASE \E h \in Handlers : Write(h)
  BY <1>3, WriteStep
<1>4. CASE CreateForm
  BY <1>4 DEF CreateForm, Inv, TypeOK, AtMostOneActive, FoundIsActive, Grounded, Sound,
              Active, Existing, At
<1>5. CASE UNCHANGED vars
  BY <1>5 DEF vars, Inv, TypeOK, AtMostOneActive, FoundIsActive, Grounded, Sound,
              Active, Existing, At
<1> QED
  BY <1>1, <1>2, <1>3, <1>4, <1>5 DEF Next, Handlers

\* The inductive invariant holds throughout.
THEOREM Invariance == Spec => []Inv
BY InvInit, InvNext, PTL DEF Spec

\* The reachable states are of the declared types.
THEOREM TypeCorrect == Spec => []TypeOK
<1>1. Inv => TypeOK
  BY DEF Inv
<1> QED
  BY <1>1, Invariance, PTL

\* However many administrators create, edit and switch at once, at most one
\* semester is open: the lock alone sees to it.
THEOREM OneActive == Spec => []AtMostOneActive
<1>1. Inv => AtMostOneActive
  BY DEF Inv
<1> QED
  BY <1>1, Invariance, PTL

\* What a request announces is what its write opened and closed.
LEMMA NoticesStep ==
    ASSUME Inv, NEW h \in Handlers, Write(h), requests[h].op # "create"
    PROVE  requests'[h].notices = Flips
<1> DEFINE r == requests[h]
           q == [r EXCEPT !.step = "committed", !.notices = NoticesOf(r)]
<1>1. /\ r \in Request /\ r.id \in Semesters /\ r # Null
      /\ r.found = Active /\ Set(h, q)
  BY DEF Write, Inv, TypeOK, At, FoundIsActive, Request
<1>2. requests'[h].notices = NoticesOf(r)
  BY <1>1 DEF Set, Inv, TypeOK, Request
<1>3. /\ r.id \in Active' <=> NewRow(h).isActive
      /\ \A s \in Semesters : s # r.id =>
             (s \in Active' <=> s \in Active /\ s \notin Closes(r))
  BY WriteActive
<1>4. Active \subseteq Semesters /\ Active' \subseteq Semesters
  BY DEF Active, Existing
<1>5. Closes(r) \subseteq Active \ {r.id}
  BY <1>1 DEF Closes
<1>6. semesters[r.id] \in Semester /\ r.id \in Existing
  BY <1>1 DEF Inv, Grounded, Sound, TypeOK, Existing
<1>7. NewRow(h) = Applied(semesters[r.id], r.dto)
  BY DEF NewRow
<1>8. r.id \in Active <=> semesters[r.id].isActive
  BY <1>6 DEF Active
<1>9. r.dto.isActive \in BOOLEAN \cup {Unset}
  BY <1>1 DEF Request, UpdateDto
<1>10. /\ r.dto.isActive = FALSE => r.id \notin Active'
       /\ Opens(r) => r.id \in Active'
       /\ r.dto.isActive = Unset => (r.id \in Active' <=> r.id \in Active)
  <2>1. /\ r.dto.isActive = Unset => NewRow(h).isActive = semesters[r.id].isActive
        /\ r.dto.isActive # Unset => NewRow(h).isActive = r.dto.isActive
    BY <1>7 DEF Applied
  <2>2. FALSE # Unset /\ TRUE # Unset
    BY UnsetAssumption
  <2>3. r.dto.isActive = FALSE => r.id \notin Active'
    BY <2>1, <2>2, <1>3
  <2>4. Opens(r) => r.id \in Active'
    BY <2>1, <2>2, <1>3 DEF Opens
  <2>5. r.dto.isActive = Unset => (r.id \in Active' <=> r.id \in Active)
    BY <2>1, <1>3, <1>8
  <2> QED
    BY <2>3, <2>4, <2>5
<1>11. WasActive(r) <=> r.id \in Active
  BY <1>1 DEF WasActive
<1>12. \A s \in Semesters : s \in Active \ Active' <=>
          \/ s \in Closes(r)
          \/ s = r.id /\ r.dto.isActive = FALSE /\ WasActive(r)
  BY <1>3, <1>5, <1>9, <1>10, <1>11 DEF Opens
<1>13. \A s \in Semesters : s \in Active' \ Active <=>
          s = r.id /\ Opens(r) /\ ~WasActive(r)
  BY <1>3, <1>5, <1>9, <1>10, <1>11 DEF Opens
<1>14. {<<"closed", s>> : s \in Active \ Active'}
        = {<<"closed", s>> : s \in Closes(r)}
          \cup {<<"closed", s>> : s \in {x \in {r.id} : r.dto.isActive = FALSE
                                                        /\ WasActive(r)}}
  BY <1>1, <1>4, <1>5, <1>12
<1>15. {<<"opened", s>> : s \in Active' \ Active}
        = {<<"opened", s>> : s \in {x \in {r.id} : Opens(r) /\ ~WasActive(r)}}
  BY <1>1, <1>4, <1>13
<1> QED
  BY <1>2, <1>14, <1>15 DEF NoticesOf, Flips

\* Only the writes of a request's own transaction commit it.
LEMMA OnlyWriteCommits ==
    ASSUME Inv, [Next]_vars, NEW h \in Handlers,
           At(h, "locked"), At(h, "committed")'
    PROVE  Write(h)
<1>1. requests[h].step = "locked" /\ requests'[h].step = "committed"
      /\ requests[h] # Null /\ requests'[h] # Null
  BY DEF At
<1>2. \A g \in Handlers : \A r : Set(g, r) /\ g # h => requests'[h] = requests[h]
  BY DEF Set, Inv, TypeOK
<1>3. \A r : Set(h, r) => requests'[h] = r
  BY DEF Set, Inv, TypeOK
<1>4. ASSUME NEW g \in Handlers, Create(g) \/ Read(g) \/ Toggle(g) PROVE FALSE
  <2>1. Idle(g)
    BY <1>4 DEF Create, Read, Toggle
  <2>2. g # h
    BY <2>1, <1>1 DEF Idle
  <2> QED
    BY <1>4, <1>1, <1>2, <2>2 DEF Create, Read, Toggle
<1>5. ASSUME NEW g \in Handlers, Check(g) \/ Lock(g) PROVE FALSE
  <2>1. requests[g].step \in {"read", "checked"}
    BY <1>5 DEF Check, Lock, At
  <2>2. g # h
    BY <2>1, <1>1
  <2> QED
    BY <1>5, <1>1, <1>2, <2>2 DEF Check, Lock
<1>6. ASSUME NEW g \in Handlers, Finish(g) \/ Fail(g) PROVE FALSE
  <2>1. Set(g, Null)
    BY <1>6 DEF Finish, Fail
  <2> QED
    BY <2>1, <1>1, <1>2, <1>3
<1>7. ASSUME NEW g \in Handlers, Write(g) PROVE g = h
  BY <1>7, <1>1, <1>2 DEF Write
<1>8. ~CreateForm /\ ~UNCHANGED vars
  BY <1>1 DEF CreateForm, vars
<1> QED
  BY <1>4, <1>5, <1>6, <1>7, <1>8 DEF Next, Handlers

\* Students are told of exactly what a request opened and closed, although it
\* read the row before it had the lock.
THEOREM NoticesMatch == Spec => NoticesMatchSwitches
<1>1. Inv /\ [Next]_vars =>
        [\A h \in Handlers :
            (At(h, "locked") /\ At(h, "committed")' /\ requests[h].op # "create")
                => requests'[h].notices = Flips]_vars
  BY OnlyWriteCommits, NoticesStep
<1> QED
  BY <1>1, Invariance, PTL DEF Spec, NoticesMatchSwitches

-----------------------------------------------------------------------------
(* The dates of the rows.  No lock protects them: they are checked before   *)
(* the transaction, so what can be said holds while one request at a time   *)
(* creates or updates; any number of others may open and close semesters.   *)

Editing(h) == requests[h] # Null /\ requests[h].op # "toggle"
OneEditAtATime == \A g, h \in Handlers : Editing(g) /\ Editing(h) => g = h

\* No update asks to remove a deadline.
NoneCleared == \A dto \in Updates : \A c \in Deadlines : dto.dates[c] # Null

\* What create and update check of the dates they are about to write.
FitsAmong(dates, s) ==
    validateNoOverlap(dates, s) /\ (NoneCleared => validateDateOrder(dates))

\* An update still sees the dates it read, and once checked the row a request
\* will write fits among the rows that are there.
EditFits(h) ==
    LET r == requests[h] IN
    /\ r.op = "toggle" => r.dto.dates = [c \in Columns |-> Unset]
    /\ r.step = "read" => /\ r.op = "update" /\ r.dto \in Updates
                          /\ r.current.dates = semesters[r.id].dates
    /\ (r.op # "toggle" /\ r.step \in {"checked", "locked"}) =>
           FitsAmong(NewRow(h).dates, r.id)
EditsFit == \A h \in Handlers : requests[h] # Null => EditFits(h)

RowsFit == NoOverlap /\ (NoneCleared => DatesOrdered)
DatesInv == RowsFit /\ EditsFit

\* The dates an update was checked with are those its row will have, but for
\* a deadline it was asked to remove.
LEMMA CheckedIsWritten ==
    ASSUME NEW row \in Semester, NEW current \in Semester, current.dates = row.dates,
           NEW dto \in UpdateDto
    PROVE  LET next == buildSemesterData(dto.dates, row.dates)
               new  == Applied(row, Written(dto, current)).dates
           IN /\ \A c \in {"startDate", "endDate"} : new[c] = next[c]
              /\ (\A c \in Deadlines : dto.dates[c] # Null) => new = next
              /\ (dto.dates.startDate = Unset /\ dto.dates.endDate = Unset) =>
                    \A c \in {"startDate", "endDate"} : new[c] = row.dates[c]
<1> DEFINE next == buildSemesterData(dto.dates, row.dates)
           set  == Written(dto, current).dates
           new  == Applied(row, Written(dto, current)).dates
<1>1. /\ next = [c \in Columns |-> next[c]]
      /\ \A c \in Columns : next[c] =
            IF dto.dates[c] = Unset \/ (dto.dates[c] = Null /\ c \notin Deadlines)
            THEN row.dates[c] ELSE dto.dates[c]
  BY DEF buildSemesterData
<1>2. \A c \in Columns :
          set[c] = IF dto.dates[c] = Unset \/ next[c] = Null THEN Unset ELSE next[c]
  BY DEF Written
<1>3. /\ new = [c \in Columns |-> new[c]]
      /\ \A c \in Columns : new[c] = IF set[c] = Unset THEN row.dates[c] ELSE set[c]
  BY DEF Applied
<1> HIDE DEF next, set, new
<1>4. \A c \in Columns : (c \in Deadlines => dto.dates[c] # Null) => new[c] = next[c]
  BY <1>1, <1>2, <1>3
<1>5. {"startDate", "endDate"} \subseteq Columns \ Deadlines
  BY DEF Columns, Deadlines
<1>6. \A c \in {"startDate", "endDate"} : new[c] = next[c]
  BY <1>4, <1>5
<1>7. (\A c \in Deadlines : dto.dates[c] # Null) => new = next
  BY <1>1, <1>3, <1>4
<1>8. (dto.dates.startDate = Unset /\ dto.dates.endDate = Unset) =>
          \A c \in {"startDate", "endDate"} : new[c] = row.dates[c]
  BY <1>2, <1>3, <1>5
<1> QED
  BY <1>6, <1>7, <1>8 DEF next, new

\* Overlap looks at the two ends of a row only.
LEMMA FitsByEnds ==
    ASSUME NEW d, NEW e, NEW s,
           \A c \in {"startDate", "endDate"} : d[c] = e[c]
    PROVE  validateNoOverlap(d, s) <=> validateNoOverlap(e, s)
BY DEF validateNoOverlap, Overlap

\* While no row is written, only the request that moves has to be looked at.
LEMMA QuietDates ==
    ASSUME Inv, DatesInv, UNCHANGED semesters,
           NEW h \in Handlers, NEW r \in Request \cup {Null}, Set(h, r),
           r # Null =>
             /\ r.op = "toggle" => r.dto.dates = [c \in Columns |-> Unset]
             /\ r.step = "read" => /\ r.op = "update" /\ r.dto \in Updates
                                   /\ r.current.dates = semesters[r.id].dates
             /\ (r.op # "toggle" /\ r.step \in {"checked", "locked"}) =>
                    FitsAmong(IF r.op = "create" THEN r.dto.dates
                              ELSE Applied(semesters[r.id], r.dto).dates, r.id)
    PROVE  DatesInv'
<1>1. /\ requests'[h] = r
      /\ \A g \in Handlers : g # h => requests'[g] = requests[g]
  BY SetType DEF Inv
<1>2. Existing' = Existing
  BY RowsKept
<1>3. RowsFit'
  BY <1>2 DEF DatesInv, RowsFit, NoOverlap, DatesOrdered
<1>4. \A g \in Handlers : g # h => NewRow(g)' = NewRow(g)
  BY <1>1 DEF NewRow
<1>5. (NewRow(h).dates)' = IF r.op = "create" THEN r.dto.dates
                           ELSE Applied(semesters[r.id], r.dto).dates
  BY <1>1 DEF NewRow
<1>6. ASSUME r # Null PROVE EditFits(h)'
  BY <1>1, <1>2, <1>5, <1>6 DEF EditFits, FitsAmong, validateNoOverlap, NoneCleared
<1>7. ASSUME NEW g \in Handlers, g # h, EditFits(g) PROVE EditFits(g)'
  BY <1>1, <1>2, <1>4, <1>7 DEF EditFits, FitsAmong, validateNoOverlap, NoneCleared
<1>8. EditsFit'
  BY <1>1, <1>6, <1>7 DEF DatesInv, EditsFit
<1> QED
  BY <1>3, <1>8 DEF DatesInv

\* Accepting a request: create has checked its dates, update has read the row.
LEMMA AcceptDates ==
    ASSUME Inv, DatesInv, NEW h \in Handlers, Create(h) \/ Read(h) \/ Toggle(h)
    PROVE  DatesInv'
<1> USE DEF Inv, TypeOK
<1>1. CASE Create(h)
  <2> PICK s \in Semesters \ Existing, dto \in Creations :
        /\ validateDateOrder(dto.dates) /\ validateNoOverlap(dto.dates, s)
        /\ Set(h, NewRequest("checked", "create", s, dto))
    BY <1>1 DEF Create
  <2>1. NewRequest("checked", "create", s, dto) \in Request
    BY DtoAssumption, CreateIsUpdate, NewRequestType DEF CreateDto, Semester
  <2> QED
    BY <1>1, <2>1, QuietDates DEF Create, NewRequest, FitsAmong
<1>2. CASE Read(h)
  <2> PICK s \in Existing, dto \in Updates :
        Set(h, NewRequest("read", "update", s, dto))
    BY <1>2 DEF Read
  <2>1. NewRequest("read", "update", s, dto) \in Request
    BY DtoAssumption, NewRequestType DEF Existing
  <2> QED
    BY <1>2, <2>1, QuietDates DEF Read, NewRequest
<1>3. CASE Toggle(h)
  <2> PICK s \in Existing, active \in BOOLEAN :
        Set(h, NewRequest("checked", "toggle", s, OnlyActive(active)))
    BY <1>3 DEF Toggle
  <2>1. OnlyActive(active) \in UpdateDto
    BY DEF OnlyActive, UpdateDto
  <2>2. NewRequest("checked", "toggle", s, OnlyActive(active)) \in Request
    BY <2>1, NewRequestType DEF Existing
  <2> QED
    BY <1>3, <2>2, QuietDates DEF Toggle, NewRequest, OnlyActive
<1> QED
  BY <1>1, <1>2, <1>3

\* An update's check: a row whose ends it leaves alone fits as it did before.
LEMMA CheckDates ==
    ASSUME Inv, DatesInv, NEW h \in Handlers, Check(h)
    PROVE  DatesInv'
<1> DEFINE r == requests[h]
           q == [r EXCEPT !.step = "checked", !.dto = Written(@, r.current)]
           row == semesters[r.id]
           next == buildSemesterData(r.dto.dates, row.dates)
           written == Written(r.dto, r.current)
           new == Applied(row, written).dates
<1>1. r # Null /\ r.step = "read" /\ r \in Request /\ Set(h, q)
  BY DEF Check, At, Inv, TypeOK
<1>2. r.op = "update" /\ r.dto \in Updates /\ r.current.dates = row.dates
  BY <1>1 DEF DatesInv, EditsFit, EditFits
<1>3. row \in Semester /\ r.id \in Existing /\ r.current \in Semester
  BY <1>1, <1>2 DEF Inv, Grounded, Sound, TypeOK, Existing
<1>4. /\ validateDateOrder(next)
      /\ (r.dto.dates.startDate # Unset \/ r.dto.dates.endDate # Unset) =>
             validateNoOverlap(next, r.id)
  BY <1>2 DEF Check
<1>5. r.dto \in UpdateDto /\ written \in UpdateDto
  BY <1>1, <1>3, WrittenType DEF Request, Patch
<1>6. /\ q \in Request /\ q.op = "update" /\ q.id = r.id /\ q.step = "checked"
      /\ q.dto = written
  BY <1>1, <1>2, <1>5 DEF Request
<1>7. /\ \A c \in {"startDate", "endDate"} : new[c] = next[c]
      /\ (\A c \in Deadlines : r.dto.dates[c] # Null) => new = next
      /\ (r.dto.dates.startDate = Unset /\ r.dto.dates.endDate = Unset) =>
            \A c \in {"startDate", "endDate"} : new[c] = row.dates[c]
  BY <1>2, <1>3, <1>5, CheckedIsWritten
<1>8. validateNoOverlap(row.dates, r.id)
  BY <1>3 DEF DatesInv, RowsFit, NoOverlap, validateNoOverlap
<1> HIDE DEF q, next, new, written
<1>9. validateNoOverlap(new, r.id)
  <2>1. CASE r.dto.dates.startDate # Unset \/ r.dto.dates.endDate # Unset
    BY <2>1, <1>4, <1>7, FitsByEnds
  <2>2. CASE r.dto.dates.startDate = Unset /\ r.dto.dates.endDate = Unset
    BY <2>2, <1>7, <1>8, FitsByEnds
  <2> QED
    BY <2>1, <2>2
<1>10. NoneCleared => validateDateOrder(new)
  BY <1>2, <1>4, <1>7 DEF NoneCleared
<1>11. FitsAmong(new, r.id)
  BY <1>9, <1>10 DEF FitsAmong
<1>12. FitsAmong(Applied(semesters[q.id], q.dto).dates, q.id)
  BY <1>6, <1>11 DEF new
<1>13. UNCHANGED semesters
  BY DEF Check
<1> QED
  BY <1>1, <1>6, <1>12, <1>13, QuietDates

\* Taking the lock, and every way to end without writing.
LEMMA MoveDates ==
    ASSUME Inv, DatesInv, NEW h \in Handlers, Lock(h) \/ Finish(h) \/ Fail(h)
    PROVE  DatesInv'
<1> DEFINE r == requests[h]
<1>1. CASE Lock(h)
  <2> DEFINE q == [r EXCEPT !.step = "locked", !.found = Active]
  <2>1. r # Null /\ r.step = "checked" /\ r \in Request /\ Set(h, q)
    BY <1>1 DEF Lock, At, Inv, TypeOK
  <2>2. Active \subseteq Semesters
    BY DEF Active, Existing
  <2>3. /\ q \in Request /\ q.op = r.op /\ q.id = r.id /\ q.dto = r.dto
        /\ q.step = "locked"
    BY <2>1, <2>2 DEF Request
  <2> HIDE DEF q
  <2>4. r.op = "toggle" => r.dto.dates = [c \in Columns |-> Unset]
    BY <2>1 DEF DatesInv, EditsFit, EditFits
  <2>5. r.op # "toggle" =>
          FitsAmong(IF r.op = "create" THEN r.dto.dates
                    ELSE Applied(semesters[r.id], r.dto).dates, r.id)
    BY <2>1 DEF DatesInv, EditsFit, EditFits, NewRow
  <2> QED
    BY <1>1, <2>1, <2>3, <2>4, <2>5, QuietDates DEF Lock
<1>2. CASE Finish(h) \/ Fail(h)
  BY <1>2, QuietDates DEF Finish, Fail
<1> QED
  BY <1>1, <1>2

\* A switch changes the dates of no row at all.
LEMMA ToggleRow ==
    ASSUME Inv, DatesInv, NEW h \in Handlers, Write(h), requests[h].op = "toggle"
    PROVE  LET id == requests[h].id IN
           id \in Existing /\ semesters'[id].dates = semesters[id].dates
<1> DEFINE r == requests[h]
<1>1. r # Null /\ semesters'[r.id] = NewRow(h)
  BY WriteRows DEF Write, At
<1>2. r.id \in Existing /\ semesters[r.id] \in Semester
  BY <1>1 DEF Inv, Grounded, Sound, TypeOK, Existing
<1>3. r.dto.dates = [c \in Columns |-> Unset]
  BY <1>1 DEF DatesInv, EditsFit, EditFits
<1>4. NewRow(h).dates = [c \in Columns |-> semesters[r.id].dates[c]]
  BY <1>3 DEF NewRow, Applied
<1>5. semesters[r.id].dates = [c \in Columns |-> semesters[r.id].dates[c]]
  BY <1>2 DEF Semester
<1> QED
  BY <1>1, <1>2, <1>4, <1>5

LEMMA WriteDates ==
    ASSUME Inv, DatesInv, OneEditAtATime, NEW h \in Handlers, Write(h)
    PROVE  DatesInv'
<1> DEFINE r == requests[h]
           q == [r EXCEPT !.step = "committed", !.notices = NoticesOf(r)]
<1>1. r \in Request /\ r # Null /\ r.step = "locked" /\ Set(h, q)
  BY DEF Write, Inv, TypeOK, At
<1>2. q \in Request /\ q.op = r.op /\ q.dto = r.dto /\ q.step = "committed" /\ q.id = r.id
  BY <1>1, NoticesType DEF Request
<1> HIDE DEF q
<1>3. requests'[h] = q /\ \A g \in Handlers : g # h => requests'[g] = requests[g]
  BY <1>1, <1>2, SetType DEF Inv
<1>4. /\ semesters'[r.id] = NewRow(h)
      /\ Existing' = Existing \cup {r.id}
      /\ \A s \in Existing \ {r.id} : semesters'[s].dates = semesters[s].dates
      /\ r.op = "toggle" => r.id \in Existing
                            /\ semesters'[r.id].dates = semesters[r.id].dates
  BY WriteRows, ToggleRow
<1>5. r.op = "toggle" => r.dto.dates = [c \in Columns |-> Unset]
  BY <1>1 DEF DatesInv, EditsFit, EditFits
<1>6. CASE r.op = "toggle"
  \* The dates are as they were, for the rows and for everybody's requests.
  <2>1. Existing' = Existing /\ \A s \in Existing : semesters'[s].dates = semesters[s].dates
    BY <1>4, <1>6
  <2>2. RowsFit'
    BY <2>1 DEF DatesInv, RowsFit, NoOverlap, DatesOrdered
  <2>3. EditFits(h)'
    BY <1>2, <1>3, <1>5 DEF EditFits
  <2>4. ASSUME NEW g \in Handlers, g # h, requests[g] # Null, EditFits(g)
        PROVE  EditFits(g)'
    <3> DEFINE p == requests[g]
    <3>1. requests'[g] = p /\ p # Null
      BY <2>4, <1>3
    <3>2. p.op # "create" => semesters'[p.id].dates = semesters[p.id].dates
      BY <3>1, <2>1 DEF Inv, Grounded, Sound
    <3>3. (NewRow(g).dates)' = NewRow(g).dates
      BY <3>1, <3>2 DEF NewRow, Applied
    <3>4. p.step = "read" => p.op # "create"
      BY <2>4 DEF EditFits
    <3> QED
      BY <2>1, <2>4, <3>1, <3>2, <3>3, <3>4
         DEF EditFits, FitsAmong, validateNoOverlap, NoneCleared
  <2>5. EditsFit'
    BY <1>3, <2>3, <2>4 DEF DatesInv, EditsFit
  <2> QED
    BY <2>2, <2>5 DEF DatesInv
<1>7. CASE r.op # "toggle"
  \* The new row fits, and no other request is about to write dates.
  <2>1. FitsAmong(NewRow(h).dates, r.id)
    BY <1>1, <1>7 DEF DatesInv, EditsFit, EditFits
  <2>2. NoOverlap'
    <3> SUFFICES ASSUME NEW s \in Existing', NEW t \in Existing', s # t
                 PROVE  ~Overlap(semesters'[s].dates, semesters'[t].dates)
      BY DEF NoOverlap
    <3>1. CASE s = r.id
      BY <3>1, <1>4, <2>1 DEF FitsAmong, validateNoOverlap
    <3>2. CASE t = r.id
      BY <3>2, <1>4, <2>1 DEF FitsAmong, validateNoOverlap, Overlap
    <3>3. CASE s # r.id /\ t # r.id
      BY <3>3, <1>4 DEF DatesInv, RowsFit, NoOverlap
    <3> QED
      BY <3>1, <3>2, <3>3
  <2>3. NoneCleared => DatesOrdered'
    BY <1>4, <2>1 DEF FitsAmong, DatesInv, RowsFit, DatesOrdered
  <2>4. \A g \in Handlers : g # h /\ requests'[g] # Null =>
            requests'[g] = requests[g] /\ requests[g].op = "toggle"
    BY <1>1, <1>3, <1>7 DEF OneEditAtATime, Editing
  <2>5. EditsFit'
    <3>1. EditFits(h)'
      BY <1>2, <1>3, <1>7 DEF EditFits
    <3>2. ASSUME NEW g \in Handlers, g # h, requests'[g] # Null PROVE EditFits(g)'
      BY <2>4, <3>2 DEF DatesInv, EditsFit, EditFits
    <3> QED
      BY <3>1, <3>2 DEF EditsFit
  <2> QED
    BY <2>2, <2>3, <2>5 DEF DatesInv, RowsFit, NoneCleared
<1> QED
  BY <1>6, <1>7

LEMMA DatesInit == Init => DatesInv
BY DEF Init, DatesInv, RowsFit, EditsFit, NoOverlap, DatesOrdered, Existing

LEMMA DatesNext == Inv /\ DatesInv /\ OneEditAtATime /\ [Next]_vars => DatesInv'
<1> SUFFICES ASSUME Inv, DatesInv, OneEditAtATime, [Next]_vars PROVE DatesInv'
  OBVIOUS
<1>1. CASE \E h \in Handlers : Create(h) \/ Read(h) \/ Toggle(h)
  BY <1>1, AcceptDates
<1>2. CASE \E h \in Handlers : Check(h)
  BY <1>2, CheckDates
<1>3. CASE \E h \in Handlers : Lock(h) \/ Finish(h) \/ Fail(h)
  BY <1>3, MoveDates
<1>4. CASE \E h \in Handlers : Write(h)
  BY <1>4, WriteDates
<1>5. CASE CreateForm \/ UNCHANGED vars
  <2> UNCHANGED <<semesters, requests>>
    BY <1>5 DEF CreateForm, vars
  <2> QED
    BY DEF DatesInv, RowsFit, EditsFit, EditFits, NoOverlap, DatesOrdered, FitsAmong,
           validateNoOverlap, NewRow, Existing
<1> QED
  BY <1>1, <1>2, <1>3, <1>4, <1>5 DEF Next, Handlers

\* As long as creations and updates come one at a time, no sequence of them
\* makes two semesters overlap, whoever opens and closes semesters meanwhile:
\* the checks before the transaction are then about the rows it writes.
THEOREM NoOverlapInSequence == Spec /\ []OneEditAtATime => []NoOverlap
<1>1. DatesInv => NoOverlap
  BY DEF DatesInv, RowsFit
<1> QED
  BY <1>1, DatesInit, DatesNext, Invariance, PTL DEF Spec

\* And if, besides, no update asks to remove a deadline, the dates of every row
\* stay in the order validateDateOrder checks: a deadline the check takes for
\* removed, and the UPDATE then keeps, is all that can break it.
THEOREM OrderUnlessCleared ==
    ASSUME NoneCleared
    PROVE  Spec /\ []OneEditAtATime => []DatesOrdered
<1>1. DatesInv => DatesOrdered
  BY NoneCleared DEF DatesInv, RowsFit
<1> QED
  BY <1>1, DatesInit, DatesNext, Invariance, PTL DEF Spec

\* With a single editor the condition holds of itself: toggling is the only
\* other request there is.
THEOREM NoOverlapOneEditor ==
    ASSUME \A g, h \in Editors : g = h
    PROVE  Spec => []NoOverlap
<1> DEFINE ByEditors == \A h \in Handlers : Editing(h) => h \in Editors
<1>1. Init => ByEditors
  BY DEF Init, Editing
<1>2. Inv /\ ByEditors /\ [Next]_vars => ByEditors'
  <2> SUFFICES ASSUME Inv, ByEditors, [Next]_vars, NEW g \in Handlers, Editing(g)'
               PROVE  g \in Editors
    OBVIOUS
  <2>1. CASE requests'[g] = requests[g]
    BY <2>1 DEF Editing
  <2>2. ASSUME requests'[g] # requests[g], NEW h \in Handlers, NEW r, Set(h, r)
        PROVE  g = h /\ requests'[g] = r
    BY <2>2 DEF Set, Inv, TypeOK
  <2>3. ASSUME requests'[g] # requests[g], NEW h \in Handlers, Toggle(h) PROVE FALSE
    BY <2>2, <2>3 DEF Toggle, NewRequest, Editing
  <2>4. ASSUME requests'[g] # requests[g], NEW h \in Handlers, Lock(h) \/ Write(h)
        PROVE  g \in Editors
    <3>1. requests[h] \in Request /\ requests[h] # Null
      BY <2>4 DEF Lock, Write, At, Inv, TypeOK
    <3>2. g = h /\ requests'[g].op = requests[g].op
      BY <2>2, <2>4, <3>1 DEF Lock, Write, Request
    <3> QED
      BY <3>1, <3>2 DEF Editing
  <2>5. ASSUME requests'[g] # requests[g], NEW h \in Handlers, Finish(h) \/ Fail(h)
        PROVE  FALSE
    BY <2>2, <2>5 DEF Finish, Fail, Editing
  <2>6. ASSUME requests'[g] # requests[g], NEW h \in Editors,
               Create(h) \/ Read(h) \/ Check(h)
        PROVE  g \in Editors
    BY <2>2, <2>6 DEF Create, Read, Check, Handlers
  <2>7. CASE CreateForm \/ UNCHANGED vars
    BY <2>1, <2>7 DEF CreateForm, vars
  <2> QED
    BY <2>1, <2>3, <2>4, <2>5, <2>6, <2>7 DEF Next, Handlers
<1>3. ByEditors => OneEditAtATime
  BY DEF OneEditAtATime
<1> HIDE DEF ByEditors
<1> QED
  BY <1>1, <1>2, <1>3, Invariance, NoOverlapInSequence, PTL DEF Spec

-----------------------------------------------------------------------------
(* The transactions implement atomic switches.                              *)

State(s) == IF s \notin Existing THEN "absent"
            ELSE IF s \in Active THEN "open" ELSE "closed"

\* A transaction's writes and commit are one switch, or change nothing that
\* others see: what it found open is still all there is.
LEMMA WriteSwitches ==
    ASSUME Inv, NEW h \in Handlers, Write(h)
    PROVE  \/ \E s \in Semesters : Switches!Create(s) \/ Switches!Open(s) \/ Switches!Close(s)
           \/ UNCHANGED [s \in Semesters |-> State(s)]
<1> DEFINE r == requests[h]
           state == [s \in Semesters |-> State(s)]
<1>1. r \in Request /\ r # Null /\ r.id \in Semesters /\ r.found = Active
  BY DEF Write, Inv, TypeOK, At, FoundIsActive, Request
<1>2. Active \subseteq Existing /\ Existing \subseteq Semesters
  BY DEF Active, Existing
<1>3. Existing' = Existing \cup {r.id}
  BY WriteRows
<1>4. /\ r.id \in Active' <=> NewRow(h).isActive
      /\ \A s \in Semesters : s # r.id =>
             (s \in Active' <=> s \in Active /\ s \notin Closes(r))
  BY WriteActive
<1>5. NewRow(h).isActive \in BOOLEAN /\ r.dto.isActive \in BOOLEAN \cup {Unset}
  BY <1>1, NewRowType DEF Write, Semester, Request, UpdateDto
<1>6. IF r.op = "create" THEN NewRow(h) = r.dto /\ r.dto.isActive \in BOOLEAN
      ELSE r.id \in Existing
  BY <1>1 DEF NewRow, Inv, Grounded, Sound, Semester
<1>7. r.op = "create" => r.id \notin Existing
  BY DEF Write
<1>8. r.op # "create" =>
        NewRow(h).isActive = IF r.dto.isActive = Unset THEN semesters[r.id].isActive
                             ELSE r.dto.isActive
  BY DEF NewRow, Applied
<1>9. TRUE # Unset /\ FALSE # Unset
  BY UnsetAssumption
<1>10. \A s \in Semesters :
         /\ state[s] = IF s \notin Existing THEN "absent"
                       ELSE IF s \in Active THEN "open" ELSE "closed"
         /\ state'[s] = IF s \notin Existing' THEN "absent"
                        ELSE IF s \in Active' THEN "open" ELSE "closed"
  BY DEF State
<1>11. state' = [s \in Semesters |-> state'[s]] /\ state = [s \in Semesters |-> state[s]]
  OBVIOUS
<1>12. ASSUME NEW s \in Semesters
       PROVE  /\ state[s] = "absent" /\ state' = [state EXCEPT ![s] = "closed"]
                     => Switches!Create(s)
              /\ state[s] = "open" /\ state' = [state EXCEPT ![s] = "closed"]
                     => Switches!Close(s)
              /\ (\A t \in Semesters : state'[t] = IF t = s THEN "open"
                                          ELSE IF state[t] = "open" THEN "closed"
                                          ELSE state[t])
                     => Switches!Open(s)
  BY DEF Switches!Create, Switches!Open, Switches!Close, State
<1> HIDE DEF state
<1>13. CASE Opens(r) /\ ~(r.op = "update" /\ WasActive(r))
  \* Whatever else was open is closed.
  <2>1. Closes(r) = Active \ {r.id}
    BY <1>13, <1>1 DEF Closes
  <2>2. r.id \in Active'
    BY <1>13, <1>4, <1>6, <1>8, <1>9 DEF Opens
  <2>3. \A s \in Semesters : state'[s] = IF s = r.id THEN "open"
                                         ELSE IF state[s] = "open" THEN "closed"
                                         ELSE state[s]
    BY <1>1, <1>2, <1>3, <1>4, <1>10, <2>1, <2>2
  <2>4. ASSUME NEW s \in Semesters, s = r.id PROVE Switches!Open(s)
    <3>1. \A t \in Semesters : state'[t] = IF t = s THEN "open"
                                          ELSE IF state[t] = "open" THEN "closed"
                                          ELSE state[t]
      BY <2>3, <2>4
    <3>2. Switches!Open(s)
      BY <1>12, <3>1
    <3> QED
      BY <3>2
  <2> QED
    BY <1>1, <2>4
<1>14. CASE ~(Opens(r) /\ ~(r.op = "update" /\ WasActive(r)))
  <2>1. Closes(r) = {}
    BY <1>14 DEF Closes
  <2>2. \A s \in Semesters \ {r.id} : state'[s] = state[s]
    BY <1>3, <1>4, <1>10, <2>1
  <2>3. CASE r.dto.isActive = FALSE
    <3>1. r.id \notin Active'
      BY <2>3, <1>4, <1>6, <1>8, <1>9
    <3>2. state'[r.id] = "closed"
      BY <3>1, <1>1, <1>3, <1>10
    <3>3. state' = [state EXCEPT ![r.id] = "closed"]
      BY <1>1, <1>11, <2>2, <3>2
    <3>4. CASE state[r.id] = "closed"
      <4> state' = state
        BY <1>11, <2>2, <3>2, <3>4
      <4> QED
        BY DEF state
    <3>5. CASE state[r.id] # "closed"
      <4> state[r.id] \in {"absent", "open"}
        BY <1>1, <1>10, <3>5
      <4> QED
        BY <1>1, <1>12, <3>3
    <3> QED
      BY <3>4, <3>5
  <2>4. CASE r.dto.isActive # FALSE
    <3>1. r.op # "create"
      BY <2>4, <1>6, <1>14 DEF Opens
    <3>2. r.id \in Existing /\ (r.id \in Active <=> semesters[r.id].isActive)
      BY <3>1, <1>6 DEF Active
    <3>3. CASE r.dto.isActive = Unset
      <4> r.id \in Active' <=> r.id \in Active
        BY <3>1, <3>2, <3>3, <1>4, <1>8
      <4> state'[r.id] = state[r.id]
        BY <1>1, <1>3, <1>10, <3>2
      <4> state' = state
        BY <1>11, <2>2
      <4> QED
        BY DEF state
    <3>4. CASE r.dto.isActive = TRUE
      <4> WasActive(r)
        BY <3>4, <1>14 DEF Opens
      <4> r.id \in Active /\ r.id \in Active'
        BY <3>1, <3>4, <1>1, <1>4, <1>8, <1>9 DEF WasActive
      <4> state'[r.id] = state[r.id]
        BY <1>1, <1>3, <1>10, <3>2
      <4> state' = state
        BY <1>11, <2>2
      <4> QED
        BY DEF state
    <3> QED
      BY <2>4, <3>3, <3>4, <1>5
  <2> QED
    BY <2>3, <2>4
<1> QED
  BY <1>13, <1>14

\* Locks, checks, reads before the lock, failures: to everybody else each
\* transaction is one switch at its commit.
THEOREM SwitchRefined == Spec => ImplementsSwitch
<1> DEFINE state == [s \in Semesters |-> State(s)]
<1>1. Init => Switches!Init
  BY DEF Init, Switches!Init, Existing
<1>2. Inv /\ [Next]_vars => [Switches!Next]_state
  <2> SUFFICES ASSUME Inv, [Next]_vars PROVE Switches!Next \/ UNCHANGED state
    OBVIOUS
  <2>1. CASE UNCHANGED semesters
    <3> Existing' = Existing /\ Active' = Active
      BY <2>1, RowsKept
    <3> QED
      BY DEF State
  <2>2. ASSUME NEW h \in Handlers, Write(h)
        PROVE  Switches!Next \/ UNCHANGED state
    BY <2>2, WriteSwitches DEF Switches!Next
  <2>3. UNCHANGED semesters \/ \E h \in Handlers : Write(h)
    BY DEF Next, vars, Create, Read, Check, Toggle, Lock, Finish, Fail, CreateForm, Handlers
  <2> QED
    BY <2>1, <2>2, <2>3
<1>3. [Switches!Next]_state <=>
        [Switches!Next]_[s \in Semesters |-> IF s \notin Existing THEN "absent"
                                       ELSE IF s \in Active THEN "open" ELSE "closed"]
  BY DEF State
<1> QED
  BY <1>1, <1>2, <1>3, Invariance, PTL DEF Spec, ImplementsSwitch, Switches!Spec

-----------------------------------------------------------------------------
(* When a semester that has forms keeps its year, term and dates.          *)

\* No form is a semester's first while a request that would change the
\* semester is under way.
NoFormMeanwhile ==
    [][\A s \in hasForms' \ hasForms : \A h \in Handlers :
           Editing(h) => requests[h].id # s]_vars

\* What update() refused when it counted the forms is still what it refused.
Refused(r) ==
    /\ r.op = "toggle" => ~ChangesIdentity(r.dto)
    /\ (r.op = "update" /\ r.id \in hasForms) => ~ChangesIdentity(r.dto)
RefusedStill ==
    /\ hasForms \subseteq Existing
    /\ \A h \in Handlers : requests[h] # Null => Refused(requests[h])

LEMMA RefusedInit == Init => RefusedStill
BY DEF Init, RefusedStill

\* A request takes up a new dto only when it is accepted; its check rewrites
\* only the fields that were given.
LEMMA RefusedQuiet ==
    ASSUME Inv, RefusedStill, UNCHANGED <<semesters, hasForms>>,
           NEW h \in Handlers, NEW r \in Request \cup {Null}, Set(h, r),
           r # Null => Refused(r)
    PROVE  RefusedStill'
<1>1. /\ requests'[h] = r
      /\ \A g \in Handlers : g # h => requests'[g] = requests[g]
  BY SetType DEF Inv
<1>2. Existing' = Existing
  BY RowsKept
<1> QED
  BY <1>1, <1>2 DEF RefusedStill, Refused

LEMMA RefusedAccept ==
    ASSUME Inv, RefusedStill, NEW h \in Handlers, Create(h) \/ Read(h) \/ Toggle(h)
    PROVE  RefusedStill'
<1> USE DEF Inv, TypeOK
<1>1. CASE Create(h)
  <2> PICK s \in Semesters \ Existing, dto \in Creations :
        Set(h, NewRequest("checked", "create", s, dto))
    BY <1>1 DEF Create
  <2>1. NewRequest("checked", "create", s, dto) \in Request
    BY DtoAssumption, CreateIsUpdate, NewRequestType DEF CreateDto, Semester
  <2> QED
    BY <1>1, <2>1, RefusedQuiet DEF Create, NewRequest, Refused
<1>2. CASE Read(h)
  <2> PICK s \in Existing, dto \in Updates :
        /\ ~(s \in hasForms /\ ChangesIdentity(dto))
        /\ Set(h, NewRequest("read", "update", s, dto))
    BY <1>2 DEF Read
  <2>1. NewRequest("read", "update", s, dto) \in Request
    BY DtoAssumption, NewRequestType DEF Existing
  <2> QED
    BY <1>2, <2>1, RefusedQuiet DEF Read, NewRequest, Refused
<1>3. CASE Toggle(h)
  <2> PICK s \in Existing, active \in BOOLEAN :
        Set(h, NewRequest("checked", "toggle", s, OnlyActive(active)))
    BY <1>3 DEF Toggle
  <2>1. OnlyActive(active) \in UpdateDto /\ ~ChangesIdentity(OnlyActive(active))
    BY DEF OnlyActive, UpdateDto, ChangesIdentity, Columns
  <2>2. NewRequest("checked", "toggle", s, OnlyActive(active)) \in Request
    BY <2>1, NewRequestType DEF Existing
  <2> QED
    BY <1>3, <2>1, <2>2, RefusedQuiet DEF Toggle, NewRequest, Refused
<1> QED
  BY <1>1, <1>2, <1>3

LEMMA RefusedMove ==
    ASSUME Inv, RefusedStill, NEW h \in Handlers,
           Check(h) \/ Lock(h) \/ Finish(h) \/ Fail(h)
    PROVE  RefusedStill'
<1> DEFINE r == requests[h]
<1>1. CASE Check(h)
  <2> DEFINE q == [r EXCEPT !.step = "checked", !.dto = Written(@, r.current)]
             written == Written(r.dto, r.current)
  <2>1. /\ r # Null /\ r \in Request /\ Set(h, q) /\ r.dto \in UpdateDto
        /\ r.current \in Semester
    BY <1>1 DEF Check, At, Inv, TypeOK, Grounded, Sound, Request
  <2>2. written \in UpdateDto /\ (~ChangesIdentity(r.dto) => ~ChangesIdentity(written))
    BY <2>1, WrittenType DEF Patch
  <2>3. q \in Request /\ q.op = r.op /\ q.id = r.id /\ q.dto = written
    BY <2>1, <2>2 DEF Request
  <2> HIDE DEF q, written
  <2> QED
    BY <1>1, <2>1, <2>2, <2>3, RefusedQuiet DEF Check, RefusedStill, Refused
<1>2. CASE Lock(h)
  <2> DEFINE q == [r EXCEPT !.step = "locked", !.found = Active]
  <2>1. r # Null /\ r \in Request /\ Set(h, q)
    BY <1>2 DEF Lock, At, Inv, TypeOK
  <2>2. Active \subseteq Semesters
    BY DEF Active, Existing
  <2>3. q \in Request /\ q.op = r.op /\ q.id = r.id /\ q.dto = r.dto
    BY <2>1, <2>2 DEF Request
  <2> HIDE DEF q
  <2> QED
    BY <1>2, <2>1, <2>3, RefusedQuiet DEF Lock, RefusedStill, Refused
<1>3. CASE Finish(h) \/ Fail(h)
  BY <1>3, RefusedQuiet DEF Finish, Fail
<1> QED
  BY <1>1, <1>2, <1>3

\* A write keeps who and when of every semester with forms.
LEMMA RefusedWrite ==
    ASSUME Inv, RefusedStill, NEW h \in Handlers, Write(h)
    PROVE  /\ RefusedStill'
           /\ \A s \in hasForms :
                 /\ semesters'[s].year = semesters[s].year
                 /\ semesters'[s].term = semesters[s].term
                 /\ \A c \in {"startDate", "endDate"} :
                       semesters'[s].dates[c] = semesters[s].dates[c]
<1> DEFINE r == requests[h]
           q == [r EXCEPT !.step = "committed", !.notices = NoticesOf(r)]
<1>1. r \in Request /\ r # Null /\ r.id \in Semesters /\ r.found = Active /\ Set(h, q)
  BY DEF Write, Inv, TypeOK, At, FoundIsActive, Request
<1>2. q \in Request /\ q.op = r.op /\ q.dto = r.dto /\ q.id = r.id
  BY <1>1, NoticesType DEF Request
<1> HIDE DEF q
<1>3. requests'[h] = q /\ \A g \in Handlers : g # h => requests'[g] = requests[g]
  BY <1>1, <1>2, SetType DEF Inv
<1>4. RefusedStill'
  <2>1. Existing \subseteq Existing' /\ hasForms' = hasForms
    BY WriteRows DEF Write
  <2> QED
    BY <1>1, <1>2, <1>3, <2>1 DEF RefusedStill, Refused
<1>5. ASSUME NEW s \in hasForms
      PROVE  /\ semesters'[s].year = semesters[s].year
             /\ semesters'[s].term = semesters[s].term
             /\ \A c \in {"startDate", "endDate"} :
                   semesters'[s].dates[c] = semesters[s].dates[c]
  <2>1. s \in Existing /\ s \in Semesters /\ semesters[s] \in Semester
    BY DEF RefusedStill, Existing, Inv, TypeOK
  <2>2. semesters'[s] = IF s = r.id THEN NewRow(h)
                        ELSE IF s \in Closes(r) THEN Closed(semesters[s])
                        ELSE semesters[s]
    BY <2>1 DEF Write, NewRow
  <2>3. CASE s = r.id
    <3>1. r.op # "create" /\ r.op \in {"create", "update", "toggle"}
      BY <1>1, <2>1, <2>3 DEF Write, Request
    <3>2. ~ChangesIdentity(r.dto)
      BY <1>1, <2>3, <3>1 DEF RefusedStill, Refused
    <3>3. NewRow(h) = Applied(semesters[s], r.dto)
      BY <2>3, <3>1 DEF NewRow
    <3> QED
      BY <2>2, <2>3, <3>2, <3>3 DEF Applied, ChangesIdentity, Columns
  <2>4. CASE s # r.id
    BY <2>1, <2>2, <2>4 DEF Closed, Semester
  <2> QED
    BY <2>3, <2>4
<1> QED
  BY <1>4, <1>5

\* A form that appears between update()'s count and its transaction is all that
\* can let a used semester change its year, its term or its dates: whatever else crosses,
\* the refusal holds.
THEOREM UsedKeptUnlessCrossed == Spec /\ NoFormMeanwhile => UsedSemesterKept
<1> DEFINE Kept == \A s \in hasForms :
                 /\ semesters'[s].year = semesters[s].year
                 /\ semesters'[s].term = semesters[s].term
                 /\ \A c \in {"startDate", "endDate"} :
                       semesters'[s].dates[c] = semesters[s].dates[c]
           Apart == \A s \in hasForms' \ hasForms : \A h \in Handlers :
                        Editing(h) => requests[h].id # s
<1>1. Inv /\ RefusedStill /\ [Next]_vars /\ [Apart]_vars => RefusedStill' /\ [Kept]_vars
  <2> SUFFICES ASSUME Inv, RefusedStill, [Next]_vars, [Apart]_vars
               PROVE  RefusedStill' /\ Kept
    OBVIOUS
  <2>1. ASSUME NEW h \in Handlers, Create(h) \/ Read(h) \/ Toggle(h)
        PROVE  RefusedStill' /\ Kept
    BY <2>1, RefusedAccept DEF Create, Read, Toggle
  <2>2. ASSUME NEW h \in Handlers, Check(h) \/ Lock(h) \/ Finish(h) \/ Fail(h)
        PROVE  RefusedStill' /\ Kept
    BY <2>2, RefusedMove DEF Check, Lock, Finish, Fail
  <2>3. ASSUME NEW h \in Handlers, Write(h) PROVE RefusedStill' /\ Kept
    BY <2>3, RefusedWrite
  <2>4. CASE CreateForm
    <3>1. PICK s \in Existing \ hasForms : hasForms' = hasForms \cup {s}
      BY <2>4 DEF CreateForm
    <3>2. UNCHANGED <<semesters, requests>>
      BY <2>4 DEF CreateForm
    <3>3. Apart
      <4>1. hasForms' # hasForms
        BY <3>1
      <4> HIDE DEF Apart
      <4> QED
        BY <4>1 DEF vars
    <3>4. \A h \in Handlers : requests[h] # Null /\ requests[h].op # "toggle" =>
              requests[h].id # s
      BY <3>1, <3>3 DEF Editing
    <3>5. RefusedStill'
      BY <3>1, <3>2, <3>4 DEF RefusedStill, Refused, Existing
    <3> QED
      BY <3>2, <3>5
  <2>5. CASE UNCHANGED vars
    BY <2>5 DEF vars, RefusedStill, Refused, Existing
  <2> QED
    BY <2>1, <2>2, <2>3, <2>4, <2>5 DEF Next, Handlers
<1> QED
  BY <1>1, RefusedInit, Invariance, PTL DEF Spec, NoFormMeanwhile, UsedSemesterKept

=============================================================================
