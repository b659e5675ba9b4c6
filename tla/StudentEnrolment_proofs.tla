----------------------- MODULE StudentEnrolment_proofs -----------------------
(***************************************************************************)
(* Proofs about StudentEnrolment for any callers, persons, classes, codes,  *)
(* requests, capacity and lifetime.                                         *)
(***************************************************************************)
EXTENDS StudentEnrolment, FiniteSetTheorems, TLAPS

\* A row of class_students has its account, a student's: student_id is a foreign
\* key, and the handlers look at the role, which never changes.
EnrolledAreStudents ==
    \A p \in Persons : enrol[p] # Null => account[p] # "absent" /\ p \notin staff

\* Who has another role has an account.
StaffExist == \A p \in staff : account[p] # "absent"

\* Those whom a plan enrols without creating them are students.
Grounded(p) == \A r \in p.enrols : account[r.person] # "absent" /\ r.person \notin staff

\* What a handler knows where it stands.
Handler(o) ==
    /\ at[o] = "idle" => token[o] = Null /\ plan[o] = Null
    /\ at[o] \in {"writing", "looked", "committing", "mailing"} => request[o] \in Requests
    /\ at[o] = "writing" =>
          /\ request[o].kind \notin {"import", "confirm"}
          /\ request[o].kind \notin {"create", "createUser"} => account[Of(o)] # "absent"
          /\ request[o].kind \in {"add", "update"} => Of(o) \notin staff
          /\ seen[o] = Null => request[o].kind \notin {"remove", "form"}
          /\ (seen[o] = Null /\ request[o].kind = "update") =>
                request[o].class # Null /\ request[o].code # Null
    /\ at[o] = "looked" => /\ request[o].kind = "confirm"
                           /\ token[o] \in Callers /\ plan[o] = Null
    /\ at[o] = "committing" => request[o].kind = "confirm" /\ plan[o] \in Plan
    /\ at[o] = "mailing" =>
          /\ request[o].kind \in {"create", "createUser"} \/ plan[o] \in Plan
          /\ \A p \in Created(o) : account[p] # "absent" /\ password[p] = o
    /\ plan[o] # Null => Grounded(plan[o]) /\ token[o] \in Callers

\* Imports: a preview is its caller's, and a token is a preview's.
Store ==
    \A i \in Callers :
        /\ previews[i] # Null => at[i] = "previewed" /\ Grounded(previews[i].plan)
        /\ token[i] # Null => at[token[i]] = "previewed"

\* The inductive invariant.
Inv == /\ TypeOK /\ EnrolledAreStudents /\ StaffExist /\ Store /\ \A o \in Callers : Handler(o)
       /\ ClaimedOnce /\ StoreBounded /\ MailsTellThePassword /\ LiveEnrolment

-----------------------------------------------------------------------------
LEMMA InvInit == Init => Inv
<1> SUFFICES ASSUME Init PROVE Inv
  OBVIOUS
<1> USE NullAssumption DEF Init
<1>1. TypeOK
  <2>1. account \in [Persons -> {"absent", "live", "deleted"}]
    BY StartAssumption
  <2>2. enrol \in [Persons -> Row \cup {Null}]
    BY StartAssumption DEF Row
  <2>3. clock \in 0 .. MaxTime
    BY BoundAssumption
  <2>4. staff \subseteq Persons
    BY StartAssumption
  <2> QED
    BY <2>1, <2>2, <2>3, <2>4 DEF TypeOK
<1>2. EnrolledAreStudents /\ LiveEnrolment /\ StaffExist
  BY StartAssumption DEF EnrolledAreStudents, LiveEnrolment, StaffExist
<1>3. Store /\ ClaimedOnce /\ MailsTellThePassword
  BY DEF Store, ClaimedOnce, MailsTellThePassword
<1>5. ASSUME NEW o \in Callers PROVE Handler(o)
  <2>1. at[o] = "idle" /\ token[o] = Null /\ plan[o] = Null
    OBVIOUS
  <2> QED
    BY <2>1 DEF Handler
<1>4. StoreBounded
  <2>1. Held(previews) = {}
    BY DEF Held
  <2>2. Cardinality(Held(previews)) = 0
    BY <2>1, FS_EmptySet
  <2> QED
    BY <2>2, BoundAssumption DEF StoreBounded
<1> QED
  BY <1>1, <1>2, <1>3, <1>4, <1>5 DEF Inv

\* Pruning forgets previews and changes none.
LEMMA KeptPreviews ==
    ASSUME TypeOK
    PROVE  /\ Kept \in [Callers -> Preview \cup {Null}]
           /\ \A i \in Callers : Kept[i] # Null => Kept[i] = previews[i]
  BY NullAssumption DEF Kept, TypeOK

\* What is asked for is a request.
LEMMA RequestTypes ==
    ASSUME NEW r \in Requests
    PROVE  /\ r.kind \in Kinds /\ r.person \in Persons /\ r.user \in Users
           /\ r.class \in Classes \cup {Null} /\ r.code \in Codes \cup {Null}
           /\ r.rows \in Seq(FileRow)
  BY RequestAssumption DEF Request

\* The plan of a file is made of its rows.
LEMMA PlanTypes ==
    ASSUME NEW rows \in Seq(FileRow)
    PROVE  PlanFor(rows) \in Plan
<1>1. \A what : RowsToDo(rows, what) \in SUBSET FileRow
  BY DEF RowsToDo
<1>2. PlanFor(rows).creates \in SUBSET FileRow /\ PlanFor(rows).enrols \in SUBSET FileRow
  BY <1>1 DEF PlanFor
<1>3. PlanFor(rows).phones \in SUBSET Persons
  BY <1>1 DEF PlanFor, FileRow
<1> QED
  BY <1>2, <1>3 DEF PlanFor, Plan

\* A row a plan inserts is a row.
LEMMA RowTypes ==
    ASSUME NEW o \in Callers, plan[o] \in Plan, NEW p \in PersonsOf(Enrolled(plan[o]))
    PROVE  /\ RowOf(o, p) \in Row /\ ~RowOf(o, p).deleted
           /\ \E r \in Enrolled(plan[o]) : /\ r.person = p /\ r.class = RowOf(o, p).class
                                           /\ r.code = RowOf(o, p).code
<1>1. \E r \in Enrolled(plan[o]) : r.person = p
  BY DEF PersonsOf
<1>2. PICK r \in Enrolled(plan[o]) :
          r.person = p /\ RowOf(o, p) = [id |-> o, class |-> r.class, code |-> r.code,
                                         deleted |-> FALSE]
  BY <1>1 DEF RowOf
<1>3. r \in FileRow
  BY DEF Enrolled, Plan
<1> QED
  BY <1>2, <1>3 DEF Row, FileRow

-----------------------------------------------------------------------------
(* What steps leave alone.                                                  *)

\* A caller's step moves nobody else's handler.
LEMMA OthersStay ==
    ASSUME TypeOK, NEW o \in Callers, Step(o), NEW d \in Callers, d # o
    PROVE  /\ at'[d] = at[d] /\ request'[d] = request[d] /\ seen'[d] = seen[d]
           /\ token'[d] = token[d] /\ plan'[d] = plan[d]
<1> USE DEF TypeOK, Goes, Writes, locals
<1>1. ASSUME NEW r \in Requests, Read(o, r) \/ PreviewFile(o, r) \/ Refuse(o, r)
                                   \/ Look(o, r)
      PROVE  /\ at'[d] = at[d] /\ request'[d] = request[d] /\ seen'[d] = seen[d]
             /\ token'[d] = token[d] /\ plan'[d] = plan[d]
  BY <1>1 DEF Read, PreviewFile, Refuse, Look
<1>2. CASE Put(o) \/ Remove(o) \/ Delete(o) \/ Create(o) \/ CreateForm(o)
  BY <1>2 DEF Put, Remove, Delete, Create, CreateForm
<1>3. CASE Claim(o) \/ TooLate(o) \/ Commit(o) \/ Fail(o) \/ Mail(o)
  BY <1>3 DEF Claim, TooLate, Commit, Fail, Mail
<1> QED
  BY <1>1, <1>2, <1>3 DEF Step

\* Accounts do not vanish, and keep the password and the role they were created
\* with.
LEMMA AccountsStay ==
    ASSUME Inv, [Next]_vars, NEW p \in Persons, account[p] # "absent"
    PROVE  account'[p] # "absent" /\ password'[p] = password[p]
           /\ (p \in staff' <=> p \in staff)
<1> DEFINE Stays == account'[p] # "absent" /\ password'[p] = password[p]
                    /\ (p \in staff' <=> p \in staff)
<1>1. ASSUME NEW o \in Callers, Step(o)
      PROVE  Stays
  <2>1. CASE Delete(o)
    BY <2>1 DEF Delete, Inv, TypeOK
  <2>2. CASE Create(o)
    BY <2>2 DEF Create, Creatable, Inv, TypeOK
  <2>3. CASE Commit(o)
    <3>1. p \notin PersonsOf(plan[o].creates)
      BY <2>3 DEF Commit, Fits, PersonsOf
    <3> QED
      BY <2>3, <3>1 DEF Commit
  <2>4. ASSUME NEW r \in Requests, Read(o, r) \/ PreviewFile(o, r) \/ Refuse(o, r)
                                     \/ Look(o, r)
        PROVE  account' = account /\ password' = password /\ staff' = staff
    BY <2>4 DEF Read, PreviewFile, Refuse, Look, tables
  <2>5. CASE Put(o) \/ Remove(o) \/ CreateForm(o)
    BY <2>5 DEF Put, Remove, CreateForm
  <2>6. CASE Claim(o) \/ TooLate(o) \/ Fail(o) \/ Mail(o)
    BY <2>6 DEF Claim, TooLate, Fail, Mail, tables
  <2> QED
    BY <1>1, <2>1, <2>2, <2>3, <2>4, <2>5, <2>6 DEF Step
<1>2. CASE Tick \/ Restart \/ UNCHANGED vars
  BY <1>2 DEF Tick, Restart, vars, tables
<1> QED
  BY <1>1, <1>2 DEF Next

\* A plan stays grounded.
LEMMA GroundedStays ==
    ASSUME Inv, [Next]_vars, NEW q \in Plan, Grounded(q)
    PROVE  \A r \in q.enrols : account'[r.person] # "absent" /\ r.person \notin staff'
<1>1. \A r \in q.enrols : r.person \in Persons
  BY DEF Plan, FileRow
<1> QED
  BY <1>1, AccountsStay DEF Grounded

-----------------------------------------------------------------------------
LEMMA TypesKept == Inv /\ [Next]_vars => TypeOK'
<1> SUFFICES ASSUME Inv, [Next]_vars PROVE TypeOK'
  OBVIOUS
<1>0. TypeOK
  BY DEF Inv
<1> USE <1>0, NullAssumption
<1>1. ASSUME NEW o \in Callers, NEW r \in Requests, Read(o, r) PROVE TypeOK'
  <2>1. r.person \in Persons
    BY RequestTypes
  <2>2. Found(r) \in Row \cup {Null}
    BY <2>1 DEF Found, TypeOK
  <2> QED
    BY <1>1, <2>2 DEF Read, Goes, TypeOK, tables
<1>2. ASSUME NEW o \in Callers, NEW r \in Requests, PreviewFile(o, r) PROVE TypeOK'
  <2>1. PlanFor(r.rows) \in Plan /\ r.user \in Users
    BY RequestTypes, PlanTypes
  <2>2. [plan |-> PlanFor(r.rows), user |-> r.user, expiresAt |-> clock + Lifetime]
            \in Preview
    BY <2>1, BoundAssumption DEF Preview, TypeOK
  <2>3. previews' \in [Callers -> Preview \cup {Null}]
    BY <1>2, <2>2, KeptPreviews DEF PreviewFile
  <2> QED
    BY <1>2, <2>3 DEF PreviewFile, Goes, TypeOK, tables, locals
<1>3. ASSUME NEW o \in Callers, NEW r \in Requests, Refuse(o, r) PROVE TypeOK'
  BY <1>3, KeptPreviews DEF Refuse, Goes, TypeOK, tables, locals
<1>4. ASSUME NEW o \in Callers, NEW r \in Requests, Look(o, r) PROVE TypeOK'
  BY <1>4, KeptPreviews DEF Look, Goes, TypeOK, tables
<1>5. ASSUME NEW o \in Callers, Put(o) PROVE TypeOK'
  <2>1. request[o] \in Requests /\ Of(o) \in Persons
    BY <1>5, RequestTypes DEF Put, Writes, Goes, Inv, Handler, Of
  <2>2. /\ request[o].kind \in {"add", "update"}
        /\ (seen[o] = Null /\ request[o].kind = "update") =>
              request[o].class # Null /\ request[o].code # Null
    BY <1>5 DEF Put, Writes, Goes, Inv, Handler
  <2>3. NextClass(o) \in Classes /\ NextCode(o) \in Codes
    <3>1. CASE seen[o] = Null
      BY <2>1, <2>2, <3>1, RequestTypes, RequestAssumption DEF NextClass, NextCode
    <3>2. CASE seen[o] # Null
      BY <2>1, <3>2, RequestTypes DEF NextClass, NextCode, TypeOK, Row
    <3> QED
      BY <3>1, <3>2
  <2>4. seen[o] # Null => enrol[Of(o)] # Null
    BY <1>5 DEF Put, SameRow
  <2>5. [id |-> IF seen[o] = Null THEN o ELSE seen[o].id,
         class |-> NextClass(o), code |-> NextCode(o),
         deleted |-> seen[o] # Null /\ enrol[Of(o)].deleted] \in Row
    <3>1. (IF seen[o] = Null THEN o ELSE seen[o].id) \in Callers \cup {Initial}
      BY DEF TypeOK, Row
    <3>2. (seen[o] # Null /\ enrol[Of(o)].deleted) \in BOOLEAN
      BY <2>1, <2>4 DEF TypeOK, Row
    <3> QED
      BY <2>3, <3>1, <3>2 DEF Row
  <2> QED
    BY <1>5, <2>1, <2>5 DEF Put, Writes, Goes, TypeOK, locals
<1>6. ASSUME NEW o \in Callers, Remove(o) \/ CreateForm(o) PROVE TypeOK'
  <2>1. request[o] \in Requests /\ Of(o) \in Persons
    BY <1>6, RequestTypes DEF Remove, CreateForm, Writes, Goes, Inv, Handler, Of
  <2>2. CASE Remove(o)
    BY <2>1, <2>2 DEF Remove, Writes, Goes, TypeOK, locals
  <2>3. CASE CreateForm(o)
    <3>1. seen[o] # Null
      BY <2>3 DEF CreateForm, Writes, Goes, Inv, Handler
    <3>2. seen[o].class \in Classes
      BY <3>1 DEF TypeOK, Row
    <3> QED
      BY <2>1, <2>3, <3>2 DEF CreateForm, Writes, Goes, TypeOK, locals
  <2> QED
    BY <1>6, <2>2, <2>3
<1>7. ASSUME NEW o \in Callers, Delete(o) PROVE TypeOK'
  <2>1. request[o] \in Requests /\ Of(o) \in Persons
    BY <1>7, RequestTypes DEF Delete, Writes, Goes, Inv, Handler, Of
  <2>2. TakesRow(o) => enrol[Of(o)] # Null
    BY <1>7 DEF Delete, TakesRow, SameRow
  <2>4. \A row \in Row : [row EXCEPT !.deleted = TRUE] \in Row
    BY DEF Row
  <2>5. TakesRow(o) => [enrol[Of(o)] EXCEPT !.deleted = TRUE] \in Row
    BY <2>1, <2>2, <2>4 DEF TypeOK
  <2>3. enrol' \in [Persons -> Row \cup {Null}]
    BY <1>7, <2>1, <2>5 DEF Delete, TypeOK
  <2> QED
    BY <1>7, <2>1, <2>3 DEF Delete, Writes, Goes, TypeOK, locals
<1>8. ASSUME NEW o \in Callers, Create(o) PROVE TypeOK'
  <2>1. request[o] \in Requests /\ Of(o) \in Persons 
          /\ request[o].kind \in {"create", "createUser"}
    BY <1>8, RequestTypes DEF Create, Writes, Goes, Inv, Handler, Of
  <2>2. request[o].class # Null =>
            [id |-> o, class |-> request[o].class, code |-> request[o].code,
             deleted |-> FALSE] \in Row
    BY <2>1, RequestTypes, RequestAssumption DEF Row
  <2>3. enrol' \in [Persons -> Row \cup {Null}]
    BY <1>8, <2>1, <2>2 DEF Create, TypeOK
  <2>4. staff' \subseteq Persons
    BY <1>8, <2>1 DEF Create, TypeOK
  <2> QED
    BY <1>8, <2>1, <2>3, <2>4 DEF Create, Writes, Goes, TypeOK, locals
<1>9. ASSUME NEW o \in Callers, Claim(o) \/ TooLate(o) PROVE TypeOK'
  <2>1. token[o] \in Callers
    BY <1>9 DEF Claim, TooLate, Goes, Inv, Handler
  <2>2. Kept[token[o]] # Null => Kept[token[o]].plan \in Plan
    BY <2>1, KeptPreviews DEF Preview
  <2> QED
    BY <1>9, <2>1, <2>2, KeptPreviews DEF Claim, TooLate, Goes, TypeOK, tables, locals
<1>10. ASSUME NEW o \in Callers, Commit(o) PROVE TypeOK'
  <2>1. plan[o] \in Plan
    BY <1>10 DEF Commit, Goes, Inv, Handler
  <2>2. enrol' \in [Persons -> Row \cup {Null}]
    BY <1>10, <2>1, RowTypes DEF Commit, TypeOK
  <2>3. phones' \subseteq Persons
    BY <1>10, <2>1 DEF Commit, Plan, TypeOK
  <2>4. /\ account' \in [Persons -> {"absent", "live", "deleted"}]
        /\ password' \in [Persons -> Callers \cup {Initial}]
    BY <1>10 DEF Commit, TypeOK
  <2> QED
    BY <1>10, <2>2, <2>3, <2>4 DEF Commit, Goes, TypeOK, locals
<1>11. ASSUME NEW o \in Callers, Fail(o) PROVE TypeOK'
  BY <1>11 DEF Fail, TypeOK, tables, locals
<1>12. ASSUME NEW o \in Callers, Mail(o) PROVE TypeOK'
  <2>1. Created(o) \subseteq Persons
    <3>1. /\ request[o] \in Requests
          /\ request[o].kind \notin {"create", "createUser"} => plan[o] \in Plan
      BY <1>12 DEF Mail, Goes, Inv, Handler
    <3> QED
      BY <3>1, RequestTypes DEF Created, Of, PersonsOf, Plan, FileRow
  <2>2. PICK sent \in SUBSET Created(o) :
            mails' = mails \cup {[to |-> p, by |-> o] : p \in sent}
    BY <1>12 DEF Mail
  <2>3. mails' \subseteq [to : Persons, by : Callers]
    BY <2>1, <2>2 DEF TypeOK
  <2> QED
    BY <1>12, <2>3 DEF Mail, Goes, TypeOK, tables, locals
<1>13. CASE Tick
  BY <1>13, BoundAssumption DEF Tick, TypeOK, tables, locals
<1>14. CASE Restart
  BY <1>14 DEF Restart, TypeOK, tables, locals
<1>15. CASE UNCHANGED vars
  BY <1>15 DEF vars, TypeOK, tables, locals
<1> QED
  BY <1>1, <1>2, <1>3, <1>4, <1>5, <1>6, <1>7, <1>8, <1>9, <1>10, <1>11, <1>12,
     <1>13, <1>14, <1>15 DEF Next, Step

-----------------------------------------------------------------------------
(* Accounts and enrolments.                                                 *)

\* A step that does not write accounts or enrolments.
LEMMA TablesUntouched ==
    ASSUME NEW o \in Callers, Step(o),
           ~(Put(o) \/ Remove(o) \/ Delete(o) \/ Create(o) \/ Commit(o))
    PROVE  account' = account /\ enrol' = enrol /\ staff' = staff
<1>1. ASSUME NEW r \in Requests, Read(o, r) \/ PreviewFile(o, r) \/ Refuse(o, r)
                                   \/ Look(o, r)
      PROVE  account' = account /\ enrol' = enrol /\ staff' = staff
  BY <1>1 DEF Read, PreviewFile, Refuse, Look, tables
<1>2. CASE CreateForm(o)
  BY <1>2 DEF CreateForm
<1>3. CASE Claim(o) \/ TooLate(o) \/ Fail(o) \/ Mail(o)
  BY <1>3 DEF Claim, TooLate, Fail, Mail, tables
<1> QED
  BY <1>1, <1>2, <1>3 DEF Step

LEMMA TablesKept == Inv /\ [Next]_vars => EnrolledAreStudents' /\ LiveEnrolment'
<1> SUFFICES ASSUME Inv, [Next]_vars, NEW p \in Persons
             PROVE  /\ enrol'[p] # Null => account'[p] # "absent" /\ p \notin staff'
                    /\ (account'[p] = "live" /\ enrol'[p] # Null) => ~enrol'[p].deleted
  BY DEF EnrolledAreStudents, LiveEnrolment
<1>0. TypeOK /\ EnrolledAreStudents /\ LiveEnrolment
  BY DEF Inv
<1> DEFINE Good == /\ enrol'[p] # Null => account'[p] # "absent" /\ p \notin staff'
                   /\ (account'[p] = "live" /\ enrol'[p] # Null) => ~enrol'[p].deleted
<1>1. ASSUME account' = account, staff' = staff, enrol'[p] = enrol[p] PROVE Good
  BY <1>0, <1>1 DEF EnrolledAreStudents, LiveEnrolment
<1>2. ASSUME NEW o \in Callers, Put(o) PROVE Good
  <2>1. /\ request[o] \in Requests /\ Of(o) \in Persons /\ account[Of(o)] # "absent"
        /\ account' = account /\ staff' = staff /\ Of(o) \notin staff
    BY <1>2, RequestTypes DEF Put, Writes, Goes, Inv, Handler, Of
  <2>2. CASE p # Of(o)
    BY <1>1, <1>2, <2>1, <2>2, <1>0 DEF Put, TypeOK
  <2>3. CASE p = Of(o)
    <3>1. enrol'[p].deleted = (seen[o] # Null /\ enrol[p].deleted)
      BY <1>2, <2>1, <2>3, <1>0 DEF Put, TypeOK
    <3>2. seen[o] # Null => enrol[p] # Null
      BY <1>2, <2>3 DEF Put, SameRow
    <3> QED
      BY <1>0, <2>1, <2>3, <3>1, <3>2 DEF LiveEnrolment
  <2> QED
    BY <2>2, <2>3
<1>3. ASSUME NEW o \in Callers, Remove(o) PROVE Good
  BY <1>0, <1>3, <1>1 DEF Remove, TypeOK
<1>4. ASSUME NEW o \in Callers, Delete(o) PROVE Good
  <2>1. Of(o) \in Persons
    BY <1>4, RequestTypes DEF Delete, Writes, Goes, Inv, Handler, Of
  <2>2. CASE p # Of(o)
    BY <1>0, <1>4, <2>1, <2>2 DEF Delete, TypeOK, EnrolledAreStudents, LiveEnrolment
  <2>3. CASE p = Of(o)
    <3>1. account'[p] = "deleted" /\ staff' = staff
      BY <1>0, <1>4, <2>1, <2>3 DEF Delete, TypeOK
    <3>2. TakesRow(o) => enrol[p] # Null
      BY <1>4, <2>3 DEF Delete, TakesRow, SameRow
    <3>3. enrol'[p] # Null => enrol[p] # Null
      BY <1>0, <1>4, <2>1, <2>3, <3>2 DEF Delete, TypeOK
    <3> QED
      BY <1>0, <3>1, <3>3 DEF EnrolledAreStudents
  <2> QED
    BY <2>2, <2>3
<1>5. ASSUME NEW o \in Callers, Create(o) PROVE Good
  <2>1. Of(o) \in Persons
    BY <1>5, RequestTypes DEF Create, Writes, Goes, Inv, Handler, Of
  <2>2. CASE p # Of(o)
    BY <1>0, <1>5, <2>1, <2>2 DEF Create, TypeOK, EnrolledAreStudents, LiveEnrolment
  <2>3. CASE p = Of(o)
    <3>1. account[p] = "absent" /\ enrol[p] = Null
      BY <1>0, <1>5, <2>3 DEF Create, Creatable, EnrolledAreStudents
    <3>4. enrol'[p] # Null => p \notin staff'
      <4>1. p \notin staff
        BY <3>1 DEF Inv, StaffExist
      <4>2. request[o] \in Requests
        BY <1>5 DEF Create, Writes, Goes, Inv, Handler
      <4>3. CASE request[o].kind = "createUser"
        <5> request[o].class = Null
          BY <4>2, <4>3, RequestAssumption
        <5> QED
          BY <1>5, <3>1 DEF Create
      <4>4. CASE request[o].kind # "createUser"
        BY <1>5, <4>1, <4>4 DEF Create
      <4> QED
        BY <4>3, <4>4
    <3>2. account'[p] = "live"
      BY <1>0, <1>5, <2>3 DEF Create, TypeOK
    <3>3. enrol'[p] = Null \/ ~enrol'[p].deleted
      BY <1>0, <1>5, <2>3, <3>1 DEF Create, TypeOK
    <3> QED
      BY <3>2, <3>3, <3>4
  <2> QED
    BY <2>2, <2>3
<1>6. ASSUME NEW o \in Callers, Commit(o) PROVE Good
  <2>1. plan[o] \in Plan /\ Grounded(plan[o])
    BY <1>6, NullAssumption DEF Commit, Goes, Inv, Handler
  <2>2. CASE p \notin PersonsOf(Enrolled(plan[o]))
    <3>1. p \notin PersonsOf(plan[o].creates)
      BY <2>2 DEF PersonsOf, Enrolled
    <3> QED
      BY <1>0, <1>6, <2>2, <3>1 DEF Commit, EnrolledAreStudents, LiveEnrolment
  <2>3. CASE p \in PersonsOf(Enrolled(plan[o]))
    <3>1. enrol'[p] = RowOf(o, p) /\ ~enrol'[p].deleted
      BY <1>6, <2>1, <2>3, RowTypes DEF Commit
    <3>2. account'[p] # "absent" /\ p \notin staff'
      <4>1. CASE p \in PersonsOf(plan[o].creates)
        <5>1. account[p] = "absent" /\ account'[p] = "live" /\ staff' = staff
          BY <1>6, <4>1 DEF Commit, Fits, PersonsOf
        <5> QED
          BY <5>1 DEF Inv, StaffExist
      <4>2. CASE p \notin PersonsOf(plan[o].creates)
        <5>1. account[p] # "absent" /\ p \notin staff
          BY <2>1, <2>3, <4>2 DEF Grounded, PersonsOf, Enrolled
        <5> QED
          BY <5>1, AccountsStay
      <4> QED
        BY <4>1, <4>2
    <3> QED
      BY <3>1, <3>2
  <2> QED
    BY <2>2, <2>3
<1>7. CASE Tick \/ Restart \/ UNCHANGED vars
  BY <1>1, <1>7 DEF Tick, Restart, vars, tables
<1> QED
  BY <1>1, <1>2, <1>3, <1>4, <1>5, <1>6, <1>7, TablesUntouched DEF Next

\* Whoever has another role keeps an account.
LEMMA StaffKept == Inv /\ [Next]_vars => StaffExist'
<1> SUFFICES ASSUME Inv, [Next]_vars, NEW p \in staff' PROVE account'[p] # "absent"
  BY DEF StaffExist
<1>1. CASE p \in staff
  BY <1>1, AccountsStay DEF Inv, StaffExist, TypeOK
<1>2. CASE p \notin staff
  <2>1. ASSUME NEW o \in Callers, Step(o), ~Create(o) PROVE staff' = staff
    BY <2>1, TablesUntouched DEF Put, Remove, Delete, Commit
  <2>2. PICK o \in Callers : Create(o)
    BY <1>2, <2>1 DEF Next, Tick, Restart, vars, tables
  <2>3. Of(o) \in Persons
    BY <2>2, RequestTypes DEF Create, Writes, Goes, Inv, Handler, Of
  <2>4. p = Of(o)
    BY <1>2, <2>2 DEF Create
  <2> QED
    BY <2>2, <2>3, <2>4 DEF Create, Inv, TypeOK
<1> QED
  BY <1>1, <1>2

\* What a mail says is and stays true.
LEMMA MailsKept == Inv /\ [Next]_vars => MailsTellThePassword'
<1> SUFFICES ASSUME Inv, [Next]_vars, NEW m \in mails'
             PROVE  account'[m.to] # "absent" /\ password'[m.to] = m.by
  BY DEF MailsTellThePassword
<1>1. CASE m \in mails
  <2>1. m.to \in Persons /\ account[m.to] # "absent" /\ password[m.to] = m.by
    BY <1>1 DEF Inv, TypeOK, MailsTellThePassword
  <2> QED
    BY <2>1, AccountsStay
<1>2. CASE m \notin mails
  <2>1. ASSUME NEW o \in Callers, Step(o), ~Mail(o) PROVE mails' = mails
    <3>1. ASSUME NEW r \in Requests, Read(o, r) \/ PreviewFile(o, r) \/ Refuse(o, r)
                                       \/ Look(o, r)
          PROVE  mails' = mails
      BY <3>1 DEF Read, PreviewFile, Refuse, Look
    <3>2. CASE Put(o) \/ Remove(o) \/ Delete(o) \/ Create(o) \/ CreateForm(o)
      BY <3>2 DEF Put, Remove, Delete, Create, CreateForm
    <3>3. CASE Claim(o) \/ TooLate(o) \/ Commit(o) \/ Fail(o)
      BY <3>3 DEF Claim, TooLate, Commit, Fail
    <3> QED
      BY <2>1, <3>1, <3>2, <3>3 DEF Step
  <2>2. PICK o \in Callers : Mail(o)
    BY <1>2, <2>1 DEF Next, Tick, Restart, vars
  <2>3. PICK p \in Created(o) : m = [to |-> p, by |-> o]
    BY <1>2, <2>2 DEF Mail
  <2>4. account[p] # "absent" /\ password[p] = o
    BY <2>2 DEF Mail, Goes, Inv, Handler
  <2>5. account' = account /\ password' = password
    BY <2>2 DEF Mail, tables
  <2> QED
    BY <2>3, <2>4, <2>5
<1> QED
  BY <1>1, <1>2

-----------------------------------------------------------------------------
(* Handlers.                                                                *)

\* A handler that does not move still knows what it knew.
LEMMA StillHandles ==
    ASSUME Inv, [Next]_vars, NEW d \in Callers,
           at'[d] = at[d] \/ at'[d] \in {"done", "refused"},
           request'[d] = request[d], seen'[d] = seen[d],
           token'[d] = token[d], plan'[d] = plan[d]
    PROVE  Handler(d)'
<1>0. Handler(d) /\ TypeOK
  BY DEF Inv
<1>1. plan[d] # Null => plan[d] \in Plan
  BY <1>0 DEF TypeOK
<1>2. plan[d] # Null => /\ \A r \in plan[d].enrols : account'[r.person] # "absent" /\ r.person \notin staff'
                        /\ token[d] \in Callers
  <2>1. ASSUME plan[d] # Null PROVE Grounded(plan[d]) /\ plan[d] \in Plan
    BY <1>0, <1>1, <2>1 DEF Handler
  <2> QED
    BY <1>0, <2>1, GroundedStays DEF Handler
<1>3. at[d] = "writing" =>
          /\ request[d].kind \notin {"create", "createUser"} => account'[Of(d)] # "absent"
          /\ request[d].kind \in {"add", "update"} => Of(d) \notin staff'
  <2>1. at[d] = "writing" => Of(d) \in Persons
    BY <1>0, RequestTypes DEF Handler, Of
  <2> QED
    BY <1>0, <2>1, AccountsStay DEF Handler
<1>4. at[d] = "mailing" =>
          \A p \in Created(d) : account'[p] # "absent" /\ password'[p] = d
  <2>1. at[d] = "mailing" => Created(d) \subseteq Persons
    BY <1>0, RequestTypes DEF Handler, Created, Of, PersonsOf, Plan, FileRow
  <2> QED
    BY <1>0, <2>1, AccountsStay DEF Handler
<1>6. CASE at'[d] = at[d]
  <2>1. /\ at'[d] = "writing" =>
              /\ \/ account'[request'[d].person] # "absent"
                 \/ request'[d].kind \in {"create", "createUser"}
              /\ request'[d].kind \in {"add", "update"} => request'[d].person \notin staff'
        /\ at'[d] = "mailing" =>
              \A p \in Created(d) : account'[p] # "absent" /\ password'[p] = d
    BY <1>3, <1>4, <1>6 DEF Of
  <2>2. Created(d)' = Created(d)
    BY DEF Created, Of
  <2>3. \A p \in Created(d)' : at'[d] = "mailing" =>
            account'[p] # "absent" /\ password'[p] = d
    BY <2>1, <2>2
  <2>4. plan'[d] # Null => \A r \in plan'[d].enrols : account'[r.person] # "absent" /\ r.person \notin staff'
    BY <1>2
  <2>5. at[d] = "mailing" => request'[d].kind \in {"create", "createUser"} \/ plan'[d] \in Plan
    BY <1>0 DEF Handler
  <2> QED
    BY <1>0, <1>2, <1>6, <2>1, <2>3, <2>4, <2>5 DEF Handler, Of, Grounded
<1>7. CASE at'[d] \in {"done", "refused"}
  <2>1. plan'[d] # Null => \A r \in plan'[d].enrols : account'[r.person] # "absent" /\ r.person \notin staff'
    BY <1>2
  <2> QED
    BY <1>2, <1>7, <2>1 DEF Handler, Grounded
<1> QED
  BY <1>6, <1>7

\* Whoever may be read for writing is in place.
LEMMA AcceptedRequests ==
    ASSUME Inv, NEW r \in Requests, Accepts(r)
    PROVE  /\ r.kind \notin {"import", "confirm"}
           /\ r.kind \notin {"create", "createUser"} => account[r.person] # "absent"
           /\ r.kind \in {"add", "update"} => r.person \notin staff
           /\ Found(r) = Null => r.kind \notin {"remove", "form"}
           /\ (Found(r) = Null /\ r.kind = "update") => r.class # Null /\ r.code # Null
<1>1. r.person \in Persons
  BY RequestTypes
<1>2. CASE r.kind = "add" /\ AddAccepts(r)
  BY <1>2 DEF AddAccepts, Student
<1>3. CASE r.kind = "remove" /\ RemoveAccepts(r)
  BY <1>1, <1>3 DEF RemoveAccepts, Found, Inv, EnrolledAreStudents
<1>4. CASE r.kind = "update" /\ UpdateAccepts(r)
  BY <1>4 DEF UpdateAccepts, LiveStudent
<1>5. CASE \/ r.kind = "delete" /\ DeleteAccepts(r)
           \/ r.kind = "deleteUser" /\ DeleteUserAccepts(r)
  BY <1>5 DEF DeleteAccepts, DeleteUserAccepts, LiveStudent
<1>6. CASE r.kind \in {"create", "createUser"} /\ CreateAccepts(r)
  BY <1>6
<1>7. CASE r.kind = "form" /\ FormAccepts(r)
  BY <1>7 DEF FormAccepts, LiveStudent, Found
<1> QED
  BY <1>2, <1>3, <1>4, <1>5, <1>6, <1>7 DEF Accepts

LEMMA HandlersKept == Inv /\ [Next]_vars => \A d \in Callers : Handler(d)'
<1> SUFFICES ASSUME Inv, [Next]_vars, NEW d \in Callers PROVE Handler(d)'
  OBVIOUS
<1>0. TypeOK /\ Handler(d) /\ Store
  BY DEF Inv
<1>1. ASSUME NEW o \in Callers, Step(o), d # o PROVE Handler(d)'
  BY <1>0, <1>1, OthersStay, StillHandles
<1>2. ASSUME NEW r \in Requests, Read(d, r) PROVE Handler(d)'
  <2>1. /\ at'[d] = "writing" /\ request'[d] = r /\ seen'[d] = Found(r)
        /\ token'[d] = Null /\ plan'[d] = Null /\ account' = account /\ staff' = staff
    BY <1>0, <1>2 DEF Read, Goes, TypeOK, Handler, tables
  <2>2. Of(d)' = r.person
    BY <2>1 DEF Of
  <2>3. Accepts(r)
    BY <1>2 DEF Read
  <2> QED
    BY <2>1, <2>2, <2>3, AcceptedRequests DEF Handler
<1>3. ASSUME NEW r \in Requests, PreviewFile(d, r) PROVE Handler(d)'
  <2>1. at'[d] = "previewed" /\ plan'[d] = Null
    BY <1>0, <1>3 DEF PreviewFile, Goes, TypeOK, Handler, locals
  <2> QED
    BY <2>1 DEF Handler
<1>4. ASSUME NEW r \in Requests, Refuse(d, r) PROVE Handler(d)'
  BY <1>0, <1>4, StillHandles DEF Refuse, Goes, TypeOK, locals
<1>5. ASSUME NEW r \in Requests, Look(d, r) PROVE Handler(d)'
  <2>1. /\ at'[d] = "looked" /\ request'[d] = r /\ r.kind = "confirm"
        /\ plan'[d] = Null /\ token'[d] \in Callers
    BY <1>0, <1>5 DEF Look, Goes, TypeOK, Handler
  <2> QED
    BY <2>1 DEF Handler
<1>6. CASE Put(d) \/ Remove(d) \/ Delete(d) \/ CreateForm(d)
  <2>1. at'[d] = "done"
    BY <1>0, <1>6 DEF Put, Remove, Delete, CreateForm, Writes, Goes, TypeOK
  <2>2. UNCHANGED locals
    BY <1>6 DEF Put, Remove, Delete, CreateForm
  <2> QED
    BY <2>1, <2>2, StillHandles DEF locals
<1>7. CASE TooLate(d) \/ Fail(d) \/ Mail(d)
  BY <1>0, <1>7, StillHandles DEF TooLate, Fail, Mail, Goes, TypeOK, locals
<1>8. CASE Create(d)
  <2>1. /\ Of(d) \in Persons /\ request[d] \in Requests
        /\ request[d].kind \in {"create", "createUser"}
    BY <1>0, <1>8, RequestTypes DEF Create, Writes, Goes, Handler, Of
  <2>2. /\ at'[d] = "mailing" /\ request' = request /\ plan' = plan /\ token' = token
        /\ account'[Of(d)] # "absent" /\ password'[Of(d)] = d
    BY <1>0, <1>8, <2>1 DEF Create, Writes, Goes, TypeOK, locals
  <2>3. Created(d)' = {Of(d)}
    BY <2>1, <2>2 DEF Created, Of
  <2>4. plan[d] # Null => plan[d] \in Plan /\ Grounded(plan[d]) /\ token[d] \in Callers
    BY <1>0 DEF Handler, TypeOK
  <2>5. plan'[d] # Null => \A r \in plan'[d].enrols : account'[r.person] # "absent" /\ r.person \notin staff'
    BY <2>2, <2>4, GroundedStays
  <2>6. \A p \in Created(d)' : account'[p] # "absent" /\ password'[p] = d
    BY <2>2, <2>3
  <2> QED
    BY <2>1, <2>2, <2>4, <2>5, <2>6 DEF Handler, Grounded
<1>9. CASE Claim(d)
  <2>1. /\ token[d] \in Callers /\ request[d] \in Requests
        /\ request[d].kind = "confirm" /\ Kept[token[d]] # Null
    BY <1>0, <1>9 DEF Claim, Goes, Handler
  <2>2. Kept[token[d]] = previews[token[d]] /\ Kept[token[d]] \in Preview
    BY <1>0, <2>1, KeptPreviews
  <2>3. Kept[token[d]].plan \in Plan /\ Grounded(Kept[token[d]].plan)
    BY <1>0, <2>1, <2>2 DEF Store, Preview
  <2>4. /\ at'[d] = "committing" /\ plan'[d] = Kept[token[d]].plan
        /\ request' = request /\ token' = token /\ account' = account /\ staff' = staff
    BY <1>0, <1>9 DEF Claim, Goes, TypeOK, tables
  <2>5. Grounded(plan[d])'
    BY <2>3, <2>4 DEF Grounded
  <2> QED
    BY <2>1, <2>3, <2>4, <2>5 DEF Handler
<1>10. CASE Commit(d)
  <2>1. /\ plan[d] \in Plan /\ request[d] \in Requests
        /\ request[d].kind = "confirm"
    BY <1>0, <1>10 DEF Commit, Goes, Handler
  <2>2. /\ at'[d] = "mailing" /\ request' = request /\ plan' = plan /\ token' = token
    BY <1>0, <1>10 DEF Commit, Goes, TypeOK, locals
  <2>3. Created(d)' = PersonsOf(plan[d].creates)
    BY <2>1, <2>2 DEF Created, Of
  <2>4. PersonsOf(plan[d].creates) \subseteq Persons
    BY <2>1 DEF Plan, FileRow, PersonsOf
  <2>5. \A p \in PersonsOf(plan[d].creates) : account'[p] = "live" /\ password'[p] = d
    BY <1>10, <2>4 DEF Commit
  <2>6. Grounded(plan[d]) /\ token[d] \in Callers
    BY <1>0, <2>1, NullAssumption DEF Handler
  <2>7. \A r \in plan[d].enrols : account'[r.person] # "absent" /\ r.person \notin staff'
    BY <2>1, <2>6, GroundedStays
  <2>8. \A p \in Created(d)' : account'[p] # "absent" /\ password'[p] = d
    BY <2>3, <2>5
  <2> QED
    BY <2>1, <2>2, <2>6, <2>7, <2>8 DEF Handler, Grounded
<1>11. CASE Tick \/ Restart \/ UNCHANGED vars
  BY <1>0, <1>11, StillHandles DEF Tick, Restart, vars, TypeOK, locals
<1> QED
  BY <1>1, <1>2, <1>3, <1>4, <1>5, <1>6, <1>7, <1>8, <1>9, <1>10, <1>11 DEF Next, Step

-----------------------------------------------------------------------------
(* The store of previews.                                                   *)

\* Most steps leave the store and the claims alone, or only prune.
LEMMA QuietSteps ==
    ASSUME Inv, NEW o \in Callers, Step(o), ~Claim(o),
           \A r \in Requests : ~PreviewFile(o, r) /\ ~Look(o, r)
    PROVE  token' = token /\ plan' = plan /\ previews' \in {previews, Kept}
<1>1. ASSUME NEW r \in Requests, Read(o, r) \/ Refuse(o, r)
      PROVE  token' = token /\ plan' = plan /\ previews' \in {previews, Kept}
  BY <1>1 DEF Read, Refuse, locals
<1>2. CASE Put(o) \/ Remove(o) \/ Delete(o) \/ Create(o) \/ CreateForm(o)
  BY <1>2 DEF Put, Remove, Delete, Create, CreateForm, locals
<1>3. CASE TooLate(o) \/ Commit(o) \/ Fail(o) \/ Mail(o)
  BY <1>3 DEF TooLate, Commit, Fail, Mail, locals
<1> QED
  BY <1>1, <1>2, <1>3 DEF Step

\* Nothing moves the handler of an import that is done.
LEMMA PreviewedStays ==
    ASSUME Inv, [Next]_vars, NEW i \in Callers, at[i] = "previewed"
    PROVE  at'[i] = "previewed"
<1>1. ASSUME NEW r \in Requests, Read(i, r) \/ PreviewFile(i, r) \/ Refuse(i, r)
                                   \/ Look(i, r)
      PROVE  FALSE
  BY <1>1 DEF Read, PreviewFile, Refuse, Look, Goes
<1>2. ~Step(i)
  BY <1>1 DEF Step, Put, Remove, Delete, Create, CreateForm, Claim, TooLate, Commit,
              Fail, Mail, Writes, Goes
<1>3. ASSUME NEW o \in Callers, Step(o) PROVE at'[i] = "previewed"
  BY <1>2, <1>3, OthersStay DEF Inv
<1>4. CASE Tick \/ Restart \/ UNCHANGED vars
  BY <1>4 DEF Tick, Restart, vars
<1> QED
  BY <1>3, <1>4 DEF Next

\* What is in the store after a step was there, or a file was previewed.
LEMMA PreviewsAfter ==
    ASSUME Inv, [Next]_vars, NEW i \in Callers, previews'[i] # Null
    PROVE  \/ previews'[i] = previews[i]
           \/ \E r \in Requests :
                 /\ PreviewFile(i, r)
                 /\ previews'[i].plan = PlanFor(r.rows)
<1> USE KeptPreviews DEF Inv
<1>1. ASSUME NEW o \in Callers, NEW r \in Requests, PreviewFile(o, r)
      PROVE  \/ previews'[i] = previews[i]
             \/ i = o /\ previews'[i].plan = PlanFor(r.rows)
  BY <1>1 DEF PreviewFile
<1>2. ASSUME NEW o \in Callers, NEW r \in Requests, Look(o, r)
      PROVE  previews'[i] = previews[i]
  BY <1>2 DEF Look
<1>3. ASSUME NEW o \in Callers, Claim(o) PROVE previews'[i] = previews[i]
  BY <1>3 DEF Claim
<1>4. CASE Tick \/ Restart \/ UNCHANGED vars
  BY <1>4 DEF Tick, Restart, vars
<1> QED
  BY <1>1, <1>2, <1>3, <1>4, QuietSteps DEF Next

\* The plan of a file enrols nobody without an account.
LEMMA FreshGrounded ==
    ASSUME NEW r \in Requests
    PROVE  Grounded(PlanFor(r.rows))
  BY DEF Grounded, PlanFor, RowsToDo, Action, LiveStudent

LEMMA StoreKept == Inv /\ [Next]_vars => Store'
<1> SUFFICES ASSUME Inv, [Next]_vars, NEW i \in Callers
             PROVE  /\ previews'[i] # Null =>
                          /\ at'[i] = "previewed"
                          /\ \A r \in previews'[i].plan.enrols : account'[r.person] # "absent" /\ r.person \notin staff'
                    /\ token'[i] # Null => at'[token'[i]] = "previewed"
  BY DEF Store, Grounded
<1>0. TypeOK /\ Store
  BY DEF Inv
<1>1. ASSUME previews'[i] # Null
      PROVE  /\ at'[i] = "previewed"
             /\ \A r \in previews'[i].plan.enrols : account'[r.person] # "absent" /\ r.person \notin staff'
  <2>1. CASE previews'[i] = previews[i]
    <3>1. at[i] = "previewed" /\ Grounded(previews[i].plan) /\ previews[i].plan \in Plan
      BY <1>0, <1>1, <2>1 DEF Store, TypeOK, Preview
    <3> QED
      BY <2>1, <3>1, PreviewedStays, GroundedStays
  <2>2. CASE \E r \in Requests : PreviewFile(i, r) /\ previews'[i].plan = PlanFor(r.rows)
    <3>1. PICK r \in Requests : PreviewFile(i, r) /\ previews'[i].plan = PlanFor(r.rows)
      BY <2>2
    <3>2. PlanFor(r.rows) \in Plan
      BY RequestTypes, PlanTypes
    <3>3. at'[i] = "previewed"
      BY <1>0, <3>1 DEF PreviewFile, Goes, TypeOK
    <3> QED
      BY <3>1, <3>2, <3>3, FreshGrounded, GroundedStays
  <2> QED
    BY <1>1, <2>1, <2>2, PreviewsAfter
<1>2. ASSUME token'[i] # Null PROVE at'[token'[i]] = "previewed"
  <2>1. CASE token'[i] = token[i]
    BY <1>0, <1>2, <2>1, PreviewedStays DEF Store, TypeOK
  <2>2. CASE token'[i] # token[i]
    <3>1. \E r \in Requests : Look(i, r)
      <4>1. ASSUME NEW o \in Callers, NEW r \in Requests, Look(o, r), o # i PROVE FALSE
        BY <1>0, <2>2, <4>1 DEF Look, TypeOK
      <4>2. ASSUME NEW o \in Callers, NEW r \in Requests, PreviewFile(o, r) PROVE FALSE
        BY <2>2, <4>2 DEF PreviewFile, locals
      <4>3. ASSUME NEW o \in Callers, Claim(o) PROVE FALSE
        BY <2>2, <4>3 DEF Claim
      <4>4. ~Tick /\ ~Restart /\ ~UNCHANGED vars
        BY <2>2 DEF Tick, Restart, vars, locals
      <4> QED
        BY <2>2, <4>1, <4>2, <4>3, <4>4, QuietSteps DEF Next
    <3>2. PICK r \in Requests : Look(i, r)
      BY <3>1
    <3>3. PICK j \in Callers : Kept[j] # Null /\ token'[i] = j
      BY <1>0, <3>2 DEF Look, TypeOK
    <3>4. at[j] = "previewed"
      BY <1>0, <3>3, KeptPreviews DEF Store
    <3> QED
      BY <3>3, <3>4, PreviewedStays
  <2> QED
    BY <2>1, <2>2
<1> QED
  BY <1>1, <1>2

LEMMA ClaimsKept == Inv /\ [Next]_vars => ClaimedOnce'
<1> SUFFICES ASSUME Inv, [Next]_vars, NEW c \in Callers, plan'[c] # Null
             PROVE  /\ previews'[token'[c]] = Null
                    /\ \A d \in Callers : (plan'[d] # Null /\ token'[d] = token'[c]) => d = c
  BY DEF ClaimedOnce
<1> DEFINE Good == /\ previews'[token'[c]] = Null
                   /\ \A d \in Callers :
                         (plan'[d] # Null /\ token'[d] = token'[c]) => d = c
<1>0. TypeOK /\ ClaimedOnce /\ Store /\ \A o \in Callers : Handler(o)
  BY DEF Inv
<1>1. ASSUME token' = token, plan' = plan, previews' \in {previews, Kept} PROVE Good
  <2>1. token[c] \in Callers
    BY <1>0, <1>1 DEF Handler
  <2> QED
    BY <1>0, <1>1, <2>1, KeptPreviews DEF ClaimedOnce
<1>2. ASSUME NEW o \in Callers, NEW r \in Requests, PreviewFile(o, r) PROVE Good
  <2>1. token' = token /\ plan' = plan /\ token[c] \in Callers
    BY <1>0, <1>2 DEF PreviewFile, locals, Handler
  <2>2. token[c] # o
    BY <1>0, <1>2, <2>1, NullAssumption DEF PreviewFile, Goes, Store
  <2>3. previews'[token[c]] = Kept[token[c]]
    BY <1>0, <1>2, <2>1, <2>2, KeptPreviews DEF PreviewFile
  <2> QED
    BY <1>0, <2>1, <2>3, KeptPreviews DEF ClaimedOnce
<1>3. ASSUME NEW o \in Callers, NEW r \in Requests, Look(o, r) PROVE Good
  <2>1. plan[o] = Null /\ plan' = plan /\ previews' = Kept
    BY <1>0, <1>3 DEF Look, Goes, Handler
  <2>2. \A d \in Callers : d # o => token'[d] = token[d]
    BY <1>0, <1>3 DEF Look, TypeOK
  <2>3. token[c] \in Callers
    BY <1>0, <2>1 DEF Handler
  <2> QED
    BY <1>0, <2>1, <2>2, <2>3, KeptPreviews DEF ClaimedOnce
<1>4. ASSUME NEW o \in Callers, Claim(o) PROVE Good
  <2>1. /\ token[o] \in Callers /\ plan[o] = Null /\ Kept[token[o]] # Null
        /\ token' = token
    BY <1>0, <1>4 DEF Claim, Goes, Handler
  <2>2. previews[token[o]] # Null
    BY <1>0, <2>1, KeptPreviews
  <2>3. \A d \in Callers : (d # o /\ plan'[d] # Null) =>
            plan[d] # Null /\ token[d] \in Callers /\ token[d] # token[o]
    BY <1>0, <1>4, <2>1, <2>2 DEF Claim, TypeOK, ClaimedOnce, Handler
  <2>4. previews'[token[o]] = Null
    BY <1>0, <1>4, <2>1, KeptPreviews DEF Claim
  <2>5. CASE c = o
    BY <2>1, <2>3, <2>4, <2>5
  <2>6. CASE c # o
    <3>1. previews[token[c]] = Null
      BY <1>0, <2>3, <2>6 DEF ClaimedOnce
    <3>2. previews'[token[c]] = Null
      BY <1>0, <1>4, <2>3, <2>6, <3>1, KeptPreviews DEF Claim
    <3> QED
      BY <1>0, <2>1, <2>3, <2>6, <3>2 DEF ClaimedOnce
  <2> QED
    BY <2>5, <2>6
<1>5. CASE Tick \/ UNCHANGED vars
  BY <1>1, <1>5 DEF Tick, vars, locals
<1>6. CASE Restart
  <2>1. token' = token /\ plan' = plan /\ token[c] \in Callers
    BY <1>0, <1>6 DEF Restart, locals, Handler
  <2> QED
    BY <1>0, <1>6, <2>1 DEF Restart, ClaimedOnce
<1> QED
  BY <1>1, <1>2, <1>3, <1>4, <1>5, <1>6, QuietSteps DEF Next

LEMMA BoundKept == Inv /\ [Next]_vars => StoreBounded'
<1> SUFFICES ASSUME Inv, [Next]_vars PROVE Cardinality(Held(previews)') <= Capacity
  BY DEF StoreBounded
<1>0. TypeOK /\ StoreBounded
  BY DEF Inv
<1>1. \A S \in SUBSET Callers : IsFiniteSet(S) /\ Cardinality(S) \in Nat
  BY BoundAssumption, FS_Subset, FS_CardinalityType
<1>2. ASSUME Held(previews)' \subseteq Held(previews)
      PROVE  Cardinality(Held(previews)') <= Capacity
  <2>1. Held(previews) \in SUBSET Callers /\ Held(previews)' \in SUBSET Callers
    BY DEF Held
  <2>2. IsFiniteSet(Held(previews))
    BY <1>1, <2>1
  <2>3. Cardinality(Held(previews)') <= Cardinality(Held(previews))
    BY <1>2, <2>2, FS_Subset
  <2>4. /\ Cardinality(Held(previews)) \in Nat /\ Cardinality(Held(previews)') \in Nat
        /\ Cardinality(Held(previews)) <= Capacity /\ Capacity \in Nat
    BY <1>0, <1>1, <2>1, BoundAssumption DEF StoreBounded
  <2> QED
    BY <2>3, <2>4
<1>3. ASSUME NEW o \in Callers, NEW r \in Requests, PreviewFile(o, r)
      PROVE  Cardinality(Held(previews)') <= Capacity
  <2>1. Held(Kept) \in SUBSET Callers
    BY DEF Held
  <2>2. Held(previews)' \subseteq Held(Kept) \cup {o}
    BY <1>0, <1>3, KeptPreviews DEF PreviewFile, Held
  <2>3. Cardinality(Held(Kept)) < Capacity /\ Cardinality(Held(Kept)) \in Nat
        /\ IsFiniteSet(Held(Kept))
    BY <1>1, <1>3, <2>1 DEF PreviewFile, Room
  <2>4. /\ IsFiniteSet(Held(Kept) \cup {o})
        /\ \/ Cardinality(Held(Kept) \cup {o}) = Cardinality(Held(Kept))
           \/ Cardinality(Held(Kept) \cup {o}) = Cardinality(Held(Kept)) + 1
    BY <2>3, FS_AddElement
  <2>5. /\ Cardinality(Held(previews)') <= Cardinality(Held(Kept) \cup {o})
        /\ Cardinality(Held(previews)') \in Nat
    <3>1. IsFiniteSet(Held(previews)')
      BY <2>2, <2>4, FS_Subset
    <3> QED
      BY <2>2, <2>4, <3>1, FS_Subset, FS_CardinalityType
  <2> QED
    BY <2>3, <2>4, <2>5, BoundAssumption
<1>4. ASSUME \A o \in Callers, r \in Requests : ~PreviewFile(o, r)
      PROVE  Held(previews)' \subseteq Held(previews)
  BY <1>4, PreviewsAfter DEF Held
<1> QED
  BY <1>2, <1>3, <1>4

-----------------------------------------------------------------------------
\* The invariant holds in every reachable state.
THEOREM Invariance == Spec => []Inv
<1>1. Inv /\ [Next]_vars => Inv'
  BY TypesKept, TablesKept, StaffKept, MailsKept, HandlersKept, StoreKept, ClaimsKept, BoundKept
     DEF Inv
<1> QED
  BY <1>1, InvInit, PTL DEF Spec

\* The tables, the store and what handlers know have their types.
THEOREM TypeCorrect == Spec => []TypeOK
<1>1. Inv => TypeOK
  BY DEF Inv
<1> QED
  BY <1>1, Invariance, PTL

\* However many confirmations race, one gets the plan of an import.
THEOREM ClaimsOnce == Spec => []ClaimedOnce
<1>1. Inv => ClaimedOnce
  BY DEF Inv
<1> QED
  BY <1>1, Invariance, PTL

\* The store keeps to its capacity, whatever that is.
THEOREM Bounded == Spec => []StoreBounded
<1>1. Inv => StoreBounded
  BY DEF Inv
<1> QED
  BY <1>1, Invariance, PTL

\* Mails go to accounts that exist, with the password they have.
THEOREM MailsTrue == Spec => []MailsTellThePassword
<1>1. Inv => MailsTellThePassword
  BY DEF Inv
<1> QED
  BY <1>1, Invariance, PTL

\* Accounts and enrolments are deleted together.
THEOREM EnrolmentLives == Spec => []LiveEnrolment
<1>1. Inv => LiveEnrolment
  BY DEF Inv
<1> QED
  BY <1>1, Invariance, PTL

-----------------------------------------------------------------------------
(* What steps may do.                                                       *)

\* A row that is there is changed only by a handler that has read it.
LEMMA RowsRead ==
    ASSUME Inv, [Next]_vars, NEW p \in Persons, enrol[p] # Null, enrol'[p] # enrol[p]
    PROVE  \E o \in Callers :
              /\ at[o] = "writing" /\ at'[o] # "writing" /\ Of(o) = p
              /\ \/ request[o].kind = "deleteUser"
                 \/ seen[o] # Null /\ seen[o].id = enrol[p].id
<1>0. TypeOK /\ EnrolledAreStudents
  BY DEF Inv
<1>1. ASSUME NEW o \in Callers, Put(o) \/ Remove(o) \/ Delete(o)
      PROVE  /\ at[o] = "writing" /\ at'[o] # "writing" /\ Of(o) = p
             /\ \/ request[o].kind = "deleteUser"
                \/ seen[o] # Null /\ seen[o].id = enrol[p].id
  <2>1. at[o] = "writing" /\ at'[o] = "done"
    BY <1>0, <1>1 DEF Put, Remove, Delete, Writes, Goes, TypeOK
  <2>2. Of(o) = p
    <3>1. \/ enrol' = enrol
          \/ \E v : enrol' = [enrol EXCEPT ![Of(o)] = v]
      BY <1>1 DEF Put, Remove, Delete
    <3> QED
      BY <1>0, <3>1 DEF TypeOK
  <2>3. request[o].kind = "deleteUser" \/ SameRow(o)
    BY <1>1 DEF Put, Remove, Delete, TakesRow, Writes
  <2> QED
    BY <2>1, <2>2, <2>3 DEF SameRow
<1>2. ASSUME NEW o \in Callers, Create(o) PROVE FALSE
  <2>1. Of(o) # p
    BY <1>0, <1>2 DEF Create, Creatable, EnrolledAreStudents
  <2> QED
    BY <1>0, <1>2, <2>1 DEF Create, TypeOK
<1>3. ASSUME NEW o \in Callers, Commit(o) PROVE FALSE
  <2>1. p \notin PersonsOf(Enrolled(plan[o]))
    BY <1>3 DEF Commit, Fits, PersonsOf
  <2> QED
    BY <1>3, <2>1 DEF Commit
<1>4. ~Tick /\ ~Restart /\ ~UNCHANGED vars
  BY DEF Tick, Restart, vars, tables
<1> QED
  BY <1>1, <1>2, <1>3, <1>4, TablesUntouched DEF Next

\* Handlers never write over a row they have not read.
THEOREM RowsChangeAsRead == Spec => ChangesRowItRead
<1>1. Inv /\ [Next]_vars =>
        [\A p \in Persons : (enrol[p] # Null /\ enrol'[p] # enrol[p]) =>
          \E o \in Callers :
             /\ at[o] = "writing" /\ at'[o] # "writing" /\ Of(o) = p
             /\ \/ request[o].kind = "deleteUser"
                \/ seen[o] # Null /\ seen[o].id = enrol[p].id]_vars
  BY RowsRead
<1> QED
  BY <1>1, Invariance, PTL DEF Spec, ChangesRowItRead

\* A confirmation gets to its mails by committing.
LEMMA OnlyCommits ==
    ASSUME Inv, [Next]_vars, NEW o \in Callers, at[o] = "committing", at'[o] = "mailing"
    PROVE  Commit(o)
<1>1. ASSUME NEW d \in Callers, Step(d) PROVE Step(o)
  BY <1>1, OthersStay DEF Inv
<1>2. ASSUME NEW r \in Requests, Read(o, r) \/ PreviewFile(o, r) \/ Refuse(o, r)
                                   \/ Look(o, r)
      PROVE  FALSE
  BY <1>2 DEF Read, PreviewFile, Refuse, Look, Goes
<1>3. ~Fail(o)
  BY DEF Fail, Inv, TypeOK
<1>4. ~(Put(o) \/ Remove(o) \/ Delete(o) \/ Create(o) \/ CreateForm(o) \/ Claim(o)
          \/ TooLate(o) \/ Mail(o))
  BY DEF Put, Remove, Delete, Create, CreateForm, Claim, TooLate, Mail, Writes, Goes
<1>5. ~Tick /\ ~Restart /\ ~UNCHANGED vars
  BY DEF Tick, Restart, vars
<1> QED
  BY <1>1, <1>2, <1>3, <1>4, <1>5 DEF Next, Step

\* A commit enrols whom the plan lists, as listed, and touches nobody else.
LEMMA CommitsPlan ==
    ASSUME Inv, NEW o \in Callers, Commit(o)
    PROVE  /\ \A r \in Enrolled(plan[o]) :
                 /\ enrol[r.person] = Null /\ enrol'[r.person] # Null
                 /\ enrol'[r.person].class = r.class /\ enrol'[r.person].code = r.code
           /\ \A r \in plan[o].creates : account[r.person] = "absent"
           /\ \A p \in Persons \ PersonsOf(Enrolled(plan[o])) : enrol'[p] = enrol[p]
<1>1. plan[o] \in Plan /\ Fits(plan[o])
  BY DEF Commit, Goes, Inv, Handler
<1>2. ASSUME NEW r \in Enrolled(plan[o])
      PROVE  /\ enrol[r.person] = Null /\ enrol'[r.person] # Null
             /\ enrol'[r.person].class = r.class /\ enrol'[r.person].code = r.code
  <2>1. r.person \in Persons /\ r.person \in PersonsOf(Enrolled(plan[o]))
    BY <1>1, <1>2 DEF Enrolled, Plan, FileRow, PersonsOf
  <2>2. enrol'[r.person] = RowOf(o, r.person) /\ RowOf(o, r.person) \in Row
    BY <1>1, <2>1, RowTypes DEF Commit
  <2>3. PICK s \in Enrolled(plan[o]) : /\ s.person = r.person
                                       /\ s.class = RowOf(o, r.person).class
                                       /\ s.code = RowOf(o, r.person).code
    BY <1>1, <2>1, RowTypes
  <2>4. s = r
    BY <1>1, <1>2, <2>3 DEF Fits
  <2> QED
    BY <1>1, <2>2, <2>3, <2>4, NullAssumption DEF Fits
<1>3. \A r \in plan[o].creates : account[r.person] = "absent"
  BY <1>1 DEF Fits
<1>4. \A p \in Persons \ PersonsOf(Enrolled(plan[o])) : enrol'[p] = enrol[p]
  BY DEF Commit
<1> QED
  BY <1>2, <1>3, <1>4

\* A confirmation that succeeds has done all its preview showed.
THEOREM PlansHold == Spec => ConfirmedPlanHolds
<1>1. Inv /\ [Next]_vars =>
        [\A o \in Callers : (at[o] = "committing" /\ at'[o] = "mailing") =>
          /\ \A r \in Enrolled(plan[o]) :
                /\ enrol[r.person] = Null /\ enrol'[r.person] # Null
                /\ enrol'[r.person].class = r.class /\ enrol'[r.person].code = r.code
          /\ \A r \in plan[o].creates : account[r.person] = "absent"
          /\ \A p \in Persons \ PersonsOf(Enrolled(plan[o])) : enrol'[p] = enrol[p]
        ]_vars
  BY OnlyCommits, CommitsPlan
<1> QED
  BY <1>1, Invariance, PTL DEF Spec, ConfirmedPlanHolds

\* A file without a bad row has a plan that fits, overlooked accounts aside.
LEMMA GoodFilesFit ==
    ASSUME Inv, NEW rows \in Seq(FileRow),
           \A i \in DOMAIN rows : ~Bad(rows, i),
           \A r \in PlanFor(rows).creates : ~Overlooked(r.person)
    PROVE  Fits(PlanFor(rows))
<1> DEFINE q == PlanFor(rows)
<1>0. TypeOK /\ EnrolledAreStudents /\ DOMAIN rows = 1 .. Len(rows) /\ Len(rows) \in Nat
      /\ \A i \in DOMAIN rows : rows[i] \in FileRow
  BY DEF Inv
<1>1. \A r \in q.creates : \E i \in DOMAIN rows : r = rows[i] /\ Action(r) = "create"
  BY DEF PlanFor, RowsToDo
<1>2. \A r \in q.enrols : \E i \in DOMAIN rows : r = rows[i] /\ Action(r) = "enrol"
  BY DEF PlanFor, RowsToDo
<1>3. \A r \in Enrolled(q) : \E i \in DOMAIN rows :
          r = rows[i] /\ Action(rows[i]) \in {"create", "enrol"}
  BY <1>1, <1>2 DEF Enrolled
<1>4. ASSUME NEW r \in q.creates PROVE account[r.person] = "absent"
  <2>1. r \in FileRow /\ Action(r) = "create"
    BY <1>0, <1>1
  <2> QED
    BY <1>4, <2>1 DEF Action, Overlooked
<1>5. ASSUME NEW r \in Enrolled(q) PROVE enrol[r.person] = Null
  <2>1. r \in FileRow /\ (r \in q.creates \/ Action(r) = "enrol")
    BY <1>0, <1>2, <1>3 DEF Enrolled
  <2>2. CASE r \in q.creates
    BY <1>0, <1>4, <2>1, <2>2 DEF EnrolledAreStudents, FileRow
  <2>3. CASE Action(r) = "enrol"
    BY <2>3 DEF Action
  <2> QED
    BY <2>1, <2>2, <2>3
<1>6. ASSUME NEW r \in Enrolled(q), NEW p \in Persons, enrol[p] # Null
      PROVE  enrol[p].code # r.code
  <2>1. PICK i \in DOMAIN rows : r = rows[i]
    BY <1>3
  <2>2. p # r.person
    BY <1>5, <1>6
  <2> QED
    BY <1>6, <2>1, <2>2 DEF Bad
<1>7. ASSUME NEW r \in Enrolled(q), NEW s \in Enrolled(q),
             r.code = s.code \/ r.person = s.person
      PROVE  r = s
  <2>1. PICK i \in DOMAIN rows : r = rows[i] /\ Action(rows[i]) \in {"create", "enrol"}
    BY <1>3
  <2>2. PICK j \in DOMAIN rows : s = rows[j] /\ Action(rows[j]) \in {"create", "enrol"}
    BY <1>3
  <2>3. ~(i < j)
    <3>1. i < j => i \in 1 .. j - 1
      BY <1>0
    <3> QED
      BY <1>7, <2>1, <2>2, <3>1 DEF Bad
  <2>4. ~(j < i)
    <3>1. j < i => j \in 1 .. i - 1
      BY <1>0
    <3> QED
      BY <1>7, <2>1, <2>2, <3>1 DEF Bad
  <2>5. i = j
    BY <1>0, <2>3, <2>4
  <2> QED
    BY <2>1, <2>2, <2>5
<1> QED
  BY <1>4, <1>5, <1>6, <1>7 DEF Fits

\* What a preview shows can be done, as long as nothing changes, unless it
\* promises an account to an e-mail address that a deleted student or a user of
\* another role has: that and nothing else is what its checks leave out.
THEOREM OnlyOverlookedMisfit == Spec => FreshPlanFitsUnlessOverlooked
<1>1. ASSUME Inv, [Next]_vars, NEW o \in Callers, at[o] = "idle", at'[o] = "previewed"
      PROVE  Fits(previews'[o].plan) <=>
                 \A r \in previews'[o].plan.creates : ~Overlooked(r.person)
  <2>1. \E r \in Requests : PreviewFile(o, r)
    <3>1. ASSUME NEW d \in Callers, Step(d) PROVE Step(o)
      BY <1>1, <3>1, OthersStay DEF Inv
    <3>2. ASSUME NEW r \in Requests, Read(o, r) \/ Refuse(o, r) \/ Look(o, r)
          PROVE  FALSE
      BY <1>1, <3>2 DEF Read, Refuse, Look, Goes, Inv, TypeOK
    <3>3. ~(Put(o) \/ Remove(o) \/ Delete(o) \/ Create(o) \/ CreateForm(o) \/ Claim(o)
              \/ TooLate(o) \/ Commit(o) \/ Fail(o) \/ Mail(o))
      BY <1>1 DEF Put, Remove, Delete, Create, CreateForm, Claim, TooLate, Commit, Fail,
                  Mail, Writes, Goes
    <3>4. ~Tick /\ ~Restart /\ ~UNCHANGED vars
      BY <1>1 DEF Tick, Restart, vars
    <3> QED
      BY <1>1, <3>1, <3>2, <3>3, <3>4 DEF Next, Step
  <2>2. PICK r \in Requests : PreviewFile(o, r)
    BY <2>1
  <2>3. previews'[o].plan = PlanFor(r.rows)
    BY <2>2, KeptPreviews, <1>1 DEF PreviewFile, Inv
  <2>4. \A i \in DOMAIN r.rows : ~Bad(r.rows, i)
    BY <2>2 DEF PreviewFile
  <2>5. Fits(previews'[o].plan) =>
            \A s \in previews'[o].plan.creates : ~Overlooked(s.person)
    BY DEF Fits, Overlooked
  <2> QED
    BY <1>1, <2>3, <2>4, <2>5, GoodFilesFit, RequestTypes
<1>2. Inv /\ [Next]_vars =>
        [\A o \in Callers : (at[o] = "idle" /\ at'[o] = "previewed") =>
          (Fits(previews'[o].plan) <=>
              \A r \in previews'[o].plan.creates : ~Overlooked(r.person))]_vars
  BY <1>1
<1> QED
  BY <1>2, Invariance, PTL DEF Spec, FreshPlanFitsUnlessOverlooked

-----------------------------------------------------------------------------
(* When an update keeps the field that is not given.                        *)

\* Nobody changes the row of a student between the two halves of an update.
NoChangeMeanwhile ==
    [][\A o \in Callers :
          (at[o] = "writing" /\ request[o].kind = "update" /\ at'[o] = "writing") =>
          enrol'[Of(o)] = enrol[Of(o)]]_vars

\* An update holds the row as it is.
UpToDate == \A o \in Callers :
               (at[o] = "writing" /\ request[o].kind = "update") => seen[o] = Found(request[o])

\* A handler that is about to write has been so before, or has just read.
LEMMA ComesToWrite ==
    ASSUME Inv, [Next]_vars, NEW o \in Callers, at'[o] = "writing"
    PROVE  \/ /\ at[o] = "writing"
              /\ request'[o] = request[o] /\ seen'[o] = seen[o]
           \/ /\ enrol' = enrol
              /\ \E r \in Requests : request'[o] = r /\ seen'[o] = Found(r)
<1>0. TypeOK
  BY DEF Inv
<1>1. ASSUME NEW d \in Callers, Step(d), d # o
      PROVE  at[o] = "writing" /\ request'[o] = request[o] /\ seen'[o] = seen[o]
  BY <1>0, <1>1, OthersStay
<1>2. ASSUME NEW r \in Requests, Read(o, r)
      PROVE  enrol' = enrol /\ request'[o] = r /\ seen'[o] = Found(r)
  BY <1>0, <1>2 DEF Read, TypeOK, tables
<1>3. ASSUME NEW r \in Requests, PreviewFile(o, r) \/ Refuse(o, r) \/ Look(o, r)
      PROVE  FALSE
  BY <1>0, <1>3 DEF PreviewFile, Refuse, Look, Goes, TypeOK
<1>4. ~(Put(o) \/ Remove(o) \/ Delete(o) \/ Create(o) \/ CreateForm(o))
  BY <1>0 DEF Put, Remove, Delete, Create, CreateForm, Writes, Goes, TypeOK
<1>5. ~(Claim(o) \/ TooLate(o) \/ Commit(o) \/ Fail(o) \/ Mail(o))
  BY <1>0 DEF Claim, TooLate, Commit, Fail, Mail, Goes, TypeOK
<1>6. CASE Tick \/ Restart \/ UNCHANGED vars
  BY <1>0, <1>6 DEF Tick, Restart, vars, locals, TypeOK
<1> QED
  BY <1>1, <1>2, <1>3, <1>4, <1>5, <1>6 DEF Next, Step

\* The comment on update() is true of every update whose student nobody else
\* moves while it runs: the stale read is the only thing wrong with it.
THEOREM FieldKeptUnlessCrossed == Spec /\ NoChangeMeanwhile => OtherFieldKept
<1> DEFINE Quiet == \A o \in Callers :
                (at[o] = "writing" /\ request[o].kind = "update" /\ at'[o] = "writing") =>
                enrol'[Of(o)] = enrol[Of(o)]
           Keeps == \A o \in Callers :
                (at[o] = "writing" /\ at'[o] = "done" /\ request[o].kind = "update"
                    /\ enrol[Of(o)] # Null) =>
                /\ request[o].class = Null => enrol'[Of(o)].class = enrol[Of(o)].class
                /\ request[o].code = Null => enrol'[Of(o)].code = enrol[Of(o)].code
<1>1. Init => UpToDate
  BY DEF Init, UpToDate
<1>2. Inv /\ UpToDate /\ [Next]_vars /\ [Quiet]_vars => UpToDate'
  <2> SUFFICES ASSUME Inv, UpToDate, [Next]_vars, [Quiet]_vars, NEW o \in Callers,
                      at'[o] = "writing", request'[o].kind = "update"
               PROVE  seen'[o] = Found(request[o])'
    BY DEF UpToDate
  <2>1. CASE at[o] = "writing" /\ request'[o] = request[o] /\ seen'[o] = seen[o]
    <3>1. seen[o] = Found(request[o]) /\ request[o] \in Requests
      BY <2>1 DEF UpToDate, Inv, Handler
    <3>2. enrol'[Of(o)] = enrol[Of(o)]
      <4>1. CASE UNCHANGED vars
        BY <4>1 DEF vars, tables
      <4>2. CASE Quiet
        BY <2>1, <4>2
      <4> HIDE DEF Quiet
      <4> QED BY <4>1, <4>2
    <3>3. request[o].person = Of(o)
      BY DEF Of
    <3>4. Found(request[o])' = Found(request[o])
      BY <2>1, <3>2, <3>3 DEF Found
    <3> QED BY <2>1, <3>1, <3>4
  <2>2. ASSUME enrol' = enrol, NEW r \in Requests, request'[o] = r, seen'[o] = Found(r)
        PROVE  seen'[o] = Found(request[o])'
    BY <2>2 DEF Found
  <2> QED BY <2>1, <2>2, ComesToWrite
<1>3. Inv /\ UpToDate /\ [Next]_vars => [Keeps]_vars
  <2> SUFFICES ASSUME Inv, UpToDate, [Next]_vars, NEW o \in Callers,
                      at[o] = "writing", at'[o] = "done", request[o].kind = "update",
                      enrol[Of(o)] # Null
               PROVE  /\ request[o].class = Null => enrol'[Of(o)].class = enrol[Of(o)].class
                      /\ request[o].code = Null => enrol'[Of(o)].code = enrol[Of(o)].code
    OBVIOUS
  <2>0. TypeOK /\ Of(o) \in Persons
    BY RequestTypes DEF Inv, Handler, Of
  <2>1. Put(o)
    <3>1. ASSUME NEW d \in Callers, Step(d) PROVE Step(o)
      BY <2>0, <3>1, OthersStay
    <3>2. ~(\E r \in Requests : Read(o, r) \/ PreviewFile(o, r) \/ Refuse(o, r) \/ Look(o, r))
      BY DEF Read, PreviewFile, Refuse, Look, Goes
    <3>3. ~(Remove(o) \/ Delete(o) \/ Create(o) \/ CreateForm(o))
      BY DEF Remove, Delete, Create, CreateForm, Writes
    <3>4. ~(Claim(o) \/ TooLate(o) \/ Commit(o) \/ Fail(o) \/ Mail(o))
      BY <2>0 DEF Claim, TooLate, Commit, Fail, Mail, Goes, TypeOK
    <3>5. ~Tick /\ ~UNCHANGED vars
      BY DEF Tick, vars
    <3>6. ~Restart
      BY <2>0 DEF Restart, TypeOK
    <3> QED BY <3>1, <3>2, <3>3, <3>4, <3>5, <3>6 DEF Next, Step
  <2>2. seen[o] # Null /\ seen[o] = enrol[Of(o)]
    <3>1. seen[o] # Null
      BY <2>1 DEF Put, SameRow
    <3> QED BY <3>1 DEF UpToDate, Found, Of
  <2>3. enrol'[Of(o)].class = NextClass(o) /\ enrol'[Of(o)].code = NextCode(o)
    BY <2>0, <2>1 DEF Put, TypeOK
  <2> QED BY <2>2, <2>3 DEF NextClass, NextCode
<1> HIDE DEF Quiet, Keeps
<1>4. NoChangeMeanwhile => [][Quiet]_vars
  BY DEF NoChangeMeanwhile, Quiet
<1>5. [][Keeps]_vars => OtherFieldKept
  BY DEF OtherFieldKept, Keeps
<1> QED
  BY <1>1, <1>2, <1>3, <1>4, <1>5, Invariance, PTL DEF Spec

=============================================================================
