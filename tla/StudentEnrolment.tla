-------------------------- MODULE StudentEnrolment --------------------------
(***************************************************************************)
(* Students, their accounts and their one class: AdminStudentsService,      *)
(* AdminClassesService with the preview and confirmation of an imported     *)
(* file, ImportPreviewStore, AdminUsersService.create and remove, and the   *)
(* creation of an evaluation form, over the tables users, class_students    *)
(* and evaluation_forms.                                                    *)
(*                                                                          *)
(* A handler reads, then writes in one statement or transaction; what it    *)
(* read may be stale by then.  The reads of a handler are one step: whoever *)
(* changes their answers in between could as well change them after the     *)
(* last one.  A person is an e-mail address and its account, of a student   *)
(* or of another role, which no service changes into the other; a row's id  *)
(* is the caller that inserted it.  Unique columns are guards of writes.    *)
(* Who may call what, the reading of the file and the generated names and   *)
(* passwords are left out; that a name is taken is one of the ways to Fail. *)
(***************************************************************************)
EXTENDS Integers, Sequences, FiniteSets

CONSTANTS
    Callers, Persons, Classes, Codes, Users,
    Requests,           \* what may be asked for
    Account0, Staff0, Enrol0,   \* the tables at the start
    Capacity,           \* previews kept at most: 100
    Lifetime,           \* of a preview: ten minutes
    MaxTime,            \* bound of the clock
    Initial, Null

FileRow == [person : Persons, class : Classes, code : Codes, phone : BOOLEAN]
Kinds == {"add", "remove", "update", "delete", "deleteUser", "create",
          "createUser", "form", "import", "confirm"}

\* A request; class and code are Null where they are not given.
Request == [kind : Kinds, person : Persons, class : Classes \cup {Null},
            code : Codes \cup {Null}, user : Users, rows : Seq(FileRow)]

\* class_students: a student has at most one row.
Row == [id : Callers \cup {Initial}, class : Classes, code : Codes, deleted : BOOLEAN]

\* What a preview decides and a confirmation carries out.
Plan == [creates : SUBSET FileRow, enrols : SUBSET FileRow, phones : SUBSET Persons]
Preview == [plan : Plan, user : Users, expiresAt : Int]

ASSUME RequestAssumption ==
    /\ Requests \subseteq Request
    /\ \A r \in Requests : /\ r.kind = "add" => r.class # Null /\ r.code # Null
                           /\ r.kind = "create" => (r.class = Null <=> r.code = Null)
                           /\ r.kind = "createUser" => r.class = Null /\ r.code = Null
                           /\ r.kind = "update" => r.class # Null \/ r.code # Null
ASSUME StartAssumption ==
    /\ Account0 \in [Persons -> {"absent", "live"}]
    /\ Enrol0 \in [Persons -> [id : {Initial}, class : Classes, code : Codes,
                               deleted : {FALSE}] \cup {Null}]
    /\ Staff0 \subseteq {p \in Persons : Account0[p] = "live"}
    /\ \A p \in Persons : Enrol0[p] # Null => Account0[p] = "live" /\ p \notin Staff0
    /\ \A p, q \in Persons : (Enrol0[p] # Null /\ Enrol0[q] # Null
                              /\ Enrol0[p].code = Enrol0[q].code) => p = q
ASSUME BoundAssumption ==
    /\ IsFiniteSet(Callers)
    /\ Capacity \in Nat /\ Lifetime \in Nat /\ MaxTime \in Nat
ASSUME NullAssumption ==
    /\ Null \notin Classes \cup Codes \cup Callers \cup Requests
    /\ Null \notin Row /\ Null \notin Plan /\ Null \notin Preview
    /\ Initial \notin Callers

VARIABLES
    account, password,  \* users: "deleted" has deletedAt; whose password it is
    staff,              \* those whose account has another role than student
    phones,             \* persons whose number is the one of the file
    enrol,              \* class_students
    forms,              \* the class on a person's evaluation form
    previews,           \* the store, by the caller whose import made it
    mails, clock,
    at,                 \* how far a caller's handler has come
    request, seen,      \* what it is asked for, the row it has read
    token, plan         \* a confirmation's import and the plan it claimed

tables == <<account, staff, password, phones, enrol, forms>>
locals == <<request, seen, token, plan>>
vars == <<tables, previews, mails, clock, at, locals>>

Init ==
    /\ account = Account0 /\ staff = Staff0 /\ enrol = Enrol0
    /\ password = [p \in Persons |-> Initial]
    /\ phones = {} /\ mails = {} /\ clock = 0
    /\ forms = [p \in Persons |-> Null]
    /\ previews = [o \in Callers |-> Null]
    /\ at = [o \in Callers |-> "idle"]
    /\ request = [o \in Callers |-> Null]
    /\ seen = [o \in Callers |-> Null]
    /\ token = [o \in Callers |-> Null]
    /\ plan = [o \in Callers |-> Null]

Goes(o, from, to) == at[o] = from /\ at' = [at EXCEPT ![o] = to]

-----------------------------------------------------------------------------
(* What the handlers check before they write.                               *)

CodeFree(code, person) ==
    \A q \in Persons : (enrol[q] # Null /\ enrol[q].code = code) => q = person

\* The row a handler finds; update() overlooks deleted rows.
Found(r) == IF /\ r.kind = "update" /\ enrol[r.person] # Null
               /\ enrol[r.person].deleted
            THEN Null ELSE enrol[r.person]

\* A student's account, deleted or not, and one that is not deleted.
Student(p) == account[p] # "absent" /\ p \notin staff
LiveStudent(p) == account[p] = "live" /\ p \notin staff

AddAccepts(r) == Student(r.person) /\ CodeFree(r.code, r.person)
RemoveAccepts(r) == /\ enrol[r.person] # Null /\ enrol[r.person].class = r.class
                    /\ forms[r.person] # r.class
UpdateAccepts(r) == /\ LiveStudent(r.person)
                    /\ Found(r) = Null => r.class # Null /\ r.code # Null
                    /\ r.code # Null => CodeFree(r.code, r.person)
DeleteAccepts(r) == LiveStudent(r.person)
DeleteUserAccepts(r) == account[r.person] = "live"
CreateAccepts(r) == /\ account[r.person] = "absent"
                    /\ r.code # Null => CodeFree(r.code, r.person)
FormAccepts(r) == /\ LiveStudent(r.person)
                  /\ enrol[r.person] # Null /\ forms[r.person] = Null

Accepts(r) ==
    \/ r.kind = "add" /\ AddAccepts(r)
    \/ r.kind = "remove" /\ RemoveAccepts(r)
    \/ r.kind = "update" /\ UpdateAccepts(r)
    \/ r.kind = "delete" /\ DeleteAccepts(r)
    \/ r.kind = "deleteUser" /\ DeleteUserAccepts(r)
    \/ r.kind \in {"create", "createUser"} /\ CreateAccepts(r)
    \/ r.kind = "form" /\ FormAccepts(r)

Read(o, r) ==
    /\ Accepts(r)
    /\ Goes(o, "idle", "writing")
    /\ request' = [request EXCEPT ![o] = r]
    /\ seen' = [seen EXCEPT ![o] = Found(r)]
    /\ UNCHANGED <<tables, previews, mails, clock, token, plan>>

-----------------------------------------------------------------------------
(* The writes.                                                              *)

Writes(o, kinds, to) == Goes(o, "writing", to) /\ request[o].kind \in kinds
Of(o) == request[o].person

\* What an update or a delete by id asks for, and an insert by student.
SameRow(o) ==
    IF seen[o] = Null THEN enrol[Of(o)] = Null
    ELSE enrol[Of(o)] # Null /\ enrol[Of(o)].id = seen[o].id

\* A field that is not given is written as it was read.
NextClass(o) == IF request[o].class # Null THEN request[o].class ELSE seen[o].class

NextCode(o) == IF request[o].code # Null THEN request[o].code ELSE seen[o].code

\* addStudent() and the enrolment of update(): update the row or insert one.
Put(o) ==
    /\ Writes(o, {"add", "update"}, "done")
    /\ SameRow(o)
    /\ CodeFree(NextCode(o), Of(o))
    /\ enrol' = [enrol EXCEPT ![Of(o)] =
           [id |-> IF seen[o] = Null THEN o ELSE seen[o].id,
            class |-> NextClass(o), code |-> NextCode(o),
            deleted |-> seen[o] # Null /\ enrol[Of(o)].deleted]]
    /\ UNCHANGED <<account, staff, password, phones, forms, previews, mails, clock, locals>>

\* Mutant: the row is deleted by class and student.
RemoveByStudent(o) ==
    /\ Writes(o, {"remove"}, "done")
    /\ enrol[Of(o)] # Null /\ enrol[Of(o)].class = request[o].class
    /\ enrol' = [enrol EXCEPT ![Of(o)] = Null]
    /\ UNCHANGED <<account, staff, password, phones, forms, previews, mails, clock, locals>>

\* removeStudent().
Remove(o) ==
    /\ Writes(o, {"remove"}, "done")
    /\ SameRow(o)
    /\ enrol' = [enrol EXCEPT ![Of(o)] = Null]
    /\ UNCHANGED <<account, staff, password, phones, forms, previews, mails, clock, locals>>

\* Whether a deletion takes an enrolment along: remove() of a student the row
\* that was read, remove() of a user whatever row there is.
TakesRow(o) == IF request[o].kind = "delete" THEN seen[o] # Null /\ ~seen[o].deleted
               ELSE enrol[Of(o)] # Null

Delete(o) ==
    /\ Writes(o, {"delete", "deleteUser"}, "done")
    /\ (request[o].kind = "delete" /\ TakesRow(o)) => SameRow(o)
    /\ account' = [account EXCEPT ![Of(o)] = "deleted"]
    /\ enrol' = IF TakesRow(o) THEN [enrol EXCEPT ![Of(o)].deleted = TRUE] ELSE enrol
    /\ UNCHANGED <<staff, password, phones, forms, previews, mails, clock, locals>>

\* Mutant: a deleted account is created again over the old one.
CreatableAgain(p) == account[p] # "live"

\* users.email and users.username are unique, deleted accounts included.
Creatable(p) == account[p] = "absent"

\* create() of a student, with or without a class, and of a user of another
\* role; the mail comes after.
Create(o) ==
    /\ Writes(o, {"create", "createUser"}, "mailing")
    /\ Creatable(Of(o))
    /\ account' = [account EXCEPT ![Of(o)] = "live"]
    /\ password' = [password EXCEPT ![Of(o)] = o]
    /\ staff' = IF request[o].kind = "createUser" THEN staff \cup {Of(o)} ELSE staff
    /\ request[o].code # Null => CodeFree(request[o].code, Of(o))
    /\ enrol' = IF request[o].class = Null THEN enrol
                ELSE [enrol EXCEPT ![Of(o)] =
                         [id |-> o, class |-> request[o].class,
                          code |-> request[o].code, deleted |-> FALSE]]
    /\ UNCHANGED <<phones, forms, previews, mails, clock, locals>>

\* The form is for the class that was read.
CreateForm(o) ==
    /\ Writes(o, {"form"}, "done")
    /\ forms[Of(o)] = Null
    /\ forms' = [forms EXCEPT ![Of(o)] = seen[o].class]
    /\ UNCHANGED <<account, staff, password, phones, enrol, previews, mails, clock, locals>>

-----------------------------------------------------------------------------
(* Imports: the preview.                                                    *)

\* What a row of the file asks for.  preloadImportStudents looks for students
\* that are not deleted: everybody else's address counts as a new one.
Action(row) ==
    IF ~LiveStudent(row.person) THEN "create"
    ELSE IF enrol[row.person] = Null THEN "enrol" ELSE "skip"

\* Mutant: codes are compared with those of the file only.
BadIgnoringTable(rows, i) ==
    \/ \E j \in 1 .. i - 1 : /\ Action(rows[j]) # "skip"
                             /\ \/ rows[j].code = rows[i].code
                                \/ rows[j].person = rows[i].person
    \/ /\ Action(rows[i]) = "skip"
       /\ enrol[rows[i].person].class # rows[i].class

\* Why row i refuses the file: the person or the code was claimed by a row
\* before it, the student has another class, somebody has the code.
Bad(rows, i) ==
    \/ \E j \in 1 .. i - 1 : /\ Action(rows[j]) # "skip"
                             /\ \/ rows[j].code = rows[i].code
                                \/ rows[j].person = rows[i].person
    \/ /\ Action(rows[i]) = "skip"
       /\ enrol[rows[i].person].class # rows[i].class
    \/ \E q \in Persons :
          /\ enrol[q] # Null /\ enrol[q].code = rows[i].code
          /\ q # rows[i].person \/ Action(rows[i]) = "create"

RowsToDo(rows, what) == {rows[i] : i \in {j \in DOMAIN rows : Action(rows[j]) = what}}

PlanFor(rows) ==
    [creates |-> RowsToDo(rows, "create"), enrols |-> RowsToDo(rows, "enrol"),
     phones |-> {r.person : r \in {s \in RowsToDo(rows, "enrol") \cup RowsToDo(rows, "skip") :
                                      s.phone /\ s.person \notin phones}}]

\* prune().
Kept == [i \in Callers |-> IF previews[i] = Null THEN Null
                           ELSE IF previews[i].expiresAt <= clock THEN Null
                           ELSE previews[i]]
Held(store) == {i \in Callers : store[i] # Null}

Room == Cardinality(Held(Kept)) < Capacity

PreviewFile(o, r) ==
    /\ r.kind = "import"
    /\ \A i \in DOMAIN r.rows : ~Bad(r.rows, i)
    /\ Room
    /\ Goes(o, "idle", "previewed")
    /\ previews' = [Kept EXCEPT ![o] = [plan |-> PlanFor(r.rows), user |-> r.user,
                                        expiresAt |-> clock + Lifetime]]
    /\ UNCHANGED <<tables, mails, clock, locals>>

\* A request that is refused before anything is written: a check fails, the
\* file or the store is refused, the token is unknown or somebody else's.
Refuse(o, r) ==
    /\ Goes(o, "idle", "refused")
    /\ \/ /\ r.kind \notin {"import", "confirm"}
          /\ ~Accepts(r) /\ previews' = previews
       \/ /\ r.kind = "import"
          /\ \E i \in DOMAIN r.rows : Bad(r.rows, i)
          /\ previews' = previews
       \/ /\ r.kind = "import"
          /\ \A i \in DOMAIN r.rows : ~Bad(r.rows, i)
          /\ ~Room /\ previews' = Kept
       \/ r.kind = "confirm" /\ previews' = Kept
    /\ UNCHANGED <<tables, mails, clock, locals>>

-----------------------------------------------------------------------------
(* Imports: the confirmation.                                               *)

\* The preview is looked at and its user compared.
Look(o, r) ==
    /\ r.kind = "confirm"
    /\ \E i \in Callers : /\ Kept[i] # Null /\ Kept[i].user = r.user
                          /\ token' = [token EXCEPT ![o] = i]
    /\ Goes(o, "idle", "looked")
    /\ request' = [request EXCEPT ![o] = r]
    /\ previews' = Kept
    /\ UNCHANGED <<tables, mails, clock, seen, plan>>

\* Mutant: the preview is read again and stays.
ClaimAndLeave(o) ==
    /\ Goes(o, "looked", "committing")
    /\ Kept[token[o]] # Null
    /\ plan' = [plan EXCEPT ![o] = Kept[token[o]].plan]
    /\ previews' = Kept
    /\ UNCHANGED <<tables, mails, clock, request, seen, token>>

\* get(key, true): read and removed before anything is awaited.
Claim(o) ==
    /\ Goes(o, "looked", "committing")
    /\ Kept[token[o]] # Null
    /\ plan' = [plan EXCEPT ![o] = Kept[token[o]].plan]
    /\ previews' = [Kept EXCEPT ![token[o]] = Null]
    /\ UNCHANGED <<tables, mails, clock, request, seen, token>>

\* Another confirmation was faster, or the preview has expired.
TooLate(o) ==
    /\ Goes(o, "looked", "refused")
    /\ Kept[token[o]] = Null
    /\ previews' = Kept
    /\ UNCHANGED <<tables, mails, clock, locals>>

Enrolled(p) == p.creates \cup p.enrols

\* No unique column refuses the plan.
Fits(p) ==
    /\ \A r \in p.creates : account[r.person] = "absent"
    /\ \A r \in Enrolled(p) :
          /\ enrol[r.person] = Null
          /\ \A q \in Persons : enrol[q] # Null => enrol[q].code # r.code
    /\ \A r, s \in Enrolled(p) : (r.code = s.code \/ r.person = s.person) => r = s

RowOf(o, p) == LET r == CHOOSE r \in Enrolled(plan[o]) : r.person = p
               IN [id |-> o, class |-> r.class, code |-> r.code, deleted |-> FALSE]
PersonsOf(rows) == {r.person : r \in rows}

\* Mutant: createMany with skipDuplicates.
CommitSkippingDuplicates(o) ==
    /\ Goes(o, "committing", "mailing")
    /\ \A r \in plan[o].creates : account[r.person] = "absent"
    /\ account' = [p \in Persons |-> IF p \in PersonsOf(plan[o].creates)
                                     THEN "live" ELSE account[p]]
    /\ password' = [p \in Persons |-> IF p \in PersonsOf(plan[o].creates)
                                      THEN o ELSE password[p]]
    /\ phones' = phones \cup plan[o].phones
    /\ enrol' = [p \in Persons |->
                    IF p \in PersonsOf(Enrolled(plan[o])) /\ enrol[p] = Null
                        /\ CodeFree(RowOf(o, p).code, p)
                    THEN RowOf(o, p) ELSE enrol[p]]
    /\ UNCHANGED <<staff, forms, previews, mails, clock, locals>>

\* The transaction: accounts, telephone numbers and enrolments.
Commit(o) ==
    /\ Goes(o, "committing", "mailing")
    /\ Fits(plan[o])
    /\ account' = [p \in Persons |-> IF p \in PersonsOf(plan[o].creates)
                                     THEN "live" ELSE account[p]]
    /\ password' = [p \in Persons |-> IF p \in PersonsOf(plan[o].creates)
                                      THEN o ELSE password[p]]
    /\ phones' = phones \cup plan[o].phones
    /\ enrol' = [p \in Persons |-> IF p \in PersonsOf(Enrolled(plan[o]))
                                   THEN RowOf(o, p) ELSE enrol[p]]
    /\ UNCHANGED <<staff, forms, previews, mails, clock, locals>>

\* Mutant: the mails are sent all the same.
FailAndMail(o) ==
    /\ at[o] \in {"writing", "committing"}
    /\ at' = [at EXCEPT ![o] = IF at[o] = "writing" THEN "refused" ELSE "mailing"]
    /\ UNCHANGED <<tables, previews, mails, clock, locals>>

\* A constraint, a row that is gone or the database fails the write, and all of
\* it is rolled back.
Fail(o) ==
    /\ at[o] \in {"writing", "committing"}
    /\ at' = [at EXCEPT ![o] = "refused"]
    /\ UNCHANGED <<tables, previews, mails, clock, locals>>

Created(o) == IF request[o].kind \in {"create", "createUser"} THEN {Of(o)}
              ELSE PersonsOf(plan[o].creates)

\* Every new account gets its mail, or the caller is told that it did not.
Mail(o) ==
    /\ Goes(o, "mailing", "done")
    /\ \E sent \in SUBSET Created(o) :
          mails' = mails \cup {[to |-> p, by |-> o] : p \in sent}
    /\ UNCHANGED <<tables, previews, clock, locals>>

-----------------------------------------------------------------------------
Tick == clock < MaxTime /\ clock' = clock + 1
        /\ UNCHANGED <<tables, previews, mails, at, locals>>

\* The process restarts: handlers and previews are gone, the tables are not.
Restart ==
    /\ at' = [o \in Callers |-> IF at[o] \in {"writing", "looked", "committing", "mailing"}
                                THEN "refused" ELSE at[o]]
    /\ previews' = [o \in Callers |-> Null]
    /\ UNCHANGED <<tables, mails, clock, locals>>

Step(o) ==
    \/ \E r \in Requests : Read(o, r) \/ PreviewFile(o, r) \/ Refuse(o, r) \/ Look(o, r)
    \/ Put(o) \/ Remove(o) \/ Delete(o) \/ Create(o) \/ CreateForm(o)
    \/ Claim(o) \/ TooLate(o) \/ Commit(o) \/ Fail(o) \/ Mail(o)

Next == (\E o \in Callers : Step(o)) \/ Tick \/ Restart

Spec == Init /\ [][Next]_vars

-----------------------------------------------------------------------------
TypeOK ==
    /\ account \in [Persons -> {"absent", "live", "deleted"}]
    /\ password \in [Persons -> Callers \cup {Initial}]
    /\ staff \subseteq Persons
    /\ phones \subseteq Persons
    /\ enrol \in [Persons -> Row \cup {Null}]
    /\ forms \in [Persons -> Classes \cup {Null}]
    /\ previews \in [Callers -> Preview \cup {Null}]
    /\ mails \subseteq [to : Persons, by : Callers]
    /\ clock \in 0 .. MaxTime
    /\ at \in [Callers -> {"idle", "writing", "previewed", "looked", "committing",
                           "mailing", "done", "refused"}]
    /\ request \in [Callers -> Requests \cup {Null}]
    /\ seen \in [Callers -> Row \cup {Null}]
    /\ token \in [Callers -> Callers \cup {Null}]
    /\ plan \in [Callers -> Plan \cup {Null}]

\* However many confirmations of one import run at once, one gets its plan, and
\* from then on, whatever becomes of it, nobody finds the preview again.
ClaimedOnce ==
    \A c \in Callers : plan[c] # Null =>
        /\ previews[token[c]] = Null
        /\ \A d \in Callers : (plan[d] # Null /\ token[d] = token[c]) => d = c

\* The store never outgrows its capacity.
StoreBounded == Cardinality(Held(previews)) <= Capacity

\* A mail goes to an account that exists, with the password it really has: not
\* to one whose transaction was rolled back or that somebody else created.
MailsTellThePassword ==
    \A m \in mails : account[m.to] # "absent" /\ password[m.to] = m.by

\* A student who is not deleted never has a deleted enrolment, which no handler
\* could bring back: deleting and creating keep the two tables together.
LiveEnrolment ==
    \A p \in Persons : (account[p] = "live" /\ enrol[p] # Null) => ~enrol[p].deleted

\* A handler never overwrites or removes an enrolment it has not read, as one
\* made after the one it read was removed: rows are written by their id, and an
\* import only inserts.  Deleting a user takes whatever enrolment there is.
ChangesRowItRead ==
    [][\A p \in Persons : (enrol[p] # Null /\ enrol'[p] # enrol[p]) =>
          \E o \in Callers :
             /\ at[o] = "writing" /\ at'[o] # "writing" /\ Of(o) = p
             /\ \/ request[o].kind = "deleteUser"
                \/ seen[o] # Null /\ seen[o].id = enrol[p].id]_vars

\* A confirmation that succeeds has done what its preview showed, however stale:
\* every listed student has been enrolled as listed and had no class before,
\* every account it says it created is new, and nobody else's row has changed.
ConfirmedPlanHolds ==
    [][\A o \in Callers : (at[o] = "committing" /\ at'[o] = "mailing") =>
          /\ \A r \in Enrolled(plan[o]) :
                /\ enrol[r.person] = Null /\ enrol'[r.person] # Null
                /\ enrol'[r.person].class = r.class /\ enrol'[r.person].code = r.code
          /\ \A r \in plan[o].creates : account[r.person] = "absent"
          /\ \A p \in Persons \ PersonsOf(Enrolled(plan[o])) : enrol'[p] = enrol[p]
      ]_vars

\* Whom the preview does not look for, although the e-mail address is taken.
Overlooked(p) == account[p] # "absent" /\ ~LiveStudent(p)

\* "Preview already validates uniqueness": of the codes and of the persons, in
\* the file and in the tables, but for those it overlooks.  A plan that nothing
\* has made stale can be committed, if and only if it promises a new account to
\* no address of a deleted student or of a user of another role.
FreshPlanFitsUnlessOverlooked ==
    [][\A o \in Callers : (at[o] = "idle" /\ at'[o] = "previewed") =>
          (Fits(previews'[o].plan) <=>
              \A r \in previews'[o].plan.creates : ~Overlooked(r.person))]_vars

\* The comment on update(): one field may be edited alone, the other is kept.
OtherFieldKept ==
    [][\A o \in Callers :
          (at[o] = "writing" /\ at'[o] = "done" /\ request[o].kind = "update"
              /\ enrol[Of(o)] # Null) =>
          /\ request[o].class = Null => enrol'[Of(o)].class = enrol[Of(o)].class
          /\ request[o].code = Null => enrol'[Of(o)].code = enrol[Of(o)].code]_vars

=============================================================================
