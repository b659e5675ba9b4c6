------------------------- MODULE EvaluationWorkflow -------------------------
(***************************************************************************)
(* Conduct-evaluation forms under concurrent requests.                      *)
(*                                                                          *)
(* Each API call is two steps, as in the services: it reads the forms it    *)
(* works on and validates that snapshot (Read...), and later, after awaits  *)
(* in which any other call may run, one transaction writes every form by    *)
(* compare-and-swap on its version column, or the call fails and rolls back.*)
(* What is written is computed from the snapshot, or, for columns the SQL   *)
(* statement leaves alone and child rows, is what the row then holds.       *)
(* Semester administration runs whole transactions under one advisory lock  *)
(* and locks or unlocks the forms of a semester without a compare-and-swap. *)
(*                                                                          *)
(* Left out: who the user is (any handler may act in any role; a refused    *)
(* role, deadline, stale expectedVersion or lost connection is Fail), free  *)
(* text, timestamps, and idempotency receipts.                              *)
(***************************************************************************)
EXTENDS EvaluationDomain, FiniteSets

CONSTANTS
    Forms,            \* a form is a (student, semester) pair
    Classes, Semesters,
    ClassOf, SemesterOf,
    Handlers,         \* requests in flight in the API process
    Sections, SectionPoints,      \* sections I..V and the points each may get
    Criteria, CriterionPoints,    \* reviewers' criteria and the points asked for
    MaxScore,         \* the most points of each criterion (its max_score)
    DirectScores,     \* classScore / finalScore given whole in a request
    Evidence,         \* evidence rows
    MaxVersion        \* bound: no write to a row of this version or more

ASSUME ClassAssumption    == ClassOf \in [Forms -> Classes]
ASSUME SemesterAssumption == SemesterOf \in [Forms -> Semesters]
ASSUME FormAssumption     == IsFiniteSet(Sections) /\ IsFiniteSet(Criteria)
\* The DTOs take no negative points and no total above 100.
ASSUME PointsAssumption   == /\ 0 \in SectionPoints /\ SectionPoints \subseteq Nat
                             /\ CriterionPoints \subseteq Nat
                             /\ DirectScores \subseteq 0..100
ASSUME NullAssumption     == Null \notin Int /\ Null \notin Ranks
ASSUME VersionAssumption  == MaxVersion \in Nat
\* prisma/seeds/seed.ts:434-438: the maxima 20, 25, 20, 25 and 10 of TC1 to TC5.
ASSUME ScaleAssumption    == MaxScore \in [Criteria -> Nat] /\ SumFunction(MaxScore) <= 100

VARIABLES
    forms,            \* the evaluation_forms row of each form
    semesters,        \* "absent", "closed" or "open" (is_active)
    pending,          \* what each handler read and is about to write
    notices           \* dedupe keys of the stored notifications

vars == <<forms, semesters, pending, notices>>

-----------------------------------------------------------------------------
(* Rows, requests and notifications.                                        *)

Reviewers == {"classLeader", "advisor", "admin"}
Roles == Reviewers \cup {"student", "faculty"}
NoSheet == [c \in Criteria |-> Null]
SectionSheets == [Sections -> SectionPoints]
WithinMaxima(sheet) == \A c \in Scored(sheet) : sheet[c] <= MaxScore[c]
CriteriaSheets ==
    {x \in [Criteria -> CriterionPoints \cup {Null}] : WithinMaxima(x)}
StudentTotals == {0} \cup {StudentTotal(x) : x \in SectionSheets}
ClassScores == DirectScores \cup {SheetTotal(x) : x \in CriteriaSheets}
FinalScores == {0} \cup ClassScores

\* `signed` is the set of reviewers whose ...ReviewedBy/At (adminFinalizedBy/At)
\* columns are set: the code always sets and clears each pair together.
Row == [version : Nat, status : Statuses \cup {"none"}, locked : BOOLEAN,
        sections : SectionSheets, studentScore : StudentTotals,
        rank : Ranks \cup {Null}, evidence : SUBSET Evidence,
        sheet : CriteriaSheets, classScore : ClassScores \cup {Null},
        finalScore : FinalScores \cup {Null}, signed : SUBSET Reviewers]

\* No row yet, and the row create() inserts.
NoForm == [version |-> 0, status |-> "none", locked |-> FALSE,
           sections |-> [s \in Sections |-> 0], studentScore |-> 0,
           rank |-> Null, evidence |-> {}, sheet |-> NoSheet,
           classScore |-> Null, finalScore |-> Null, signed |-> {}]
NewForm == [NoForm EXCEPT !.status = "draft"]

Operations == {"edit", "review", "decide", "forward", "finalize",
               "finalizeBatch", "reopen"}
Idle == [op |-> "idle"]
IsRequest(r) == \E S \in (SUBSET Forms) \ {{}} :
                    r \in [op : Operations, by : Roles, snap : [S -> Row]]

\* ['evaluation-rejected', id, version + 1] and
\* ['evaluation-forwarded', target, [[id, version + 1], ...]]; one such key per
\* recipient in the code, all recipients being written in one transaction.
Keys == [event : {"evaluation-rejected", "evaluation-forwarded"},
         target : Statuses, forms : SUBSET (Forms \X Nat)]

Exists(f) == forms[f].status # "none"
IsOpen(h) == semesters[h] = "open"
Selected(w) == DOMAIN pending[w].snap
Snap(w) == pending[w].snap

Init ==
    /\ forms = [f \in Forms |-> NoForm]
    /\ semesters = [h \in Semesters |-> "absent"]
    /\ pending = [w \in Handlers |-> Idle]
    /\ notices = {}

-----------------------------------------------------------------------------
(* Step 1 of a request: read and validate.                                  *)

\* assertReviewScoresEditable and resolveReviewStage: the form is at the
\* step of this role.
AtStageOf(role, row) == CanTransition(row.status, StageOf(role).target)

\* The candidate filter of the three batch submissions.
Forwardable(role, row) ==
    /\ row.status \in StageOf(role).from
    /\ ~row.locked
    /\ role = "classLeader" => "classLeader" \in row.signed
    /\ role = "advisor" => row.classScore # Null /\ "advisor" \in row.signed
    /\ role = "faculty" => row.classScore # Null

\* The checks each operation makes on the rows it read.
Allowed(op, role, row) ==
    CASE op = "edit"     -> role = "student" /\ ~row.locked /\ Editable(row.status)
      [] op = "review"   -> /\ role \in {"classLeader", "advisor"}
                            /\ ~row.locked /\ AtStageOf(role, row)
      [] op = "decide"   -> role \in Reviewers /\ AtStageOf(role, row)
      [] op = "forward"  -> /\ role \in {"classLeader", "advisor", "faculty"}
                            /\ Forwardable(role, row)
      [] op = "finalize" -> /\ role = "admin"
                            /\ ~row.locked /\ AtStageOf(role, row)
      [] op = "finalizeBatch" -> role = "admin" /\ row.status \in finalize.from
      [] op = "reopen"   -> role = "admin" /\ row.status \in reopen.from

Read(w, op, role, S) ==
    /\ pending[w] = Idle
    /\ S # {}
    /\ \A f \in S : Exists(f) /\ Allowed(op, role, forms[f])
    /\ pending' = [pending EXCEPT
                     ![w] = [op |-> op, by |-> role, snap |-> [f \in S |-> forms[f]]]]
    /\ UNCHANGED <<forms, semesters, notices>>

\* Calls that name one form.
ReadOne(w) ==
    \E f \in Forms, op \in {"edit", "review", "decide", "finalize", "reopen"},
       role \in Roles : Read(w, op, role, {f})

\* Batches take forms that pass the filter.
Ready(role, h, classes) ==
    {f \in Forms : /\ SemesterOf[f] = h /\ ClassOf[f] \in classes
                   /\ Exists(f) /\ Forwardable(role, forms[f])}

\* Of one class and semester: all of them, or those the request names.
ReadClass(w, role) ==
    \E h \in Semesters, c \in Classes :
        \E S \in SUBSET Ready(role, h, {c}) : Read(w, "forward", role, S)
SubmitClassToAdvisor(w) == ReadClass(w, "classLeader")
SubmitClassToFaculty(w) == ReadClass(w, "advisor")

\* Of one class of the faculty, or of all of them.
SubmitFacultyToTrainingDepartment(w) ==
    \E h \in Semesters, classes \in {{c} : c \in Classes} \cup {Classes} :
        Read(w, "forward", "faculty", Ready("faculty", h, classes))

\* bulkFinalize names forms; finalizeByFilter takes all of a semester or class.
ReadFinalizeBatch(w) ==
    \E S \in SUBSET {f \in Forms : forms[f].status \in finalize.from} :
        Read(w, "finalizeBatch", "admin", S)

-----------------------------------------------------------------------------
(* Step 2: one transaction writes all the forms, or none.                   *)

Requested(w, op) == pending[w] # Idle /\ pending[w].op = op

\* Mutants: no version in the WHERE clause; only one form of a batch checked.
FreshUnchecked(w) == TRUE
FreshForOne(w) == \E f \in Selected(w) : forms[f].version = Snap(w)[f].version

\* The WHERE id = ... AND version = ... of every write of the transaction.
Fresh(w) == \A f \in Selected(w) : forms[f].version = Snap(w)[f].version

\* writeEvaluation on each selected form: `rows` is what the UPDATEs leave in
\* it, but for the version they increment.
CompareAndSwap(w, rows) ==
    /\ Fresh(w)
    /\ \A f \in Selected(w) : forms[f].version < MaxVersion
    /\ forms' = [f \in Forms |-> IF f \in Selected(w)
                                 THEN [rows[f] EXCEPT !.version = @ + 1]
                                 ELSE forms[f]]
    /\ pending' = [pending EXCEPT ![w] = Idle]
    /\ UNCHANGED semesters

\* Mutant: the dedupe key leaves the version out.
NotifyOncePerForm(w, event, target) ==
    notices' = notices \cup {[event |-> event, target |-> target,
                              forms |-> {<<f, 0>> : f \in Selected(w)}]}

\* createNotificationOnce: INSERT ... ON CONFLICT (dedupe_key) DO NOTHING.
Notify(w, event, target) ==
    notices' = notices \cup
        {[event |-> event, target |-> target,
          forms |-> {<<f, Snap(w)[f].version + 1>> : f \in Selected(w)}]}

\* create(): the unique (student, semester) index decides a race.  Nothing
\* here looks at the semester's is_active.
Create(f) ==
    /\ ~Exists(f)
    /\ semesters[SemesterOf[f]] # "absent"
    /\ forms' = [forms EXCEPT ![f] = NewForm]
    /\ UNCHANGED <<semesters, pending, notices>>

(* The student's writes: all of them read for "edit".                       *)

\* Mutant: the new section is added to a total that already counts the old.
UpdateSectionTwice(w) ==
    \E s \in Sections, p \in SectionPoints :
        LET total(f) == Snap(w)[f].studentScore + p
        IN /\ Requested(w, "edit")
           /\ CompareAndSwap(w, [f \in Selected(w) |->
                  [forms[f] EXCEPT !.sections[s] = p, !.studentScore = total(f),
                                   !.rank = Classify(total(f))]])
           /\ UNCHANGED notices

\* updateStudyScore ... updateRoleScore: one section is new, the other four are
\* those of the snapshot, and the total is computed from both.
UpdateSection(w) ==
    \E s \in Sections, p \in SectionPoints :
        LET total(f) == StudentTotal([Snap(w)[f].sections EXCEPT ![s] = p])
        IN /\ Requested(w, "edit")
           /\ CompareAndSwap(w, [f \in Selected(w) |->
                  [forms[f] EXCEPT !.sections[s] = p,
                                   !.studentScore = total(f),
                                   !.rank = Classify(total(f))]])
           /\ UNCHANGED notices

\* Phone and note are not modelled, the version they claim is.
UpdateDraft(w) ==
    /\ Requested(w, "edit")
    /\ CompareAndSwap(w, [f \in Selected(w) |-> forms[f]])
    /\ UNCHANGED notices

LinkEvidence(w) ==
    \E e \in Evidence :
        /\ Requested(w, "edit")
        /\ \A f \in Selected(w) : e \notin forms[f].evidence
        /\ CompareAndSwap(w, [f \in Selected(w) |->
               [forms[f] EXCEPT !.evidence = @ \cup {e}]])
        /\ UNCHANGED notices

RemoveEvidence(w) ==
    \E e \in Evidence :
        /\ Requested(w, "edit")
        /\ \A f \in Selected(w) : e \in Snap(w)[f].evidence
        /\ CompareAndSwap(w, [f \in Selected(w) |->
               [forms[f] EXCEPT !.evidence = @ \ {e}]])
        /\ UNCHANGED notices

\* Mutants: the final score, or the signatures, survive the return.
ClearReviewKeepFinal(row, status) ==
    [row EXCEPT !.status = status, !.classScore = Null, !.signed = {}]
ClearReviewKeepSigned(row, status) ==
    [row EXCEPT !.status = status, !.classScore = Null, !.finalScore = Null]

\* The columns of a review round, cleared by submit, reject and reopen.
ClearReview(row, status) ==
    [row EXCEPT !.status = status, !.classScore = Null, !.finalScore = Null,
                !.signed = {}]

\* Mutant: the criteria of the earlier round stay.
SubmitKeepSheet(w) ==
    /\ Requested(w, "edit")
    /\ CompareAndSwap(w, [f \in Selected(w) |->
           LET total == StudentTotal(Snap(w)[f].sections)
           IN [ClearReview(forms[f], submit.target) EXCEPT
                 !.studentScore = total, !.rank = Classify(total)]])
    /\ UNCHANGED notices

Submit(w) ==
    /\ Requested(w, "edit")
    /\ CompareAndSwap(w, [f \in Selected(w) |->
           LET total == StudentTotal(Snap(w)[f].sections)
           IN [ClearReview(forms[f], submit.target) EXCEPT
                 !.studentScore = total, !.rank = Classify(total),
                 !.sheet = NoSheet]])
    /\ UNCHANGED notices

-----------------------------------------------------------------------------
(* The reviewers' writes.                                                   *)

\* Mutant: a new score keeps the confirmation of the old one.
WithScoresKeepMark(row, role, given) ==
    LET sheet == [c \in Criteria |-> IF c \in DOMAIN given THEN given[c]
                                                           ELSE row.sheet[c]]
    IN [row EXCEPT !.sheet = sheet, !.classScore = SheetTotal(sheet)]

\* reviewScores: upsert the criteria given, sum what the sheet then holds, and
\* take back this reviewer's own confirmation.
WithScores(row, role, given) ==
    LET sheet == [c \in Criteria |-> IF c \in DOMAIN given THEN given[c]
                                                           ELSE row.sheet[c]]
    IN [row EXCEPT !.sheet = sheet, !.classScore = SheetTotal(sheet),
                   !.signed = @ \ {role}]

\* confirmReview: a mark on the row, which stays at its step.
Confirmed(row, role, score) ==
    [row EXCEPT !.signed = @ \cup {role},
                !.rank = IF role = "advisor" THEN Classify(score) ELSE @]

\* Mutant: the points given are not compared with the criterion's maximum.
GivenAnyScores == UNION {[C -> CriterionPoints] : C \in (SUBSET Criteria) \ {{}}}

\* The scores of a request: each within the maximum of its own criterion.
GivenScores == {given \in UNION {[C -> CriterionPoints] :
                                     C \in (SUBSET Criteria) \ {{}}} :
                    WithinMaxima(given)}

ReviewScores(w) ==
    \E given \in GivenScores :
        /\ Requested(w, "review")
        /\ CompareAndSwap(w, [f \in Selected(w) |->
               WithScores(forms[f], pending[w].by, given)])
        /\ UNCHANGED notices

ConfirmReview(w) ==
    /\ Requested(w, "review")
    /\ \A f \in Selected(w) : Snap(w)[f].classScore # Null
    /\ CompareAndSwap(w, [f \in Selected(w) |->
           Confirmed(forms[f], pending[w].by, Snap(w)[f].classScore)])
    /\ UNCHANGED notices

\* Scores and confirmation in one transaction, a version for each.
ConfirmWithScores(w) ==
    \E given \in GivenScores :
        LET scored(f) == WithScores(forms[f], pending[w].by, given)
        IN /\ Requested(w, "review")
           /\ CompareAndSwap(w, [f \in Selected(w) |->
                  [Confirmed(scored(f), pending[w].by, scored(f).classScore)
                     EXCEPT !.version = @ + 1]])
           /\ UNCHANGED notices

Finalized(row, score) ==
    [row EXCEPT !.status = finalize.target, !.finalScore = score,
                !.rank = Classify(score), !.signed = @ \cup {"admin"}]

\* POST /:id/review with action 'approve': one form moves one step.
ApproveByLeader(w) ==
    /\ Requested(w, "decide") /\ pending[w].by = "classLeader"
    /\ CompareAndSwap(w, [f \in Selected(w) |->
           [forms[f] EXCEPT !.status = classLeaderApproval.target,
                            !.signed = @ \cup {"classLeader"}]])
    /\ UNCHANGED notices

\* The advisor's classScore comes whole with the request.
ApproveByAdvisor(w) ==
    \E score \in DirectScores :
        /\ Requested(w, "decide") /\ pending[w].by = "advisor"
        /\ CompareAndSwap(w, [f \in Selected(w) |->
               [forms[f] EXCEPT !.status = advisorApproval.target,
                                !.classScore = score, !.rank = Classify(score),
                                !.signed = @ \cup {"advisor"}]])
        /\ UNCHANGED notices

ApproveByAdmin(w) ==
    /\ Requested(w, "decide") /\ pending[w].by = "admin"
    /\ \A f \in Selected(w) : Snap(w)[f].classScore # Null
    /\ CompareAndSwap(w, [f \in Selected(w) |->
           Finalized(forms[f], Snap(w)[f].classScore)])
    /\ UNCHANGED notices

\* action 'reject' (and returnToStudent) of any of the three reviewers.
Reject(w) ==
    /\ Requested(w, "decide")
    /\ CompareAndSwap(w, [f \in Selected(w) |->
           [ClearReview(forms[f], reject.target) EXCEPT !.sheet = NoSheet]])
    /\ Notify(w, "evaluation-rejected", reject.target)

\* submitClassToAdvisor, submitClassToFaculty, submitFacultyToTrainingDepartment.
Forward(w) ==
    LET role   == pending[w].by
        target == StageOf(role).target
    IN /\ Requested(w, "forward")
       /\ CompareAndSwap(w, [f \in Selected(w) |->
              [forms[f] EXCEPT !.status = target,
                               !.rank = IF role = "advisor"
                                        THEN Classify(Snap(w)[f].classScore)
                                        ELSE @]])
       /\ Notify(w, "evaluation-forwarded", target)

-----------------------------------------------------------------------------
(* The academy's writes.                                                    *)

\* finalize: the score in the request, or the class score if it has one.
Finalize(w) ==
    /\ Requested(w, "finalize")
    /\ \E score \in DirectScores \cup {Snap(w)[f].classScore : f \in Selected(w)} :
           /\ score # Null
           /\ CompareAndSwap(w, [f \in Selected(w) |-> Finalized(forms[f], score)])
    /\ UNCHANGED notices

\* finalizeForms: `classScore ?? 0`, whether or not the form is locked.
FinalizeBatch(w) ==
    LET score(f) == IF Snap(w)[f].classScore = Null THEN 0
                                                    ELSE Snap(w)[f].classScore
    IN /\ Requested(w, "finalizeBatch")
       /\ CompareAndSwap(w, [f \in Selected(w) |-> Finalized(forms[f], score(f))])
       /\ UNCHANGED notices

\* The criteria rows, the student's sections and the rank stay as they are.
Reopen(w) ==
    /\ Requested(w, "reopen")
    /\ CompareAndSwap(w, [f \in Selected(w) |->
           ClearReview(forms[f], reopen.target)])
    /\ UNCHANGED notices

\* Any failure: the CAS matched no row (409), a deadline passed, access was
\* revoked, expectedVersion differed, the connection broke.  All is rolled back.
Fail(w) ==
    /\ pending[w] # Idle
    /\ pending' = [pending EXCEPT ![w] = Idle]
    /\ UNCHANGED <<forms, semesters, notices>>

-----------------------------------------------------------------------------
(* Semester administration: a transaction under the advisory lock.          *)

\* Mutant: locking leaves the version alone.
SetLockSameVersion(row, locked) ==
    IF row.status = "none" THEN row ELSE [row EXCEPT !.locked = locked]

SetLock(row, locked) ==
    IF row.status = "none" \/ row.locked = locked THEN row
    ELSE [row EXCEPT !.locked = locked, !.version = @ + 1]

\* Close the semesters of `closing`, locking their forms that are not locked;
\* unlock the locked forms of those of `opening`.
SwitchForms(closing, opening) ==
    /\ forms' = [f \in Forms |->
           IF SemesterOf[f] \in closing THEN SetLock(forms[f], TRUE)
           ELSE IF SemesterOf[f] \in opening THEN SetLock(forms[f], FALSE)
           ELSE forms[f]]
    /\ \A f \in Forms : forms'[f] # forms[f] => forms[f].version < MaxVersion

\* Mutant: opening a semester leaves the others open.
OthersOpenIgnored(h) == {}

OthersOpen(h) == {g \in Semesters \ {h} : IsOpen(g)}

Deactivate(others, h, state) ==
    semesters' = [g \in Semesters |-> IF g = h THEN state
                                      ELSE IF g \in others THEN "closed"
                                      ELSE semesters[g]]

CreateSemester(h, active) ==
    LET others == IF active THEN OthersOpen(h) ELSE {}
    IN /\ semesters[h] = "absent"
       /\ SwitchForms(others, {})
       /\ Deactivate(others, h, IF active THEN "open" ELSE "closed")
       /\ UNCHANGED <<pending, notices>>

\* Mutants: opening does not unlock; switching does not lock the old semester.
ToggleActiveNoUnlock(h, active) ==
    LET others == IF active THEN OthersOpen(h) ELSE {}
    IN /\ semesters[h] # "absent"
       /\ IF active THEN SwitchForms(others, {}) ELSE SwitchForms({h}, {})
       /\ Deactivate(others, h, IF active THEN "open" ELSE "closed")
       /\ UNCHANGED <<pending, notices>>
ToggleActiveNoLock(h, active) ==
    /\ semesters[h] # "absent"
    /\ IF active THEN SwitchForms({}, {h}) ELSE SwitchForms({h}, {})
    /\ Deactivate(OthersOpen(h), h, IF active THEN "open" ELSE "closed")
    /\ UNCHANGED <<pending, notices>>

\* toggleActive locks or unlocks even a semester that is already so.
ToggleActive(h, active) ==
    LET others == IF active THEN OthersOpen(h) ELSE {}
    IN /\ semesters[h] # "absent"
       /\ IF active THEN SwitchForms(others, {h}) ELSE SwitchForms({h}, {})
       /\ Deactivate(others, h, IF active THEN "open" ELSE "closed")
       /\ UNCHANGED <<pending, notices>>

\* update() re-reads is_active under the lock and switches only on a change.
UpdateSemester(h, active) == IsOpen(h) # active /\ ToggleActive(h, active)

-----------------------------------------------------------------------------
Write(w) ==
    \/ UpdateSection(w) \/ UpdateDraft(w) \/ LinkEvidence(w) \/ RemoveEvidence(w)
    \/ Submit(w)
    \/ ReviewScores(w) \/ ConfirmReview(w) \/ ConfirmWithScores(w)
    \/ ApproveByLeader(w) \/ ApproveByAdvisor(w) \/ ApproveByAdmin(w) \/ Reject(w)
    \/ Forward(w)
    \/ Finalize(w) \/ FinalizeBatch(w) \/ Reopen(w)

Administer(h) ==
    \E active \in BOOLEAN : \/ CreateSemester(h, active)
                            \/ ToggleActive(h, active)
                            \/ UpdateSemester(h, active)

Next ==
    \/ \E f \in Forms : Create(f)
    \/ \E w \in Handlers : \/ ReadOne(w)
                           \/ SubmitClassToAdvisor(w) \/ SubmitClassToFaculty(w)
                           \/ SubmitFacultyToTrainingDepartment(w)
                           \/ ReadFinalizeBatch(w)
                           \/ Write(w) \/ Fail(w)
    \/ \E h \in Semesters : Administer(h)

Spec == Init /\ [][Next]_vars

(* Invariants.                                                              *)

\* Every variable has the type of its columns; totals and scores are among
\* those the score rules give for some sections or criteria.
TypeOK ==
    /\ forms \in [Forms -> Row]
    /\ semesters \in [Semesters -> {"absent", "closed", "open"}]
    /\ pending = [w \in Handlers |-> pending[w]]
    /\ \A w \in Handlers : pending[w] = Idle \/ IsRequest(pending[w])
    /\ notices \subseteq Keys

\* The version column does its job: a request whose version still matches
\* holds exactly the row as it is, and what it checked still holds of it.
\* Semester locking, which bypasses writeEvaluation, must keep to this too.
SnapshotCoherent ==
    \A w \in Handlers : pending[w] # Idle =>
        \A f \in Selected(w) :
            /\ Exists(f)
            /\ Allowed(pending[w].op, pending[w].by, Snap(w)[f])
            /\ Snap(w)[f].version <= forms[f].version
            /\ Snap(w)[f].version = forms[f].version => Snap(w)[f] = forms[f]

\* The reviewers who must have signed a form at each status, and those who may.
MustHaveSigned(status) ==
    CASE status \in {"none", "draft", "rejected", "submitted"} -> {}
      [] status = "class_leader_approved" -> {"classLeader"}
      [] status \in {"class_approved", "faculty_approved"} -> {"classLeader", "advisor"}
      [] status = "finalized" -> Reviewers
MayHaveSigned(status) ==
    CASE status = "submitted" -> {"classLeader"}
      [] status = "class_leader_approved" -> {"classLeader", "advisor"}
      [] OTHER -> MustHaveSigned(status)

SignedForStage(row) == /\ MustHaveSigned(row.status) \subseteq row.signed
                       /\ row.signed \subseteq MayHaveSigned(row.status)

\* The audit columns tell the truth at every status, whichever of the old
\* (approve) and new (confirm, then forward) routes the form took: nobody is
\* skipped, and no signature survives a return, a reopening or a resubmission.
SignaturesMatchStage == \A f \in Forms : SignedForStage(forms[f])

ScoredForStage(row) ==
    /\ row.status \in {"none", "draft", "rejected"} => row.classScore = Null
    /\ row.status \in {"class_approved", "faculty_approved", "finalized"}
         => row.classScore # Null
    /\ row.finalScore # Null <=> row.status = "finalized"
    /\ "advisor" \in row.signed => row.classScore # Null

\* A form has a class score from the advisor's approval on and a final score
\* exactly when finalized, so the `classScore ?? 0` of finalizeForms never
\* turns a missing score into a zero.
ScoresMatchStage == \A f \in Forms : ScoredForStage(forms[f])

RankedForStage(row) ==
    /\ row.status = "submitted" => row.rank = Classify(row.studentScore)
    /\ row.status # "finalized" /\ "advisor" \in row.signed
         => row.rank = Classify(row.classScore)
    /\ row.status = "finalized" => row.rank = Classify(row.finalScore)

\* The stored rank is the class of the score that counts at that status, of
\* three columns that different requests write.
RankMatchesStage == \A f \in Forms : RankedForStage(forms[f])

SummedForStage(row) ==
    row.status \in {"submitted", "class_leader_approved"} =>
        row.classScore = IF Scored(row.sheet) = {} THEN Null
                                                  ELSE SheetTotal(row.sheet)

\* Until the advisor approves, the class score is the sum of the criteria the
\* reviewers scored in this round: no criterion of an earlier round, and none
\* of a reviewer who lost a race, counts in it.
ClassScoreIsSheetTotal == \A f \in Forms : SummedForStage(forms[f])

\* Two sections saved at once never leave the total of one of them.
StudentTotalConsistent ==
    \A f \in Forms : forms[f].studentScore = StudentTotal(forms[f].sections)

\* A form's totals stay on the scale the ranks are defined for.  A request's
\* points are compared with one criterion's maximum each, never summed; the
\* total also counts what other requests and the other reviewer gave.
OnScale(row) ==
    /\ row.studentScore \in 0..100
    /\ row.classScore # Null => row.classScore \in 0..100
    /\ row.finalScore # Null => row.finalScore \in 0..100
TotalsOnScale == \A f \in Forms : OnScale(forms[f])

\* The forms of the open semester are unlocked: students can work on them.
OpenSemesterUnlocked ==
    \A f \in Forms : Exists(f) /\ IsOpen(SemesterOf[f]) => ~forms[f].locked

\* What test/database-invariants.e2e-spec.ts:251 expects of every form once a
\* semester is active: it is locked exactly when that semester is not its own.
LockMatchesActive ==
    (\E h \in Semesters : IsOpen(h)) =>
        \A f \in Forms : Exists(f) => (forms[f].locked <=> ~IsOpen(SemesterOf[f]))

-----------------------------------------------------------------------------
(* Refinement: the requests implement atomic steps of each form.            *)

Card(row) == [status |-> row.status, locked |-> row.locked,
              work |-> <<row.sections, row.evidence>>,
              classScore |-> row.classScore, finalScore |-> row.finalScore,
              signed |-> row.signed]

Lifecycle == INSTANCE EvaluationLifecycle
                 WITH card <- [f \in Forms |-> Card(forms[f])],
                      open <- {h \in Semesters : IsOpen(h)},
                      NoWork <- <<[s \in Sections |-> 0], {}>>

\* Whatever the interleaving, every committed request is an atomic step that
\* the form allowed at that moment.
ImplementsLifecycle == Lifecycle!Spec

Switches == INSTANCE SemesterSwitch WITH state <- semesters

\* Requests never touch the semesters, and semesters change as
\* SemesterAdministration, which takes the same transactions apart, says.
ImplementsSwitch == Switches!Spec

Nothing == [f \in {} |-> 0]
SeenBy(w) == IF pending[w] = Idle THEN Nothing
             ELSE [f \in Selected(w) |-> Snap(w)[f].version]

Versions == INSTANCE AtomicWrites
                WITH Batches <- Handlers,
                     version <- [f \in Forms |-> forms[f].version],
                     seen <- [w \in Handlers |-> SeenBy(w)]

\* Each request writes what it read, all of it at the versions it read, or
\* nothing.  RowLocks shows the same of the statements its step stands for.
ImplementsAtomicWrites == Versions!Spec

-----------------------------------------------------------------------------
(* What a step may never do.                                                *)

\* The student's work is fixed from submission until it is returned, and while
\* its semester is closed: no save or evidence upload that began earlier lands.
StudentWorkFrozen ==
    [][\A f \in Forms :
          \/ /\ forms'[f].sections = forms[f].sections
             /\ forms'[f].evidence = forms[f].evidence
          \/ Editable(forms[f].status) /\ ~forms[f].locked]_vars

\* A finalized form keeps its scores, rank and signatures until it is reopened.
FinalizedSealed ==
    [][\A f \in Forms : forms[f].status = "finalized" =>
          \/ forms'[f].status = "draft"
          \/ \E locked \in BOOLEAN :
               forms'[f] = [forms[f] EXCEPT !.locked = locked,
                                            !.version = forms'[f].version]]_vars

\* A request whose row someone else writes has lost, and for good: no later
\* change, by whatever path, brings back the version it holds.  So all it can
\* still do is fail.
LoserStaysOut ==
    [][\A w \in Handlers : pending[w] # Idle /\ pending'[w] = pending[w] =>
          /\ \A f \in Selected(w) : forms'[f] # forms[f] => ~Fresh(w)'
          /\ ~Fresh(w) => ~Fresh(w)']_vars

\* Every return of a form to its student, and every batch handed on, stores a
\* notification that was not stored before: the dedupe key of an earlier round
\* never swallows the message of a later one.
HandoverNotified ==
    [][\A f \in Forms :
          LET returned  == forms'[f].status = "rejected"
              forwarded == \E w \in Handlers : /\ Requested(w, "forward")
                                               /\ f \in Selected(w)
                                               /\ pending'[w] = Idle
          IN forms'[f].status # forms[f].status /\ (returned \/ forwarded) =>
                \E k \in notices' \ notices, v \in 0..MaxVersion : <<f, v>> \in k.forms]_vars

=============================================================================
