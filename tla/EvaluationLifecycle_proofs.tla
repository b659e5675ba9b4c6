---------------------- MODULE EvaluationLifecycle_proofs ----------------------
(***************************************************************************)
(* Two properties of the steps of EvaluationWorkflow, for any number of     *)
(* forms, requests, semesters and scores: every hand-over is notified, and  *)
(* every step is one of EvaluationLifecycle.                                *)
(***************************************************************************)
EXTENDS EvaluationWorkflow_proofs

-----------------------------------------------------------------------------
(* Versions and the keys that name them.                                    *)

\* A stored key names no version that its forms have not reached.
KeysReached == \A k \in notices : \A p \in k.forms : p[2] <= forms[p[1]].version

\* Semester administration raises versions or leaves them.
LEMMA AdministerVersions ==
  ASSUME Inv, NEW h \in Semesters, Administer(h)
  PROVE  /\ UNCHANGED <<pending, notices>>
         /\ \A f \in Forms : /\ forms'[f].version >= forms[f].version
                             /\ forms'[f].status = forms[f].status
  <1>1. PICK active \in BOOLEAN : \/ CreateSemester(h, active)
                                 \/ ToggleActive(h, active)
    BY DEF Administer, UpdateSemester
  <1>2. /\ UNCHANGED <<pending, notices>>
        /\ \E closing, opening : SwitchForms(closing, opening)
    BY <1>1 DEF CreateSemester, ToggleActive
  <1>3. ASSUME NEW f \in Forms
        PROVE  /\ forms'[f].version >= forms[f].version
               /\ forms'[f].status = forms[f].status
    <2>1. \/ forms'[f] = forms[f]
          \/ \E locked \in BOOLEAN : forms'[f] = SetLock(forms[f], locked)
      BY <1>2 DEF SwitchForms
    <2>2. forms[f] \in Row /\ forms[f].version \in Nat /\ StageOK(forms[f])
      BY DEF Inv, TypeOK, Row
    <2>3. CASE forms'[f] = forms[f]
      BY <2>2, <2>3
    <2>4. ASSUME NEW locked \in BOOLEAN, forms'[f] = SetLock(forms[f], locked)
          PROVE  /\ forms'[f].version >= forms[f].version
                 /\ forms'[f].status = forms[f].status
      <3>1. /\ SetLock(forms[f], locked) \in Row
            /\ SetLock(forms[f], locked).status = forms[f].status
            /\ \/ SetLock(forms[f], locked) = forms[f]
               \/ SetLock(forms[f], locked).version > forms[f].version
        BY <2>2, SetLockRow
      <3>2. forms'[f].version \in Nat
        BY <2>4, <3>1 DEF Row
      <3> QED BY <2>2, <2>4, <3>1, <3>2
    <2> QED BY <2>1, <2>3, <2>4
  <1> QED BY <1>2, <1>3

\* A write raises or keeps the versions, and changes no request but its own.
LEMMA WriteVersions ==
  ASSUME Inv, NEW w \in Handlers, Write(w)
  PROVE  /\ \A f \in Forms : forms'[f].version >= forms[f].version
         /\ \A v \in Handlers \ {w} : pending'[v] = pending[v]
  <1>1. \A f \in Forms : forms'[f].version >= forms[f].version
    <2>1. \A f \in Forms : forms[f].version \in Nat
      BY DEF Inv, TypeOK, Row
    <2> QED BY <2>1, WriteStep DEF Becomes
  <1>2. PICK rows : CompareAndSwap(w, rows)
    BY WriteLands DEF Lands
  <1>3. \A v \in Handlers \ {w} : pending'[v] = pending[v]
    BY <1>2 DEF CompareAndSwap, Inv, TypeOK
  <1> QED BY <1>1, <1>3

\* What a return or a hand-over stores: a key of the versions it gives its
\* forms, which no stored key can name yet.
LEMMA NewKey ==
  ASSUME Inv, KeysReached, NEW w \in Handlers, pending[w] # Idle,
         NEW rows, CompareAndSwap(w, rows),
         \A f \in Selected(w) : rows[f] \in Row /\ rows[f].version = forms[f].version,
         NEW event, NEW target, Notify(w, event, target)
  PROVE  /\ \A f \in Selected(w) : \E k \in notices' \ notices, v \in 0..MaxVersion :
                <<f, v>> \in k.forms
         /\ \A k \in notices' \ notices : \A p \in k.forms :
                p[1] \in Forms /\ p[2] <= forms'[p[1]].version
  <1> DEFINE key == [event |-> event, target |-> target,
                     forms |-> {<<f, Snap(w)[f].version + 1>> : f \in Selected(w)}]
  <1>1. Fresh(w) /\ notices' = notices \cup {key}
    BY DEF CompareAndSwap, Notify
  <1>2. ASSUME NEW f \in Selected(w)
        PROVE  /\ f \in Forms /\ forms[f].version \in Nat
               /\ Snap(w)[f].version = forms[f].version
               /\ forms[f].version + 1 \in 0..MaxVersion
               /\ forms'[f].version = forms[f].version + 1
    <2>1. f \in Forms /\ forms[f] \in Row /\ Snap(w)[f].version = forms[f].version
      BY <1>1, FreshRequest DEF Fresh
    <2>2. forms[f].version \in Nat /\ MaxVersion \in Nat
      BY <2>1, VersionAssumption DEF Row
    <2>3. forms[f].version < MaxVersion
      BY DEF CompareAndSwap
    <2>4. forms[f].version + 1 \in 0..MaxVersion
      BY <2>2, <2>3
    <2>5. forms'[f] = [rows[f] EXCEPT !.version = @ + 1]
      BY <2>1 DEF CompareAndSwap
    <2>6. forms'[f].version = rows[f].version + 1
      BY <2>5, VersionType
    <2> QED BY <2>1, <2>2, <2>4, <2>6
  <1>3. \A f \in Selected(w) : <<f, forms[f].version + 1>> \in key.forms
    BY <1>2
  <1>4. \A p \in key.forms : p[1] \in Forms /\ p[2] <= forms'[p[1]].version
    BY <1>2
  <1>5. ASSUME key \in notices PROVE FALSE
    <2>1. PICK f \in Selected(w) : TRUE
      BY RequestType DEF Inv
    <2>2. <<f, forms[f].version + 1>>[2] <= forms[<<f, forms[f].version + 1>>[1]].version
      BY <1>3, <1>5 DEF KeysReached
    <2> QED BY <1>2, <2>2
  <1> HIDE DEF key
  <1>6. notices' \ notices = {key}
    BY <1>1, <1>5
  <1> QED BY <1>2, <1>3, <1>4, <1>6

\* The rows of a return and of a hand-over.
LEMMA ReturnedKey ==
  ASSUME Inv, KeysReached, NEW w \in Handlers, Reject(w) \/ Forward(w)
  PROVE  \E event, target, rows :
           /\ pending[w] # Idle /\ CompareAndSwap(w, rows)
           /\ \A f \in Selected(w) : rows[f] \in Row /\ rows[f].version = forms[f].version
           /\ Notify(w, event, target)
  <1>1. CASE Reject(w)
    <2> DEFINE rows == [f \in Selected(w) |->
                  [ClearReview(forms[f], reject.target) EXCEPT !.sheet = NoSheet]]
    <2>1. /\ pending[w] # Idle /\ CompareAndSwap(w, rows)
          /\ Notify(w, "evaluation-rejected", reject.target)
      BY <1>1 DEF Reject, Requested
    <2>2. \A f \in Selected(w) : forms[f] \in Row
      BY <2>1, FreshRequest DEF CompareAndSwap
    <2>3. NoSheet \in CriteriaSheets /\ reject.target \in Statuses
      BY TargetType, EmptySheet DEF Statuses
    <2>4. ASSUME NEW f \in Selected(w)
          PROVE  rows[f] \in Row /\ rows[f].version = forms[f].version
      <3> DEFINE cleared == ClearReview(forms[f], reject.target)
      <3>1. cleared \in Row /\ cleared.version = forms[f].version
        BY <2>2, <2>3 DEF ClearReview, Row
      <3>2. rows[f] = [cleared EXCEPT !.sheet = NoSheet]
        OBVIOUS
      <3> HIDE DEF cleared, rows
      <3> QED BY <2>3, <3>1, <3>2 DEF Row
    <2> HIDE DEF rows
    <2> QED BY <2>1, <2>4
  <1>2. CASE Forward(w)
    <2> DEFINE target == StageOf(pending[w].by).target
               rows == [f \in Selected(w) |->
                  [forms[f] EXCEPT !.status = target,
                                   !.rank = IF pending[w].by = "advisor"
                                            THEN Classify(Snap(w)[f].classScore)
                                            ELSE @]]
    <2>1. /\ pending[w] # Idle /\ pending[w].op = "forward" /\ CompareAndSwap(w, rows)
          /\ Notify(w, "evaluation-forwarded", target)
      BY <1>2 DEF Forward, Requested
    <2>2. ASSUME NEW f \in Selected(w)
          PROVE  rows[f] \in Row /\ rows[f].version = forms[f].version
      <3>1. forms[f] \in Row
        BY <2>1, ReviewerRequest
      <3>2. pending[w].by \in {"classLeader", "advisor", "faculty"}
        BY <2>1, ReviewerRequest
      <3>3. target \in Statuses
        BY <3>2, StageTargets DEF Statuses
      <3>4. Classify(Snap(w)[f].classScore) \in Ranks
        BY ClassifyType
      <3> HIDE DEF target
      <3> QED BY <3>1, <3>3, <3>4 DEF Row
    <2> HIDE DEF rows, target
    <2> QED BY <2>1, <2>2
  <1> QED BY <1>1, <1>2

\* Scoring changes the sheet, its sum and one signature.
LEMMA ScoredKeeps ==
  ASSUME NEW r \in Row, NEW role, NEW given \in GivenScores
  PROVE  /\ WithScores(r, role, given) \in Row
         /\ WithScores(r, role, given).classScore # Null
         /\ WithScores(r, role, given).signed = r.signed \ {role}
         /\ WithScores(r, role, given).status = r.status
         /\ WithScores(r, role, given).locked = r.locked
         /\ WithScores(r, role, given).sections = r.sections
         /\ WithScores(r, role, given).evidence = r.evidence
         /\ WithScores(r, role, given).finalScore = r.finalScore
  <1>1. /\ WithScores(r, role, given) \in Row
        /\ WithScores(r, role, given).classScore # Null
    BY WithScoresType, ScoreNotNull
  <1>2. \E sheet, sum : WithScores(r, role, given) =
          [r EXCEPT !.sheet = sheet, !.classScore = sum, !.signed = @ \ {role}]
    BY DEF WithScores
  <1> QED BY <1>1, <1>2 DEF Row

\* Every other write stores nothing, returns nothing and hands nothing on.
LEMMA OtherWrite ==
  ASSUME Inv, NEW w \in Handlers, Write(w), ~Reject(w), ~Forward(w)
  PROVE  /\ UNCHANGED notices /\ pending[w].op # "forward"
         /\ \A f \in Forms : forms'[f].status = "rejected" =>
                                forms[f].status = "rejected"
  <1>1. UNCHANGED notices /\ pending[w].op # "forward"
    BY DEF Write, UpdateSection, UpdateDraft, LinkEvidence, RemoveEvidence, Submit,
           ReviewScores, ConfirmReview, ConfirmWithScores, ApproveByLeader,
           ApproveByAdvisor, ApproveByAdmin, Finalize, FinalizeBatch, Reopen, Requested
  <1>2. ASSUME NEW f \in Selected(w), forms[f] \in Row
        PROVE  forms'[f].status \in {forms[f].status, "submitted", "draft",
                                     "class_leader_approved", "class_approved",
                                     "finalized"}
    <2>1. f \in Forms
      BY WriteLands, RequestType DEF Inv
    <2> USE <1>2, <2>1 DEF CompareAndSwap, Row
    <2>2. CASE UpdateSection(w)
      <3> DEFINE total(g, s, p) ==
                   StudentTotal([Snap(w)[g].sections EXCEPT ![s] = p])
      <3>1. PICK s \in Sections, p \in SectionPoints :
               CompareAndSwap(w, [g \in Selected(w) |->
                  [forms[g] EXCEPT !.sections[s] = p, !.studentScore = total(g, s, p),
                                   !.rank = Classify(total(g, s, p))]])
        BY <2>2 DEF UpdateSection
      <3>2. forms'[f] = [[forms[f] EXCEPT !.sections[s] = p,
                                          !.studentScore = total(f, s, p),
                                          !.rank = Classify(total(f, s, p))]
                           EXCEPT !.version = @ + 1]
        BY <3>1
      <3> HIDE DEF total
      <3> QED BY <3>2
    <2>3. CASE UpdateDraft(w)
      BY <2>3 DEF UpdateDraft
    <2>4. CASE LinkEvidence(w)
      BY <2>4 DEF LinkEvidence
    <2>5. CASE RemoveEvidence(w)
      BY <2>5 DEF RemoveEvidence
    <2>6. CASE Submit(w)
      BY <2>6, TargetType DEF Submit, ClearReview
    <2>7. CASE Reopen(w)
      BY <2>7, TargetType DEF Reopen, ClearReview
    <2>8. CASE ReviewScores(w)
      <3>1. PICK given \in GivenScores :
               forms'[f] = [WithScores(forms[f], pending[w].by, given)
                              EXCEPT !.version = @ + 1]
        BY <2>8 DEF ReviewScores
      <3> QED BY <3>1, ScoredKeeps
    <2>9. CASE ConfirmReview(w)
      BY <2>9 DEF ConfirmReview, Confirmed
    <2>10. CASE ConfirmWithScores(w)
      <3>1. PICK given \in GivenScores :
               LET scored == WithScores(forms[f], pending[w].by, given)
               IN  forms'[f] = [[Confirmed(scored, pending[w].by, scored.classScore)
                                   EXCEPT !.version = @ + 1] EXCEPT !.version = @ + 1]
        BY <2>10 DEF ConfirmWithScores
      <3> DEFINE scored == WithScores(forms[f], pending[w].by, given)
      <3>2. scored \in Row /\ scored.status = forms[f].status
        BY ScoredKeeps
      <3>3. forms'[f] = [[Confirmed(scored, pending[w].by, scored.classScore)
                            EXCEPT !.version = @ + 1] EXCEPT !.version = @ + 1]
        BY <3>1
      <3> HIDE DEF scored
      <3> QED BY <3>2, <3>3 DEF Confirmed
    <2>11. CASE ApproveByLeader(w)
      BY <2>11, TargetType DEF ApproveByLeader
    <2>12. CASE ApproveByAdvisor(w)
      <3>1. PICK score \in DirectScores :
               CompareAndSwap(w, [g \in Selected(w) |->
                  [forms[g] EXCEPT !.status = advisorApproval.target,
                                   !.classScore = score, !.rank = Classify(score),
                                   !.signed = @ \cup {"advisor"}]])
        BY <2>12 DEF ApproveByAdvisor
      <3>2. forms'[f].status = advisorApproval.target
        BY <3>1
      <3> QED BY <3>2, TargetType
    <2>13. CASE ApproveByAdmin(w) \/ Finalize(w) \/ FinalizeBatch(w)
      <3>1. \E score : forms'[f] = [Finalized(forms[f], score) EXCEPT !.version = @ + 1]
        <4>1. CASE ApproveByAdmin(w)
          BY <4>1 DEF ApproveByAdmin
        <4>2. CASE Finalize(w)
          <5>1. PICK score : CompareAndSwap(w, [g \in Selected(w) |->
                                                   Finalized(forms[g], score)])
            BY <4>2 DEF Finalize
          <5> QED BY <5>1
        <4>3. CASE FinalizeBatch(w)
          BY <4>3 DEF FinalizeBatch
        <4> QED BY <2>13, <4>1, <4>2, <4>3
      <3> QED BY <3>1, TargetType DEF Finalized
    <2> QED BY <2>2, <2>3, <2>4, <2>5, <2>6, <2>7, <2>8, <2>9, <2>10, <2>11, <2>12,
               <2>13 DEF Write
  <1>3. \A f \in Forms : forms[f] \in Row /\ (f \notin Selected(w) => forms'[f] = forms[f])
    BY WriteStep DEF Inv, TypeOK
  <1> QED BY <1>1, <1>2, <1>3

-----------------------------------------------------------------------------
(* Every hand-over is notified.                                             *)

\* Versions only grow, so keys stay reached, and new ones are.
LEMMA KeysStep == Inv /\ KeysReached /\ [Next]_vars => KeysReached'
  <1> SUFFICES ASSUME Inv, KeysReached, [Next]_vars PROVE KeysReached'
    OBVIOUS
  <1>0. /\ \A f \in Forms : forms[f].version \in Nat /\ forms'[f].version \in Nat
        /\ \A k \in notices : \A p \in k.forms : p[1] \in Forms /\ p[2] \in Nat
    BY InvStep DEF Inv, TypeOK, Row, Keys
  <1>1. ASSUME \A f \in Forms : forms'[f].version >= forms[f].version,
               \A k \in notices' \ notices : \A p \in k.forms :
                  p[1] \in Forms /\ p[2] <= forms'[p[1]].version
        PROVE  KeysReached'
    BY <1>0, <1>1 DEF KeysReached
  <1>2. ASSUME NEW f \in Forms, Create(f) PROVE KeysReached'
    <2>1. notices' = notices /\ forms' = [forms EXCEPT ![f] = NewForm]
      BY <1>2 DEF Create
    <2>2. NewForm.version = 0 /\ forms[f] = NoForm /\ NoForm.version = 0
      BY <1>2 DEF NewForm, NoForm, Create, Inv, Exists
    <2>3. \A g \in Forms : forms'[g].version >= forms[g].version
      BY <1>0, <2>1, <2>2 DEF Inv, TypeOK
    <2> QED BY <1>1, <2>1, <2>3
  <1>3. ASSUME NEW w \in Handlers, Reads(w) \/ Fail(w) PROVE KeysReached'
    <2>1. forms' = forms
      BY <1>3, ReadsStep, FailStep
    <2>2. notices' = notices
      BY <1>3 DEF Reads, ReadOne, SubmitClassToAdvisor, SubmitClassToFaculty, ReadClass,
                  SubmitFacultyToTrainingDepartment, ReadFinalizeBatch, Read, Fail
    <2> QED BY <2>1, <2>2 DEF KeysReached
  <1>4. ASSUME NEW w \in Handlers, Write(w) PROVE KeysReached'
    <2>1. \A f \in Forms : forms'[f].version >= forms[f].version
      BY <1>4, WriteVersions
    <2>2. CASE Reject(w) \/ Forward(w)
      BY <1>1, <2>1, <2>2, ReturnedKey, NewKey
    <2>3. CASE ~Reject(w) /\ ~Forward(w)
      BY <1>1, <1>4, <2>1, <2>3, OtherWrite
    <2> QED BY <2>2, <2>3
  <1>5. ASSUME NEW h \in Semesters, Administer(h) PROVE KeysReached'
    BY <1>1, <1>5, AdministerVersions
  <1>6. CASE UNCHANGED vars
    BY <1>6 DEF vars, KeysReached
  <1> QED BY <1>2, <1>3, <1>4, <1>5, <1>6 DEF Next, Reads

\* No key is ever ahead of its forms.
LEMMA KeysInvariance == Spec => [](Inv /\ KeysReached)
  <1>1. Init => Inv /\ KeysReached
    BY InvInit DEF Init, KeysReached
  <1>2. Inv /\ KeysReached /\ [Next]_vars => (Inv /\ KeysReached)'
    BY InvStep, KeysStep
  <1> QED BY <1>1, <1>2, PTL DEF Spec

\* Only a return or a batch changes a status in a way that must be notified.
LEMMA HandoverWrite ==
  ASSUME Inv, [Next]_vars, NEW f \in Forms, forms'[f].status # forms[f].status,
         \/ forms'[f].status = "rejected"
         \/ \E v \in Handlers : Requested(v, "forward") /\ f \in Selected(v)
                                /\ pending'[v] = Idle
  PROVE  \E w \in Handlers : (Reject(w) \/ Forward(w)) /\ f \in Selected(w)
  <1>1. ASSUME NEW g \in Forms, Create(g) PROVE FALSE
    <2>1. pending' = pending /\ \A e \in Forms :
             forms'[e] = forms[e] \/ forms'[e].status = "draft"
      BY <1>1, NewFormStage DEF Create, Inv, TypeOK
    <2> QED BY <2>1 DEF Requested
  <1>2. ASSUME NEW w \in Handlers, Reads(w) \/ Fail(w) PROVE FALSE
    BY <1>2, ReadsStep, FailStep
  <1>3. ASSUME NEW h \in Semesters, Administer(h) PROVE FALSE
    BY <1>3, AdministerVersions
  <1>4. ASSUME NEW w \in Handlers, Write(w)
        PROVE  (Reject(w) \/ Forward(w)) /\ f \in Selected(w)
    <2>1. f \in Selected(w)
      BY <1>4, WriteStep
    <2>2. ASSUME ~Reject(w), ~Forward(w) PROVE FALSE
      <3>1. forms'[f].status # "rejected" /\ pending[w].op # "forward"
        BY <1>4, <2>2, OtherWrite
      <3>2. PICK v \in Handlers : Requested(v, "forward") /\ pending'[v] = Idle
        BY <3>1
      <3>3. v = w
        BY <1>4, <3>2, WriteVersions DEF Requested
      <3> QED BY <3>1, <3>2, <3>3 DEF Requested
    <2> QED BY <2>1, <2>2
  <1>5. CASE UNCHANGED vars
    BY <1>5 DEF vars
  <1> QED BY <1>1, <1>2, <1>3, <1>4, <1>5 DEF Next, Reads

\* In whatever round a form is returned or handed on, a notification is stored
\* that was not there: the version in the key is new.
THEOREM Notified == Spec => HandoverNotified
  <1> DEFINE Notifies == \A f \in Forms :
          LET returned  == forms'[f].status = "rejected"
              forwarded == \E w \in Handlers : /\ Requested(w, "forward")
                                               /\ f \in Selected(w)
                                               /\ pending'[w] = Idle
          IN forms'[f].status # forms[f].status /\ (returned \/ forwarded) =>
                \E k \in notices' \ notices, v \in 0..MaxVersion : <<f, v>> \in k.forms
  <1>1. Inv /\ KeysReached /\ [Next]_vars => [Notifies]_vars
    <2> SUFFICES ASSUME Inv, KeysReached, [Next]_vars, NEW f \in Forms,
                        forms'[f].status # forms[f].status,
                        \/ forms'[f].status = "rejected"
                        \/ \E v \in Handlers : /\ Requested(v, "forward")
                                               /\ f \in Selected(v)
                                               /\ pending'[v] = Idle
                 PROVE  \E k \in notices' \ notices, v \in 0..MaxVersion :
                           <<f, v>> \in k.forms
      OBVIOUS
    <2>1. PICK w \in Handlers : (Reject(w) \/ Forward(w)) /\ f \in Selected(w)
      BY HandoverWrite
    <2> QED BY <2>1, ReturnedKey, NewKey
  <1> QED BY <1>1, KeysInvariance, PTL DEF HandoverNotified, Spec

-----------------------------------------------------------------------------
(* Every step is a step of EvaluationLifecycle.                             *)

\* The rules of the two specifications are the same, spelled out.
LEMMA LifecycleRules ==
  /\ \A status : Lifecycle!Editable(status) <=> status \in {"draft", "rejected"}
  /\ Lifecycle!submit.target = "submitted"
  /\ Lifecycle!reject.target = "rejected"
  /\ Lifecycle!reject.from = {"submitted", "class_leader_approved", "faculty_approved"}
  /\ Lifecycle!reopen.target = "draft"
  /\ Lifecycle!reopen.from = Statuses \ {"draft"}
  /\ Lifecycle!finalize.target = "finalized"
  /\ Lifecycle!StageOf("classLeader").target = "class_leader_approved"
  /\ Lifecycle!StageOf("advisor").target = "class_approved"
  /\ Lifecycle!StageOf("faculty").target = "faculty_approved"
  /\ Lifecycle!StageOf("classLeader").from = {"submitted"}
  /\ Lifecycle!StageOf("advisor").from = {"class_leader_approved"}
  /\ Lifecycle!StageOf("faculty").from = {"class_approved"}
  /\ Lifecycle!StageOf("admin").from = {"faculty_approved"}
  <1> USE DEF Lifecycle!Transition, Lifecycle!submit, Lifecycle!classLeaderApproval,
              Lifecycle!advisorApproval, Lifecycle!facultyApproval,
              Lifecycle!finalize, Lifecycle!reject, Lifecycle!reopen
  <1>1. \A status : Lifecycle!Editable(status) <=> status \in {"draft", "rejected"}
    BY DEF Lifecycle!Editable, Lifecycle!CanTransition, Lifecycle!WorkflowTransitions
  <1>2. /\ Lifecycle!StageOf("classLeader") = Lifecycle!classLeaderApproval
        /\ Lifecycle!StageOf("advisor") = Lifecycle!advisorApproval
        /\ Lifecycle!StageOf("faculty") = Lifecycle!facultyApproval
        /\ Lifecycle!StageOf("admin") = Lifecycle!finalize
    BY DEF Lifecycle!StageOf
  <1>3. Lifecycle!reopen.from = Statuses \ {"draft"}
    BY DEF Lifecycle!Statuses, Statuses
  <1> QED BY <1>1, <1>2, <1>3

Columns == {"status", "locked", "work", "classScore", "finalScore", "signed"}

\* A card is known by its six columns.
LEMMA CardOf ==
  ASSUME NEW c, NEW r, c = [k \in Columns |-> c[k]],
         c.status = r.status, c.locked = r.locked,
         c.work = <<r.sections, r.evidence>>, c.classScore = r.classScore,
         c.finalScore = r.finalScore, c.signed = r.signed
  PROVE  c = Card(r)
  BY DEF Columns, Card

\* A student's change of sections or evidence.
LEMMA StudentChanges ==
  ASSUME NEW r, NEW s, r.status \in {"draft", "rejected"}, ~r.locked,
         s.status = r.status, s.locked = r.locked, s.classScore = r.classScore,
         s.finalScore = r.finalScore, s.signed = r.signed
  PROVE  Lifecycle!Student(Card(r), Card(s))
  <1> DEFINE c == [Card(r) EXCEPT !.work = Card(s).work]
  <1>1. c = [k \in Columns |-> c[k]]
    BY DEF Columns, Card
  <1>2. /\ c.status = s.status /\ c.locked = s.locked
        /\ c.work = <<s.sections, s.evidence>> /\ c.classScore = s.classScore
        /\ c.finalScore = s.finalScore /\ c.signed = s.signed
    BY DEF Card
  <1> HIDE DEF c
  <1>3. c = Card(s)
    BY <1>1, <1>2, CardOf
  <1>4. Card(s) = [Card(r) EXCEPT !.work = Card(s).work]
    BY <1>3 DEF c
  <1>5. Lifecycle!Editable(Card(r).status) /\ ~Card(r).locked
    BY LifecycleRules DEF Card
  <1> QED BY <1>4, <1>5 DEF Lifecycle!Student

\* What the lifecycle sees of a write that is not the student's.
Sees(r, s, status, classScore, finalScore, signed) ==
    /\ s.status = status /\ s.locked = r.locked
    /\ s.sections = r.sections /\ s.evidence = r.evidence
    /\ s.classScore = classScore /\ s.finalScore = finalScore /\ s.signed = signed

\* A submission, a return or a reopening begins a new round.
LEMMA RoundCard ==
  ASSUME NEW r, NEW s, NEW status, Sees(r, s, status, Null, Null, {})
  PROVE  Card(s) = Lifecycle!NewRound(Card(r), status)
  <1> DEFINE c == [Card(r) EXCEPT !.status = status, !.classScore = Null,
                                   !.finalScore = Null, !.signed = {}]
  <1>1. c = [k \in Columns |-> c[k]]
    BY DEF Columns, Card
  <1>2. /\ c.status = s.status /\ c.locked = s.locked
        /\ c.work = <<s.sections, s.evidence>> /\ c.classScore = s.classScore
        /\ c.finalScore = s.finalScore /\ c.signed = s.signed
    BY DEF Card, Sees
  <1> HIDE DEF c
  <1>3. c = Card(s)
    BY <1>1, <1>2, CardOf
  <1> QED BY <1>3 DEF c, Lifecycle!NewRound

\* Scoring and confirming.
LEMMA ReviewCard ==
  ASSUME NEW r, NEW s, NEW role, Lifecycle!At(role, Card(r)), ~r.locked,
         Sees(r, s, r.status, s.classScore, r.finalScore, s.signed),
         s.classScore # Null,
         s.signed \in {r.signed \ {role}, r.signed \cup {role}}
  PROVE  Lifecycle!Review(role, Card(r), Card(s))
  <1> DEFINE c == [Card(r) EXCEPT !.classScore = Card(s).classScore,
                                   !.signed = Card(s).signed]
  <1>1. c = [k \in Columns |-> c[k]]
    BY DEF Columns, Card
  <1>2. /\ c.status = s.status /\ c.locked = s.locked
        /\ c.work = <<s.sections, s.evidence>> /\ c.classScore = s.classScore
        /\ c.finalScore = s.finalScore /\ c.signed = s.signed
    BY DEF Card, Sees
  <1> HIDE DEF c
  <1>3. c = Card(s)
    BY <1>1, <1>2, CardOf
  <1>4. /\ Card(s).signed \in {Card(r).signed \ {role}, Card(r).signed \cup {role}}
        /\ Card(s).classScore # Null /\ ~Card(r).locked
    BY DEF Card
  <1>5. Card(s) = [Card(r) EXCEPT !.classScore = Card(s).classScore,
                                   !.signed = Card(s).signed]
    BY <1>3 DEF c
  <1> QED BY <1>4, <1>5 DEF Lifecycle!Review

\* An approval.
LEMMA ApproveCard ==
  ASSUME NEW r, NEW s, NEW role, Lifecycle!At(role, Card(r)),
         Sees(r, s, Lifecycle!StageOf(role).target,
              IF role = "advisor" THEN s.classScore ELSE r.classScore,
              r.finalScore, r.signed \cup {role}),
         role = "advisor" => s.classScore # Null
  PROVE  Lifecycle!Approve(role, Card(r), Card(s))
  <1> DEFINE target == Lifecycle!StageOf(role).target
             c == [Card(r) EXCEPT !.status = target,
                     !.classScore = IF role = "advisor" THEN Card(s).classScore ELSE @,
                     !.signed = @ \cup {role}]
  <1>1. c = [k \in Columns |-> c[k]]
    BY DEF Columns, Card
  <1>2. /\ c.status = s.status /\ c.locked = s.locked
        /\ c.work = <<s.sections, s.evidence>> /\ c.classScore = s.classScore
        /\ c.finalScore = s.finalScore /\ c.signed = s.signed
    BY DEF Card, Sees
  <1> HIDE DEF c
  <1>3. c = Card(s)
    BY <1>1, <1>2, CardOf
  <1>4. Card(s) = [Card(r) EXCEPT !.status = target,
                     !.classScore = IF role = "advisor" THEN Card(s).classScore ELSE @,
                     !.signed = @ \cup {role}]
    BY <1>3 DEF c
  <1>5. role = "advisor" => Card(s).classScore # Null
    BY DEF Card
  <1> QED BY <1>4, <1>5 DEF Lifecycle!Approve

\* A hand-over.
LEMMA ForwardCard ==
  ASSUME NEW r, NEW s, NEW role, Lifecycle!At(role, Card(r)), ~r.locked,
         role # "faculty" => role \in r.signed,
         role # "classLeader" => r.classScore # Null,
         Sees(r, s, Lifecycle!StageOf(role).target, r.classScore, r.finalScore, r.signed)
  PROVE  Lifecycle!Forward(role, Card(r), Card(s))
  <1> DEFINE target == Lifecycle!StageOf(role).target
             c == [Card(r) EXCEPT !.status = target]
  <1>1. c = [k \in Columns |-> c[k]]
    BY DEF Columns, Card
  <1>2. /\ c.status = s.status /\ c.locked = s.locked
        /\ c.work = <<s.sections, s.evidence>> /\ c.classScore = s.classScore
        /\ c.finalScore = s.finalScore /\ c.signed = s.signed
    BY DEF Card, Sees
  <1> HIDE DEF c
  <1>3. c = Card(s)
    BY <1>1, <1>2, CardOf
  <1>4. Card(s) = [Card(r) EXCEPT !.status = target]
    BY <1>3 DEF c
  <1>5. /\ role # "faculty" => role \in Card(r).signed
        /\ role # "classLeader" => Card(r).classScore # Null
        /\ ~Card(r).locked
    BY DEF Card
  <1> QED BY <1>4, <1>5 DEF Lifecycle!Forward

\* A finalization.
LEMMA FinalizeCard ==
  ASSUME NEW r, NEW s, Lifecycle!At("admin", Card(r)), r.classScore # Null,
         Sees(r, s, Lifecycle!finalize.target, r.classScore, s.finalScore,
              r.signed \cup {"admin"}),
         s.finalScore # Null
  PROVE  Lifecycle!Finalize(Card(r), Card(s))
  <1> DEFINE target == Lifecycle!finalize.target
             c == [Card(r) EXCEPT !.status = target, !.finalScore = Card(s).finalScore,
                                   !.signed = @ \cup {"admin"}]
  <1>1. c = [k \in Columns |-> c[k]]
    BY DEF Columns, Card
  <1>2. /\ c.status = s.status /\ c.locked = s.locked
        /\ c.work = <<s.sections, s.evidence>> /\ c.classScore = s.classScore
        /\ c.finalScore = s.finalScore /\ c.signed = s.signed
    BY DEF Card, Sees
  <1> HIDE DEF c
  <1>3. c = Card(s)
    BY <1>1, <1>2, CardOf
  <1>4. Card(s) = [Card(r) EXCEPT !.status = target, !.finalScore = Card(s).finalScore,
                                   !.signed = @ \cup {"admin"}]
    BY <1>3 DEF c
  <1>5. Card(r).classScore # Null /\ Card(s).finalScore # Null
    BY DEF Card
  <1> QED BY <1>4, <1>5 DEF Lifecycle!Finalize

\* The student's writes.
LEMMA EditSteps ==
  ASSUME Inv, NEW w \in Handlers, NEW f \in Selected(w),
         UpdateSection(w) \/ UpdateDraft(w) \/ LinkEvidence(w) \/ RemoveEvidence(w)
           \/ Submit(w)
  PROVE  Lifecycle!Student(Card(forms[f]), Card(forms'[f]))
  <1>1. /\ pending[w] # Idle /\ pending[w].op = "edit" /\ Write(w)
        /\ \E rows : CompareAndSwap(w, rows)
    BY DEF UpdateSection, UpdateDraft, LinkEvidence, RemoveEvidence, Submit, Requested,
           Write
  <1>2. /\ f \in Forms /\ forms[f] \in Row /\ forms'[f] \in Row
        /\ forms[f].status \in {"draft", "rejected"} /\ ~forms[f].locked
        /\ forms'[f].locked = forms[f].locked
    BY <1>1, EditRequest, RequestType, WriteStep DEF Inv, Becomes
  <1> USE <1>2 DEF CompareAndSwap, Row
  <1> DEFINE Kept == /\ forms'[f].status = forms[f].status
                     /\ forms'[f].classScore = forms[f].classScore
                     /\ forms'[f].finalScore = forms[f].finalScore
                     /\ forms'[f].signed = forms[f].signed
  <1>3. ASSUME Kept PROVE Lifecycle!Student(Card(forms[f]), Card(forms'[f]))
    BY <1>3, StudentChanges
  <1>4. CASE UpdateSection(w)
    <2> DEFINE total(g, s, p) ==
                 StudentTotal([Snap(w)[g].sections EXCEPT ![s] = p])
    <2>1. PICK s \in Sections, p \in SectionPoints :
             CompareAndSwap(w, [g \in Selected(w) |->
                [forms[g] EXCEPT !.sections[s] = p, !.studentScore = total(g, s, p),
                                 !.rank = Classify(total(g, s, p))]])
      BY <1>4 DEF UpdateSection
    <2>2. forms'[f] = [[forms[f] EXCEPT !.sections[s] = p,
                                        !.studentScore = total(f, s, p),
                                        !.rank = Classify(total(f, s, p))]
                         EXCEPT !.version = @ + 1]
      BY <2>1
    <2> HIDE DEF total
    <2>3. Kept
      BY <2>2
    <2> QED BY <1>3, <2>3
  <1>5. CASE UpdateDraft(w)
    BY <1>3, <1>5 DEF UpdateDraft
  <1>6. CASE LinkEvidence(w)
    <2>1. PICK e \in Evidence :
             forms'[f] = [[forms[f] EXCEPT !.evidence = @ \cup {e}]
                            EXCEPT !.version = @ + 1]
      BY <1>6 DEF LinkEvidence
    <2>2. Kept
      BY <2>1
    <2> QED BY <1>3, <2>2
  <1>7. CASE RemoveEvidence(w)
    <2>1. PICK e \in Evidence :
             forms'[f] = [[forms[f] EXCEPT !.evidence = @ \ {e}]
                            EXCEPT !.version = @ + 1]
      BY <1>7 DEF RemoveEvidence
    <2>2. Kept
      BY <2>1
    <2> QED BY <1>3, <2>2
  <1>8. CASE Submit(w)
    <2> DEFINE total == StudentTotal(Snap(w)[f].sections)
    <2>1. forms'[f] = [[ClearReview(forms[f], submit.target) EXCEPT
                          !.studentScore = total, !.rank = Classify(total),
                          !.sheet = NoSheet] EXCEPT !.version = @ + 1]
      BY <1>8 DEF Submit
    <2> HIDE DEF total
    <2>2. Sees(forms[f], forms'[f], "submitted", Null, Null, {})
      <3> DEFINE cleared == ClearReview(forms[f], submit.target)
      <3>1. Sees(forms[f], cleared, "submitted", Null, Null, {}) /\ cleared \in Row
        <4>1. submit.target = "submitted" /\ "submitted" \in Statuses
          BY TargetType DEF Statuses
        <4> QED BY <4>1 DEF ClearReview, Sees, Row
      <3>2. forms'[f] = [[cleared EXCEPT !.studentScore = total, !.rank = Classify(total),
                                         !.sheet = NoSheet] EXCEPT !.version = @ + 1]
        BY <2>1
      <3> HIDE DEF cleared
      <3> QED BY <3>1, <3>2 DEF Sees, Row
    <2>4. Card(forms'[f]) = Lifecycle!NewRound(Card(forms[f]), "submitted")
      BY <2>2, RoundCard
    <2>3. Lifecycle!Editable(Card(forms[f]).status) /\ ~Card(forms[f]).locked
      BY LifecycleRules DEF Card
    <2> QED BY <2>3, <2>4, LifecycleRules DEF Lifecycle!Student
  <1> QED BY <1>4, <1>5, <1>6, <1>7, <1>8

\* A card stands where its row does.
LEMMA AtStage ==
  ASSUME NEW r
  PROVE  /\ r.status = "submitted" => Lifecycle!At("classLeader", Card(r))
         /\ r.status = "class_leader_approved" => Lifecycle!At("advisor", Card(r))
         /\ r.status = "class_approved" => Lifecycle!At("faculty", Card(r))
         /\ r.status = "faculty_approved" => Lifecycle!At("admin", Card(r))
  BY LifecycleRules DEF Lifecycle!At, Card

\* The reviewers' scores and marks: the lock they saw open is still open.
LEMMA ReviewSteps ==
  ASSUME Inv, NEW w \in Handlers, NEW f \in Selected(w),
         ReviewScores(w) \/ ConfirmReview(w) \/ ConfirmWithScores(w)
  PROVE  Lifecycle!FormStep(Card(forms[f]), Card(forms'[f]))
  <1> DEFINE role == pending[w].by
  <1>1. /\ pending[w] # Idle /\ pending[w].op = "review"
        /\ \E rows : CompareAndSwap(w, rows)
    BY DEF ReviewScores, ConfirmReview, ConfirmWithScores, Requested
  <1>2. /\ f \in Forms /\ forms[f] \in Row /\ Snap(w)[f] = forms[f]
        /\ \/ role = "classLeader" /\ forms[f].status = "submitted"
           \/ role = "advisor" /\ forms[f].status = "class_leader_approved"
    BY <1>1, ReviewerRequest, RequestType DEF Inv
  <1>3. ~forms[f].locked
    <2>1. Allowed("review", role, forms[f])
      BY <1>1, FreshRequest DEF CompareAndSwap
    <2> QED BY <2>1 DEF Allowed
  <1>4. role \in {"classLeader", "advisor"} /\ Lifecycle!At(role, Card(forms[f]))
    BY <1>2, AtStage
  <1> USE <1>2 DEF CompareAndSwap, Row
  <1> HIDE DEF role
  <1>5. /\ Sees(forms[f], forms'[f], forms[f].status, forms'[f].classScore,
                forms[f].finalScore, forms'[f].signed)
        /\ forms'[f].classScore # Null
        /\ forms'[f].signed \in {forms[f].signed \ {role}, forms[f].signed \cup {role}}
    <2>1. CASE ReviewScores(w)
      <3>1. PICK given \in GivenScores :
               forms'[f] = [WithScores(forms[f], role, given) EXCEPT !.version = @ + 1]
        BY <2>1 DEF ReviewScores, role
      <3> QED BY <3>1, ScoredKeeps DEF Sees
    <2>2. CASE ConfirmReview(w)
      <3>1. /\ forms[f].classScore # Null
            /\ forms'[f] = [Confirmed(forms[f], role, forms[f].classScore)
                              EXCEPT !.version = @ + 1]
        BY <2>2 DEF ConfirmReview, role
      <3> QED BY <3>1 DEF Confirmed, Sees
    <2>3. CASE ConfirmWithScores(w)
      <3>1. PICK given \in GivenScores :
               LET scored == WithScores(forms[f], role, given)
               IN  forms'[f] = [[Confirmed(scored, role, scored.classScore)
                                   EXCEPT !.version = @ + 1] EXCEPT !.version = @ + 1]
        BY <2>3 DEF ConfirmWithScores, role
      <3> DEFINE scored == WithScores(forms[f], role, given)
      <3>2. /\ scored \in Row /\ scored.status = forms[f].status
            /\ scored.classScore # Null /\ scored.signed = forms[f].signed \ {role}
            /\ scored.locked = forms[f].locked /\ scored.sections = forms[f].sections
            /\ scored.evidence = forms[f].evidence
            /\ scored.finalScore = forms[f].finalScore
        BY ScoredKeeps
      <3>3. forms'[f] = [[Confirmed(scored, role, scored.classScore)
                            EXCEPT !.version = @ + 1] EXCEPT !.version = @ + 1]
        BY <3>1
      <3> HIDE DEF scored
      <3> QED BY <3>2, <3>3 DEF Confirmed, Sees
    <2> QED BY <2>1, <2>2, <2>3
  <1>6. Lifecycle!Review(role, Card(forms[f]), Card(forms'[f]))
    BY <1>3, <1>4, <1>5, ReviewCard
  <1> QED BY <1>4, <1>6 DEF Lifecycle!FormStep

\* Approvals.
LEMMA ApproveSteps ==
  ASSUME Inv, NEW w \in Handlers, NEW f \in Selected(w),
         ApproveByLeader(w) \/ ApproveByAdvisor(w)
  PROVE  Lifecycle!FormStep(Card(forms[f]), Card(forms'[f]))
  <1> DEFINE role == pending[w].by
  <1>1. /\ pending[w] # Idle /\ pending[w].op = "decide"
        /\ \E rows : CompareAndSwap(w, rows)
    BY DEF ApproveByLeader, ApproveByAdvisor, Requested
  <1>2. /\ f \in Forms /\ forms[f] \in Row
        /\ \/ role = "classLeader" /\ forms[f].status = "submitted"
           \/ role = "advisor" /\ forms[f].status = "class_leader_approved"
           \/ role = "admin"
    BY <1>1, ReviewerRequest, RequestType DEF Inv
  <1> USE <1>2 DEF CompareAndSwap, Row
  <1> HIDE DEF role
  <1>3. CASE ApproveByLeader(w)
    <2>1. Lifecycle!At("classLeader", Card(forms[f]))
      BY <1>3, AtStage DEF ApproveByLeader, role
    <2>2. forms'[f] = [[forms[f] EXCEPT !.status = classLeaderApproval.target,
                          !.signed = @ \cup {"classLeader"}] EXCEPT !.version = @ + 1]
      BY <1>3 DEF ApproveByLeader
    <2>3. Sees(forms[f], forms'[f], "class_leader_approved", forms[f].classScore,
               forms[f].finalScore, forms[f].signed \cup {"classLeader"})
      BY <2>2, TargetType DEF Sees
    <2>4. Lifecycle!Approve("classLeader", Card(forms[f]), Card(forms'[f]))
      BY <2>1, <2>3, ApproveCard, LifecycleRules
    <2> QED BY <2>4 DEF Lifecycle!FormStep
  <1>4. CASE ApproveByAdvisor(w)
    <2>1. Lifecycle!At("advisor", Card(forms[f]))
      BY <1>4, AtStage DEF ApproveByAdvisor, role
    <2>2. PICK score \in DirectScores :
            forms'[f] = [[forms[f] EXCEPT !.status = advisorApproval.target,
                                !.classScore = score, !.rank = Classify(score),
                                !.signed = @ \cup {"advisor"}] EXCEPT !.version = @ + 1]
      BY <1>4 DEF ApproveByAdvisor
    <2>3. score # Null
      BY ScoreNotNull DEF ClassScores
    <2>4. /\ Sees(forms[f], forms'[f], "class_approved", forms'[f].classScore,
                  forms[f].finalScore, forms[f].signed \cup {"advisor"})
          /\ forms'[f].classScore # Null
      BY <2>2, <2>3, TargetType DEF Sees
    <2>5. Lifecycle!Approve("advisor", Card(forms[f]), Card(forms'[f]))
      BY <2>1, <2>4, ApproveCard, LifecycleRules
    <2> QED BY <2>5 DEF Lifecycle!FormStep
  <1> QED BY <1>3, <1>4

\* Batches.
LEMMA ForwardSteps ==
  ASSUME Inv, NEW w \in Handlers, NEW f \in Selected(w), Forward(w)
  PROVE  Lifecycle!FormStep(Card(forms[f]), Card(forms'[f]))
  <1> DEFINE role == pending[w].by
             target == StageOf(role).target
  <1>1. /\ pending[w] # Idle /\ pending[w].op = "forward"
        /\ \E rows : CompareAndSwap(w, rows)
    BY DEF Forward, Requested
  <1>2. /\ f \in Forms /\ forms[f] \in Row /\ Snap(w)[f] = forms[f]
        /\ role \in {"classLeader", "advisor", "faculty"}
        /\ Forwardable(role, forms[f])
    <2>1. Allowed("forward", role, forms[f]) /\ f \in Forms /\ forms[f] \in Row
          /\ Snap(w)[f] = forms[f]
      BY <1>1, FreshRequest DEF CompareAndSwap
    <2> QED BY <2>1 DEF Allowed
  <1>3. /\ role = "classLeader" => /\ target = "class_leader_approved"
                                   /\ forms[f].status = "submitted"
        /\ role = "advisor" => /\ target = "class_approved"
                               /\ forms[f].status = "class_leader_approved"
        /\ role = "faculty" => /\ target = "faculty_approved"
                               /\ forms[f].status = "class_approved"
    BY <1>2, StageTargets DEF Forwardable
  <1>4. target = Lifecycle!StageOf(role).target /\ Lifecycle!At(role, Card(forms[f]))
    BY <1>2, <1>3, LifecycleRules, AtStage
  <1>5. \E rank : forms'[f] = [[forms[f] EXCEPT !.status = target, !.rank = rank]
                                 EXCEPT !.version = @ + 1]
    BY <1>2 DEF Forward, CompareAndSwap
  <1> HIDE DEF role, target
  <1>6. Sees(forms[f], forms'[f], target, forms[f].classScore, forms[f].finalScore,
             forms[f].signed)
    BY <1>2, <1>5 DEF Sees, Row
  <1>7. Lifecycle!Forward(role, Card(forms[f]), Card(forms'[f]))
    BY <1>2, <1>4, <1>6, ForwardCard DEF Forwardable
  <1> QED BY <1>2, <1>7 DEF Lifecycle!FormStep

\* The academy's decisions: a form of the faculty always has its score.
LEMMA FinalizeSteps ==
  ASSUME Inv, NEW w \in Handlers, NEW f \in Selected(w),
         Finalize(w) \/ FinalizeBatch(w) \/ ApproveByAdmin(w)
  PROVE  Lifecycle!FormStep(Card(forms[f]), Card(forms'[f]))
  <1>1. /\ pending[w] # Idle
        /\ \/ pending[w].op \in {"finalize", "finalizeBatch"}
           \/ pending[w].op = "decide" /\ pending[w].by = "admin"
        /\ \E rows : CompareAndSwap(w, rows)
    BY DEF Finalize, FinalizeBatch, ApproveByAdmin, Requested
  <1>2. /\ f \in Forms /\ forms[f] \in Row /\ Snap(w)[f] = forms[f]
        /\ StageOK(forms[f]) /\ forms[f].status = "faculty_approved"
    BY <1>1, ReviewerRequest, RequestType DEF Inv
  <1>3. forms[f].classScore # Null
    BY <1>2, StageMeaning
  <1>4. PICK score : /\ score # Null
                     /\ forms'[f] = [Finalized(forms[f], score) EXCEPT !.version = @ + 1]
    <2>1. CASE Finalize(w)
      BY <1>2, <2>1 DEF Finalize, CompareAndSwap
    <2>2. CASE FinalizeBatch(w)
      BY <1>2, <1>3, <2>2 DEF FinalizeBatch, CompareAndSwap
    <2>3. CASE ApproveByAdmin(w)
      BY <1>2, <1>3, <2>3 DEF ApproveByAdmin, CompareAndSwap
    <2> QED BY <2>1, <2>2, <2>3
  <1>5. /\ Sees(forms[f], forms'[f], "finalized", forms[f].classScore,
                forms'[f].finalScore, forms[f].signed \cup {"admin"})
        /\ forms'[f].finalScore # Null
    BY <1>2, <1>4, TargetType DEF Finalized, Sees, Row
  <1>6. Lifecycle!Finalize(Card(forms[f]), Card(forms'[f]))
    BY <1>2, <1>3, <1>5, FinalizeCard, AtStage, LifecycleRules
  <1> QED BY <1>6 DEF Lifecycle!FormStep

\* Returns and reopenings.
LEMMA ReturnSteps ==
  ASSUME Inv, NEW w \in Handlers, NEW f \in Selected(w), Reject(w) \/ Reopen(w)
  PROVE  Lifecycle!FormStep(Card(forms[f]), Card(forms'[f]))
  <1>1. /\ pending[w] # Idle /\ \E rows : CompareAndSwap(w, rows)
        /\ Reject(w) => pending[w].op = "decide"
        /\ Reopen(w) => pending[w].op = "reopen"
    BY DEF Reject, Reopen, Requested
  <1>2. /\ f \in Forms /\ forms[f] \in Row /\ forms[f].status # "none"
        /\ Allowed(pending[w].op, pending[w].by, forms[f])
    BY <1>1, FreshRequest DEF CompareAndSwap
  <1>3. Card(forms[f]).status = forms[f].status
    BY DEF Card
  <1>6. pending[w].op = "decide" => forms[f].status \in
             {"submitted", "class_leader_approved", "faculty_approved"}
    BY <1>1, ReviewerRequest
  <1> USE <1>2 DEF CompareAndSwap, Row
  <1>4. CASE Reject(w)
    <2>1. forms'[f] = [[ClearReview(forms[f], reject.target) EXCEPT !.sheet = NoSheet]
                         EXCEPT !.version = @ + 1]
      BY <1>4 DEF Reject
    <2>2. Sees(forms[f], forms'[f], "rejected", Null, Null, {})
      BY <2>1, TargetType DEF ClearReview, Sees
    <2>3. Card(forms'[f]) = Lifecycle!NewRound(Card(forms[f]), "rejected")
      BY <2>2, RoundCard
    <2>4. forms[f].status \in {"submitted", "class_leader_approved", "faculty_approved"}
      BY <1>1, <1>4, <1>6
    <2>5. Lifecycle!Return(Card(forms[f]), Card(forms'[f]))
      BY <1>3, <2>3, <2>4, LifecycleRules DEF Lifecycle!Return
    <2> QED BY <1>3, <2>5 DEF Lifecycle!FormStep
  <1>5. CASE Reopen(w)
    <2>1. forms'[f] = [ClearReview(forms[f], reopen.target) EXCEPT !.version = @ + 1]
      BY <1>5 DEF Reopen
    <2>2. Sees(forms[f], forms'[f], "draft", Null, Null, {})
      BY <2>1, TargetType DEF ClearReview, Sees
    <2>3. Card(forms'[f]) = Lifecycle!NewRound(Card(forms[f]), "draft")
      BY <2>2, RoundCard
    <2>4. forms[f].status \in Statuses \ {"draft"}
      BY <1>1, <1>5 DEF Allowed, reopen, Transition
    <2>5. Lifecycle!Return(Card(forms[f]), Card(forms'[f]))
      BY <1>3, <2>3, <2>4, LifecycleRules DEF Lifecycle!Return
    <2> QED BY <1>3, <2>5 DEF Lifecycle!FormStep
  <1> QED BY <1>4, <1>5

\* Whatever is committed, every form of the request makes a step it allows.
LEMMA FormSteps ==
  ASSUME Inv, NEW w \in Handlers, NEW f \in Selected(w), Write(w)
  PROVE  Lifecycle!FormStep(Card(forms[f]), Card(forms'[f]))
  <1>1. CASE UpdateSection(w) \/ UpdateDraft(w) \/ LinkEvidence(w) \/ RemoveEvidence(w)
               \/ Submit(w)
    BY <1>1, EditSteps DEF Lifecycle!FormStep
  <1>2. CASE ReviewScores(w) \/ ConfirmReview(w) \/ ConfirmWithScores(w)
    BY <1>2, ReviewSteps
  <1>3. CASE ApproveByLeader(w) \/ ApproveByAdvisor(w)
    BY <1>3, ApproveSteps
  <1>4. CASE Finalize(w) \/ FinalizeBatch(w) \/ ApproveByAdmin(w)
    BY <1>4, FinalizeSteps
  <1>5. CASE Reject(w) \/ Reopen(w)
    BY <1>5, ReturnSteps
  <1>6. CASE Forward(w)
    BY <1>6, ForwardSteps
  <1> QED BY <1>1, <1>2, <1>3, <1>4, <1>5, <1>6 DEF Write

\* A write of the workflow is work on its forms, all at once.
LEMMA WorkStep ==
  ASSUME Inv, NEW w \in Handlers, Write(w)
  PROVE  Lifecycle!Work
  <1>1. \A f \in Forms : \/ Card(forms'[f]) = Card(forms[f])
                         \/ Lifecycle!FormStep(Card(forms[f]), Card(forms'[f]))
    BY WriteStep, FormSteps
  <1>2. UNCHANGED semesters
    BY WriteLands DEF Lands, CompareAndSwap
  <1> QED BY <1>1, <1>2 DEF Lifecycle!Work, IsOpen

\* A new form is a blank one.
LEMMA CreateStepMaps ==
  ASSUME Inv, NEW f \in Forms, Create(f)
  PROVE  Lifecycle!Create(f)
  <1>1. /\ forms[f].status = "none" /\ forms' = [forms EXCEPT ![f] = NewForm]
        /\ UNCHANGED semesters
    BY DEF Create, Exists
  <1>2. Card(NewForm) = Lifecycle!Blank
    BY DEF Card, NewForm, NoForm, Lifecycle!Blank
  <1>3. \A g \in Forms : Card(forms'[g]) = IF g = f THEN Lifecycle!Blank ELSE Card(forms[g])
    BY <1>1, <1>2 DEF Inv, TypeOK
  <1>4. Card(forms[f]).status = "none"
    BY <1>1 DEF Card
  <1> QED BY <1>1, <1>3, <1>4 DEF Lifecycle!Create, IsOpen

\* A card that differs from another in its lock.
Relocked(c, locked) == [c EXCEPT !.locked = locked]

LEMMA SetLockCard ==
  ASSUME NEW r \in Row, NEW locked \in BOOLEAN
  PROVE  \/ Card(SetLock(r, locked)) = Card(r)
         \/ Card(SetLock(r, locked)) = Relocked(Card(r), locked)
  <1>1. CASE r.status = "none" \/ r.locked = locked
    BY <1>1 DEF SetLock
  <1>2. CASE ~(r.status = "none" \/ r.locked = locked)
    <2>1. SetLock(r, locked) = [r EXCEPT !.locked = locked, !.version = @ + 1]
      BY <1>2 DEF SetLock
    <2>2. Card(SetLock(r, locked)) = Relocked(Card(r), locked)
      BY <2>1 DEF Card, Relocked, Row
    <2> QED BY <2>2
  <1> QED BY <1>1, <1>2

\* What a transaction of semester administration does to the forms and to the
\* open semesters.
LEMMA SwitchFacts ==
  ASSUME Inv, NEW h \in Semesters, Administer(h), NEW f \in Forms
  PROVE  /\ \/ forms'[f] = forms[f]
            \/ forms'[f] = SetLock(forms[f], semesters'[SemesterOf[f]] # "open")
         /\ semesters[SemesterOf[f]] = "open" /\ semesters'[SemesterOf[f]] # "open" =>
              forms'[f] = SetLock(forms[f], TRUE)
  <1>1. PICK active \in BOOLEAN : \/ CreateSemester(h, active)
                                 \/ ToggleActive(h, active)
    BY DEF Administer, UpdateSemester
  <1>2. SemesterOf[f] \in Semesters
    BY SemesterAssumption
  <1>3. CASE CreateSemester(h, active)
    <2>1. CASE active
      BY <1>2, <1>3, <2>1
         DEF CreateSemester, SwitchForms, Deactivate, OthersOpen, IsOpen
    <2>2. CASE ~active
      BY <1>2, <1>3, <2>2
         DEF CreateSemester, SwitchForms, Deactivate, OthersOpen, IsOpen
    <2> QED BY <2>1, <2>2
  <1>4. CASE ToggleActive(h, active)
    <2>1. CASE active
      BY <1>2, <1>4, <2>1
         DEF ToggleActive, SwitchForms, Deactivate, OthersOpen, IsOpen
    <2>2. CASE ~active
      BY <1>2, <1>4, <2>2
         DEF ToggleActive, SwitchForms, Deactivate, OthersOpen, IsOpen
    <2> QED BY <2>1, <2>2
  <1> QED BY <1>1, <1>3, <1>4

\* Locks follow the semesters.
LEMMA SwitchMaps ==
  ASSUME Inv, Inv', NEW h \in Semesters, Administer(h)
  PROVE  Lifecycle!Switch
  <1> DEFINE open == {g \in Semesters : IsOpen(g)}
  <1>1. ASSUME NEW f \in Forms
        PROVE  /\ \/ Card(forms'[f]) = Card(forms[f])
                  \/ Card(forms'[f]) = Relocked(Card(forms[f]), SemesterOf[f] \notin open')
               /\ Card(forms[f]).status # "none" =>
                     /\ SemesterOf[f] \in open' => ~Card(forms'[f]).locked
                     /\ SemesterOf[f] \in open \ open' => Card(forms'[f]).locked
    <2>1. /\ SemesterOf[f] \in open <=> semesters[SemesterOf[f]] = "open"
          /\ SemesterOf[f] \in open' <=> semesters'[SemesterOf[f]] = "open"
      BY SemesterAssumption DEF IsOpen
    <2>2. forms[f] \in Row /\ StageOK(forms[f])
      BY DEF Inv, TypeOK
    <2>3. /\ Card(forms[f]).status = forms[f].status
          /\ Card(forms'[f]).locked = forms'[f].locked
      BY DEF Card
    <2>4. \/ Card(forms'[f]) = Card(forms[f])
          \/ Card(forms'[f]) = Relocked(Card(forms[f]), SemesterOf[f] \notin open')
      <3> HIDE DEF open
      <3>1. \/ forms'[f] = forms[f]
            \/ forms'[f] = SetLock(forms[f], SemesterOf[f] \notin open')
        <4>1. (semesters'[SemesterOf[f]] # "open") = (SemesterOf[f] \notin open')
          BY <2>1
        <4> QED BY <4>1, SwitchFacts
      <3> QED BY <2>2, <3>1, SetLockCard
    <2>5. ASSUME forms[f].status # "none"
          PROVE  /\ SemesterOf[f] \in open' => ~forms'[f].locked
                 /\ SemesterOf[f] \in open \ open' => forms'[f].locked
      <3>1. ASSUME SemesterOf[f] \in open' PROVE ~forms'[f].locked
        <4>1. forms'[f].status # "none"
          BY <2>5, AdministerVersions
        <4> QED BY <2>1, <3>1, <4>1 DEF Inv, OpenSemesterUnlocked, Exists, IsOpen
      <3>2. ASSUME SemesterOf[f] \in open \ open' PROVE forms'[f].locked
        <4>1. forms'[f] = SetLock(forms[f], TRUE)
          BY <2>1, <3>2, SwitchFacts
        <4> QED BY <2>2, <2>5, <4>1, SetLockRow
      <3> QED BY <3>1, <3>2
    <2> QED BY <2>3, <2>4, <2>5
  <1> QED BY <1>1 DEF Lifecycle!Switch, Relocked

\* Nothing exists and no semester is open.
LEMMA InitMaps == Init => Lifecycle!Init
  <1> SUFFICES ASSUME Init PROVE Lifecycle!Init
    OBVIOUS
  <1> DEFINE c == [Lifecycle!Blank EXCEPT !.status = "none"]
  <1>1. c = Card(NoForm)
    <2>1. c = [k \in Columns |-> c[k]]
      BY DEF Columns, Lifecycle!Blank
    <2>2. /\ c.status = NoForm.status /\ c.locked = NoForm.locked
          /\ c.work = <<NoForm.sections, NoForm.evidence>>
          /\ c.classScore = NoForm.classScore /\ c.finalScore = NoForm.finalScore
          /\ c.signed = NoForm.signed
      BY DEF NoForm, Lifecycle!Blank
    <2> QED BY <2>1, <2>2, CardOf
  <1>2. \A h \in Semesters : ~IsOpen(h)
    BY DEF Init, IsOpen
  <1>3. forms = [f \in Forms |-> NoForm]
    BY DEF Init
  <1> QED BY <1>1, <1>2, <1>3 DEF Lifecycle!Init

LEMMA NextMaps == Inv /\ Inv' /\ [Next]_vars =>
    [Lifecycle!Next]_<<[f \in Forms |-> Card(forms[f])],
                       {h \in Semesters : IsOpen(h)}>>
  <1> SUFFICES ASSUME Inv, Inv', [Next]_vars
               PROVE  \/ Lifecycle!Next
                      \/ UNCHANGED <<[f \in Forms |-> Card(forms[f])],
                                     {h \in Semesters : IsOpen(h)}>>
    OBVIOUS
  <1>1. ASSUME NEW f \in Forms, Create(f) PROVE Lifecycle!Next
    BY <1>1, CreateStepMaps DEF Lifecycle!Next
  <1>2. ASSUME NEW w \in Handlers, Write(w) PROVE Lifecycle!Next
    BY <1>2, WorkStep DEF Lifecycle!Next
  <1>3. ASSUME NEW h \in Semesters, Administer(h) PROVE Lifecycle!Next
    BY <1>3, SwitchMaps DEF Lifecycle!Next
  <1>4. ASSUME forms' = forms, semesters' = semesters
        PROVE  UNCHANGED <<[f \in Forms |-> Card(forms[f])],
                           {h \in Semesters : IsOpen(h)}>>
    BY <1>4 DEF IsOpen
  <1>5. ASSUME NEW w \in Handlers, Reads(w) \/ Fail(w)
        PROVE  forms' = forms /\ semesters' = semesters
    BY <1>5 DEF Reads, ReadOne, SubmitClassToAdvisor, SubmitClassToFaculty, ReadClass,
                SubmitFacultyToTrainingDepartment, ReadFinalizeBatch, Read, Fail
  <1> QED BY <1>1, <1>2, <1>3, <1>4, <1>5 DEF Next, Reads, vars

\* The two-step requests, with everything that may happen between reading and
\* writing, do only what an atomic request could have done to each form.
THEOREM Refinement == Spec => ImplementsLifecycle
  <1>1. Init => Lifecycle!Init
    BY InitMaps
  <1>2. Inv /\ Inv' /\ [Next]_vars =>
          [Lifecycle!Next]_<<[f \in Forms |-> Card(forms[f])],
                             {h \in Semesters : IsOpen(h)}>>
    BY NextMaps
  <1> QED BY <1>1, <1>2, Invariance, PTL DEF Spec, ImplementsLifecycle, Lifecycle!Spec

=============================================================================
