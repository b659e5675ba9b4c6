---------------------- MODULE EvaluationWorkflow_proofs ----------------------
(***************************************************************************)
(* Proofs about EvaluationWorkflow, for any number of forms, requests,      *)
(* semesters and scores.                                                    *)
(***************************************************************************)
EXTENDS EvaluationWorkflow, EvaluationDomain_proofs

-----------------------------------------------------------------------------
(* Types of the score rules and of the rows they give.                      *)

\* A score always has a classification.
LEMMA ClassifyType == ASSUME NEW score PROVE Classify(score) \in Ranks
  BY DEF Classify, Ranks

\* The target of every transition is a status.
LEMMA TargetType ==
  /\ submit.target = "submitted" /\ reject.target = "rejected"
  /\ reopen.target = "draft" /\ finalize.target = "finalized"
  /\ classLeaderApproval.target = "class_leader_approved"
  /\ advisorApproval.target = "class_approved"
  /\ facultyApproval.target = "faculty_approved"
  BY DEF submit, reject, reopen, finalize, classLeaderApproval,
         advisorApproval, facultyApproval, Transition

\* What each role decides on, spelled out.
LEMMA StageTargets ==
  /\ StageOf("classLeader").target = "class_leader_approved"
  /\ StageOf("advisor").target = "class_approved"
  /\ StageOf("faculty").target = "faculty_approved"
  /\ StageOf("admin").target = "finalized"
  /\ StageOf("classLeader").from = {"submitted"}
  /\ StageOf("advisor").from = {"class_leader_approved"}
  /\ StageOf("faculty").from = {"class_approved"}
  /\ StageOf("admin").from = {"faculty_approved"}
  BY DEF StageOf, finalize, classLeaderApproval, advisorApproval,
         facultyApproval, Transition


\* A total of a student's sections, and one of a reviewers' sheet, is on the
\* scale of 0 to 100, so in particular it is a number.
LEMMA TotalsType ==
  StudentTotals \subseteq 0..100 /\ ClassScores \subseteq 0..100 /\ FinalScores \subseteq 0..100
  <1>1. ASSUME NEW x \in SectionSheets PROVE StudentTotal(x) \in 0..100
    BY FormAssumption, PointsAssumption, StudentTotalOnScale DEF SectionSheets
  <1>2. ASSUME NEW x \in CriteriaSheets PROVE SheetTotal(x) \in 0..100
    <2>1. /\ DOMAIN x = Criteria /\ IsFiniteSet(Criteria)
          /\ \A c \in Criteria : x[c] \in Nat \cup {Null}
          /\ \A c \in Scored(x) : x[c] <= MaxScore[c]
      BY FormAssumption, PointsAssumption DEF CriteriaSheets, WithinMaxima
    <2>2. SheetTotal(x) <= SumFunction(MaxScore)
      BY <2>1, ScaleAssumption, SheetWithinMaxima
    <2>3. SheetTotal(x) \in Nat
      BY <2>1, SheetTotalType
    <2>4. SumFunction(MaxScore) \in Nat
      BY <2>1, ScaleAssumption, SumType DEF SumFunction
    <2> QED BY <2>2, <2>3, <2>4, ScaleAssumption
  <1>3. StudentTotals \subseteq 0..100
    BY <1>1 DEF StudentTotals
  <1>4. ClassScores \subseteq 0..100
    BY <1>2, PointsAssumption DEF ClassScores
  <1> QED BY <1>3, <1>4 DEF FinalScores

LEMMA PointsAreNumbers == \A p \in CriterionPoints : p # Null
  <1>1. CriterionPoints \subseteq Int
    BY PointsAssumption
  <1> QED BY <1>1, NullAssumption

LEMMA ScoreNotNull == Null \notin ClassScores
  <1>1. 0..100 \subseteq Int
    OBVIOUS
  <1> QED BY <1>1, TotalsType, NullAssumption

LEMMA EmptySheet == NoSheet \in CriteriaSheets /\ Scored(NoSheet) = {}
  BY DEF NoSheet, CriteriaSheets, WithinMaxima, Scored

\* The row create() inserts, and the empty one, are rows.
LEMMA NewFormType == NoForm \in Row /\ NewForm \in Row
  <1>1. [s \in Sections |-> 0] \in SectionSheets
    BY PointsAssumption DEF SectionSheets
  <1> QED BY <1>1, EmptySheet DEF NoForm, NewForm, Row, StudentTotals, Statuses

-----------------------------------------------------------------------------
(* What a request holds, and what its transaction leaves behind.            *)

\* A pending request names forms and holds a row for each.
LEMMA RequestType ==
  ASSUME TypeOK, NEW w \in Handlers, pending[w] # Idle
  PROVE  /\ Selected(w) \subseteq Forms /\ Selected(w) # {}
         /\ Snap(w) \in [Selected(w) -> Row]
         /\ pending[w].op \in Operations /\ pending[w].by \in Roles
         /\ \A f \in Selected(w) : forms[f] \in Row /\ Snap(w)[f] \in Row
  <1>1. IsRequest(pending[w])
    BY DEF TypeOK
  <1>2. PICK S \in (SUBSET Forms) \ {{}} :
          pending[w] \in [op : Operations, by : Roles, snap : [S -> Row]]
    BY <1>1 DEF IsRequest
  <1>3. Selected(w) = S /\ Snap(w) \in [S -> Row]
    BY <1>2 DEF Selected, Snap
  <1> QED BY <1>2, <1>3 DEF TypeOK

\* Giving a row the next version gives a row.
LEMMA VersionType == ASSUME NEW r \in Row
                     PROVE  /\ [r EXCEPT !.version = @ + 1] \in Row
                            /\ [r EXCEPT !.version = @ + 1].version = r.version + 1
  BY DEF Row

\* A transaction that leaves rows in its forms keeps the types.
LEMMA SwapType ==
  ASSUME TypeOK, NEW w \in Handlers, pending[w] # Idle, NEW rows,
         \A f \in Selected(w) : rows[f] \in Row,
         CompareAndSwap(w, rows)
  PROVE  /\ forms' \in [Forms -> Row]
         /\ semesters' \in [Semesters -> {"absent", "closed", "open"}]
         /\ pending' = [v \in Handlers |-> pending'[v]]
         /\ \A v \in Handlers : pending'[v] = Idle \/ IsRequest(pending'[v])
  <1>1. \A f \in Selected(w) : [rows[f] EXCEPT !.version = @ + 1] \in Row
    BY VersionType
  <1>2. forms' \in [Forms -> Row]
    BY <1>1 DEF CompareAndSwap, TypeOK
  <1>3. /\ pending' = [v \in Handlers |-> pending'[v]]
        /\ \A v \in Handlers : pending'[v] = Idle \/ pending'[v] = pending[v]
    BY DEF CompareAndSwap, TypeOK
  <1> QED BY <1>2, <1>3 DEF CompareAndSwap, TypeOK

\* A stored notification has the type of a key.
LEMMA NotifyType ==
  ASSUME TypeOK, NEW w \in Handlers, pending[w] # Idle,
         NEW event \in {"evaluation-rejected", "evaluation-forwarded"},
         NEW target \in Statuses, Notify(w, event, target)
  PROVE  notices' \subseteq Keys
  <1>1. \A f \in Selected(w) : f \in Forms /\ Snap(w)[f].version + 1 \in Nat
    BY RequestType DEF Row
  <1>2. {<<f, Snap(w)[f].version + 1>> : f \in Selected(w)} \in SUBSET (Forms \X Nat)
    BY <1>1
  <1> QED BY <1>2 DEF Notify, Keys, TypeOK

-----------------------------------------------------------------------------
(* The rows the writes leave.                                               *)

LEMMA ClearReviewType ==
  ASSUME NEW r \in Row, NEW status \in Statuses
  PROVE  ClearReview(r, status) \in Row
  BY DEF ClearReview, Row

LEMMA WithScoresType ==
  ASSUME NEW r \in Row, NEW role, NEW given \in GivenScores
  PROVE  /\ WithScores(r, role, given) \in Row
         /\ WithScores(r, role, given).classScore \in ClassScores
  <1> DEFINE sheet == [c \in Criteria |-> IF c \in DOMAIN given THEN given[c]
                                                             ELSE r.sheet[c]]
  <1>1. PICK C \in (SUBSET Criteria) \ {{}} : given \in [C -> CriterionPoints]
    BY DEF GivenScores
  <1>2. r.sheet \in CriteriaSheets
    BY DEF Row
  <1>3. sheet \in CriteriaSheets
    <2>1. sheet \in [Criteria -> CriterionPoints \cup {Null}]
      BY <1>1, <1>2 DEF CriteriaSheets
    <2>2. ASSUME NEW c \in Criteria, sheet[c] # Null PROVE sheet[c] <= MaxScore[c]
      BY <1>1, <1>2, <2>2, PointsAssumption, NullAssumption
         DEF CriteriaSheets, GivenScores, WithinMaxima, Scored
    <2> QED BY <2>1, <2>2 DEF CriteriaSheets, WithinMaxima, Scored
  <1>4. SheetTotal(sheet) \in ClassScores
    BY <1>3 DEF ClassScores
  <1> HIDE DEF sheet
  <1>5. [r EXCEPT !.sheet = sheet, !.classScore = SheetTotal(sheet),
                  !.signed = @ \ {role}] \in Row
    BY <1>3, <1>4 DEF Row
  <1>6. WithScores(r, role, given) =
          [r EXCEPT !.sheet = sheet, !.classScore = SheetTotal(sheet),
                    !.signed = @ \ {role}]
    BY DEF WithScores, sheet
  <1> QED BY <1>4, <1>5, <1>6 DEF Row

LEMMA ConfirmedType ==
  ASSUME NEW r \in Row, NEW role \in Reviewers, NEW score
  PROVE  Confirmed(r, role, score) \in Row
  BY ClassifyType DEF Confirmed, Row

LEMMA FinalizedType ==
  ASSUME NEW r \in Row, NEW score \in FinalScores
  PROVE  Finalized(r, score) \in Row
  BY ClassifyType, TargetType DEF Finalized, Row, Statuses, Reviewers

LEMMA SetLockType ==
  ASSUME NEW r \in Row, NEW locked \in BOOLEAN
  PROVE  /\ SetLock(r, locked) \in Row
         /\ \/ SetLock(r, locked) = r
            \/ SetLock(r, locked).version = r.version + 1
  <1>1. [r EXCEPT !.locked = locked, !.version = @ + 1] \in Row
    <2>1. [r EXCEPT !.locked = locked] \in Row
      BY DEF Row
    <2>2. [r EXCEPT !.locked = locked].version = r.version
      BY DEF Row
    <2>3. [[r EXCEPT !.locked = locked] EXCEPT !.version = @ + 1] \in Row
      BY <2>1, VersionType
    <2> QED BY <2>2, <2>3 DEF Row
  <1>2. [r EXCEPT !.locked = locked, !.version = @ + 1].version = r.version + 1
    BY DEF Row
  <1>3. CASE r.status = "none" \/ r.locked = locked
    BY <1>3 DEF SetLock
  <1>4. CASE ~(r.status = "none" \/ r.locked = locked)
    BY <1>4, <1>1, <1>2 DEF SetLock
  <1> QED BY <1>3, <1>4

\* Moving a row to a status, signed by one more reviewer, gives a row.
LEMMA SignedRowType ==
  ASSUME NEW r \in Row, NEW status \in Statuses, NEW role \in Reviewers
  PROVE  [r EXCEPT !.status = status, !.signed = @ \cup {role}] \in Row
  <1>1. r.signed \cup {role} \in SUBSET Reviewers
    BY DEF Row
  <1> QED BY <1>1 DEF Row

-----------------------------------------------------------------------------
(* What holds of a row at its status.                                       *)

StageOK(r) == SignedForStage(r) /\ ScoredForStage(r) /\ RankedForStage(r)
                /\ SummedForStage(r)

SheetCounts(r) == r.classScore = IF Scored(r.sheet) = {} THEN Null
                                                         ELSE SheetTotal(r.sheet)

\* StageOK, status by status.
LEMMA StageMeaning ==
  ASSUME NEW r
  PROVE  /\ r.status \in {"none", "draft", "rejected"} =>
              (StageOK(r) <=> /\ r.signed = {}
                              /\ r.classScore = Null /\ r.finalScore = Null)
         /\ r.status = "submitted" =>
              (StageOK(r) <=> /\ r.signed \subseteq {"classLeader"}
                              /\ r.finalScore = Null
                              /\ r.rank = Classify(r.studentScore)
                              /\ SheetCounts(r))
         /\ r.status = "class_leader_approved" =>
              (StageOK(r) <=> /\ "classLeader" \in r.signed
                              /\ r.signed \subseteq {"classLeader", "advisor"}
                              /\ r.finalScore = Null
                              /\ "advisor" \in r.signed =>
                                   r.classScore # Null /\ r.rank = Classify(r.classScore)
                              /\ SheetCounts(r))
         /\ r.status \in {"class_approved", "faculty_approved"} =>
              (StageOK(r) <=> /\ r.signed = {"classLeader", "advisor"}
                              /\ r.classScore # Null /\ r.finalScore = Null
                              /\ r.rank = Classify(r.classScore))
         /\ r.status = "finalized" =>
              (StageOK(r) <=> /\ r.signed = Reviewers
                              /\ r.classScore # Null /\ r.finalScore # Null
                              /\ r.rank = Classify(r.finalScore))
  <1> USE DEF StageOK, SignedForStage, ScoredForStage, RankedForStage,
              SummedForStage, SheetCounts, MustHaveSigned, MayHaveSigned, Reviewers
  <1>1. CASE r.status \in {"none", "draft", "rejected"}
    BY <1>1
  <1>2. CASE r.status = "submitted"
    BY <1>2
  <1>3. CASE r.status = "class_leader_approved"
    BY <1>3
  <1>4. CASE r.status \in {"class_approved", "faculty_approved"}
    BY <1>4
  <1>5. CASE r.status = "finalized"
    BY <1>5
  <1> QED BY <1>1, <1>2, <1>3, <1>4, <1>5

\* The status a row must have for each operation to accept it.
LEMMA AllowedMeaning ==
  ASSUME NEW op \in Operations, NEW role, NEW r, Allowed(op, role, r)
  PROVE  /\ op = "edit" => /\ r.status \in {"draft", "rejected"}
                           /\ Editable(r.status) /\ ~r.locked
         /\ op = "review" => \/ role = "classLeader" /\ r.status = "submitted"
                             \/ role = "advisor" /\ r.status = "class_leader_approved"
         /\ op = "decide" => \/ role = "classLeader" /\ r.status = "submitted"
                             \/ role = "advisor" /\ r.status = "class_leader_approved"
                             \/ role = "admin" /\ r.status = "faculty_approved"
         /\ op = "forward" =>
              \/ role = "classLeader" /\ r.status = "submitted" /\ role \in r.signed
              \/ /\ role = "advisor" /\ r.status = "class_leader_approved"
                 /\ role \in r.signed /\ r.classScore # Null
              \/ /\ role = "faculty" /\ r.status = "class_approved"
                 /\ r.classScore # Null
         /\ op \in {"finalize", "finalizeBatch"} =>
              role = "admin" /\ r.status = "faculty_approved"
  <1> DEFINE moves(s, t) == CanTransition(s, t)
  <1>1. \A s : /\ CanTransition(s, "submitted") <=> s \in {"draft", "rejected"}
               /\ CanTransition(s, "class_leader_approved") <=> s = "submitted"
               /\ CanTransition(s, "class_approved") <=> s = "class_leader_approved"
               /\ CanTransition(s, "finalized") <=> s = "faculty_approved"
    BY DEF CanTransition, WorkflowTransitions, submit, classLeaderApproval,
           advisorApproval, facultyApproval, finalize, reject, Transition
  <1>2. CASE op = "edit"
    BY <1>1, <1>2, TargetType DEF Allowed, Editable
  <1>3. CASE op = "review"
    BY <1>1, <1>3, StageTargets DEF Allowed, AtStageOf
  <1>4. CASE op = "decide"
    BY <1>1, <1>4, StageTargets DEF Allowed, AtStageOf, Reviewers
  <1>5. CASE op = "forward"
    BY <1>5, StageTargets DEF Allowed, Forwardable
  <1>6. CASE op = "finalize"
    BY <1>1, <1>6, StageTargets DEF Allowed, AtStageOf
  <1>7. CASE op = "finalizeBatch"
    BY <1>7 DEF Allowed, finalize, Transition
  <1> QED BY <1>2, <1>3, <1>4, <1>5, <1>6, <1>7

-----------------------------------------------------------------------------
(* The inductive invariant.                                                 *)

\* The student's total is the sum of the sections beside it.
TotalOK(r) == r.studentScore = StudentTotal(r.sections)

Inv == /\ TypeOK /\ SnapshotCoherent
       /\ \A f \in Forms : StageOK(forms[f])
       /\ OpenSemesterUnlocked
       /\ \A f \in Forms : IF Exists(f) THEN semesters[SemesterOf[f]] # "absent"
                                      ELSE forms[f] = NoForm

\* What the transaction of an operation may make of row r.
Becomes(op, r, s) ==
    /\ s \in Row /\ s.status # "none" /\ StageOK(s)
    /\ s.version >= r.version /\ s.locked = r.locked
    /\ op # "edit" => /\ s.sections = r.sections /\ s.evidence = r.evidence
                      /\ s.studentScore = r.studentScore
    /\ op = "edit" => (TotalOK(r) => TotalOK(s))
    /\ op = "reopen" => s.status = "draft"

Lands(w) == \E rows : /\ CompareAndSwap(w, rows)
                      /\ \A f \in Selected(w) : Becomes(pending[w].op, forms[f], rows[f])

\* The compare-and-swap makes the snapshot as good as the row: this is what
\* SnapshotCoherent is for.
LEMMA FreshRequest ==
  ASSUME Inv, NEW w \in Handlers, pending[w] # Idle, Fresh(w)
  PROVE  \A f \in Selected(w) :
            /\ f \in Forms /\ forms[f] \in Row /\ StageOK(forms[f])
            /\ forms[f].status # "none" /\ Snap(w)[f] = forms[f]
            /\ Allowed(pending[w].op, pending[w].by, forms[f])
  BY RequestType DEF Inv, SnapshotCoherent, Fresh, Exists

\* The same of a student's request in particular.
LEMMA EditRequest ==
  ASSUME Inv, NEW w \in Handlers, pending[w] # Idle, pending[w].op = "edit",
         NEW rows, CompareAndSwap(w, rows)
  PROVE  \A f \in Selected(w) :
            /\ forms[f] \in Row /\ StageOK(forms[f]) /\ Snap(w)[f] = forms[f]
            /\ forms[f].status \in {"draft", "rejected"}
            /\ Editable(forms[f].status) /\ ~forms[f].locked
  <1>1. Fresh(w)
    BY DEF CompareAndSwap
  <1>2. \A f \in Selected(w) : Allowed("edit", pending[w].by, forms[f])
    BY <1>1, FreshRequest
  <1>3. "edit" \in Operations
    BY DEF Operations
  <1>4. ASSUME NEW f \in Selected(w)
        PROVE  /\ forms[f].status \in {"draft", "rejected"}
               /\ Editable(forms[f].status) /\ ~forms[f].locked
    BY <1>2, <1>3, AllowedMeaning
  <1> QED BY <1>1, <1>4, FreshRequest

\* How every write is shown to land: its rows are in order, given that the
\* snapshot is fresh.
LEMMA LandsIf ==
  ASSUME NEW w, NEW rows, CompareAndSwap(w, rows),
         \A f \in Selected(w) : Becomes(pending[w].op, forms[f], rows[f])
  PROVE  Lands(w)
  BY DEF Lands

-----------------------------------------------------------------------------
(* The student's writes.                                                    *)

\* A change of the student's own columns leaves the review columns in order.
LEMMA DraftRow ==
  ASSUME NEW r \in Row, StageOK(r), r.status \in {"draft", "rejected"},
         NEW s \in Row, s.status = r.status, s.version = r.version,
         s.locked = r.locked, s.signed = r.signed,
         s.classScore = r.classScore, s.finalScore = r.finalScore,
         TotalOK(r) => TotalOK(s)
  PROVE  Becomes("edit", r, s)
  <1>1. StageOK(s)
    BY StageMeaning
  <1>2. s.version >= r.version
    BY DEF Row
  <1> QED BY <1>1, <1>2 DEF Becomes

LEMMA UpdateSectionLands ==
  ASSUME Inv, NEW w \in Handlers, UpdateSection(w)
  PROVE  Lands(w)
  <1> DEFINE total(f, s, p) == StudentTotal([Snap(w)[f].sections EXCEPT ![s] = p])
             rows(s, p) == [f \in Selected(w) |->
                [forms[f] EXCEPT !.sections[s] = p, !.studentScore = total(f, s, p),
                                 !.rank = Classify(total(f, s, p))]]
  <1>0. pending[w] # Idle /\ pending[w].op = "edit"
    BY DEF UpdateSection, Requested
  <1>1. PICK s \in Sections, p \in SectionPoints : CompareAndSwap(w, rows(s, p))
    BY DEF UpdateSection
  <1>2. ASSUME NEW f \in Selected(w) PROVE Becomes("edit", forms[f], rows(s, p)[f])
    <2>1. /\ forms[f] \in Row /\ Snap(w)[f] = forms[f] /\ StageOK(forms[f])
          /\ forms[f].status \in {"draft", "rejected"}
      BY <1>0, <1>1, EditRequest
    <2>2. forms[f].sections \in SectionSheets
      BY <2>1 DEF Row
    <2>3. [forms[f].sections EXCEPT ![s] = p] \in SectionSheets
      BY <2>2 DEF SectionSheets
    <2>4. total(f, s, p) \in StudentTotals
      BY <2>1, <2>3 DEF StudentTotals
    <2>5. Classify(total(f, s, p)) \in Ranks
      BY ClassifyType
    <2> HIDE DEF total
    <2>6. rows(s, p)[f] \in Row
      BY <2>1, <2>3, <2>4, <2>5 DEF Row
    <2>7. /\ rows(s, p)[f].status = forms[f].status
          /\ rows(s, p)[f].version = forms[f].version
          /\ rows(s, p)[f].locked = forms[f].locked
          /\ rows(s, p)[f].signed = forms[f].signed
          /\ rows(s, p)[f].classScore = forms[f].classScore
          /\ rows(s, p)[f].finalScore = forms[f].finalScore
      BY <2>1 DEF Row
    <2>8. TotalOK(rows(s, p)[f])
      <3>1. /\ rows(s, p)[f].sections = [forms[f].sections EXCEPT ![s] = p]
            /\ rows(s, p)[f].studentScore = total(f, s, p)
        BY <2>1 DEF Row
      <3> QED BY <2>1, <3>1 DEF TotalOK, total
    <2> HIDE DEF rows
    <2> QED BY <2>1, <2>6, <2>7, <2>8, DraftRow
  <1> HIDE DEF rows
  <1> QED BY <1>0, <1>1, <1>2, LandsIf

LEMMA UpdateDraftLands ==
  ASSUME Inv, NEW w \in Handlers, UpdateDraft(w)
  PROVE  Lands(w)
  <1> DEFINE rows == [f \in Selected(w) |-> forms[f]]
  <1>0. pending[w] # Idle /\ pending[w].op = "edit" /\ CompareAndSwap(w, rows)
    BY DEF UpdateDraft, Requested
  <1>1. \A f \in Selected(w) : Becomes("edit", forms[f], rows[f])
    BY <1>0, EditRequest, DraftRow
  <1> HIDE DEF rows
  <1> QED BY <1>0, <1>1, LandsIf

LEMMA EvidenceLands ==
  ASSUME Inv, NEW w \in Handlers, LinkEvidence(w) \/ RemoveEvidence(w)
  PROVE  Lands(w)
  <1> DEFINE rows(e) == [f \in Selected(w) |->
                           [forms[f] EXCEPT !.evidence = @ \cup {e}]]
             less(e) == [f \in Selected(w) |->
                           [forms[f] EXCEPT !.evidence = @ \ {e}]]
  <1>0. pending[w] # Idle /\ pending[w].op = "edit"
    BY DEF LinkEvidence, RemoveEvidence, Requested
  <1>1. PICK e \in Evidence : CompareAndSwap(w, rows(e)) \/ CompareAndSwap(w, less(e))
    BY DEF LinkEvidence, RemoveEvidence
  <1>2. ASSUME NEW f \in Selected(w)
        PROVE  /\ Becomes("edit", forms[f], rows(e)[f])
               /\ Becomes("edit", forms[f], less(e)[f])
    <2>1. /\ forms[f] \in Row /\ StageOK(forms[f])
          /\ forms[f].status \in {"draft", "rejected"}
      BY <1>0, <1>1, EditRequest
    <2>2. rows(e)[f] \in Row /\ less(e)[f] \in Row
      BY <2>1 DEF Row
    <2>3. ASSUME NEW s \in {rows(e)[f], less(e)[f]}
          PROVE  /\ s.status = forms[f].status /\ s.version = forms[f].version
                 /\ s.locked = forms[f].locked /\ s.signed = forms[f].signed
                 /\ s.classScore = forms[f].classScore
                 /\ s.finalScore = forms[f].finalScore
                 /\ TotalOK(forms[f]) => TotalOK(s)
      BY <2>1, <2>3 DEF Row, TotalOK
    <2> HIDE DEF rows, less
    <2> QED BY <2>1, <2>2, <2>3, DraftRow
  <1> HIDE DEF rows, less
  <1> QED BY <1>0, <1>1, <1>2, LandsIf

LEMMA SubmitLands ==
  ASSUME Inv, NEW w \in Handlers, Submit(w)
  PROVE  Lands(w)
  <1> DEFINE total(f) == StudentTotal(Snap(w)[f].sections)
             rows == [f \in Selected(w) |->
                [ClearReview(forms[f], submit.target) EXCEPT
                   !.studentScore = total(f), !.rank = Classify(total(f)),
                   !.sheet = NoSheet]]
  <1>0. pending[w] # Idle /\ pending[w].op = "edit" /\ CompareAndSwap(w, rows)
    BY DEF Submit, Requested
  <1>1. ASSUME NEW f \in Selected(w) PROVE Becomes("edit", forms[f], rows[f])
    <2>1. forms[f] \in Row /\ Snap(w)[f] = forms[f]
      BY <1>0, EditRequest
    <2>2. ClearReview(forms[f], "submitted") \in Row
      BY <2>1, ClearReviewType DEF Statuses
    <2>3. total(f) \in StudentTotals
      BY <2>1 DEF Row, StudentTotals
    <2>4. Classify(total(f)) \in Ranks
      BY ClassifyType
    <2>5. NoSheet \in CriteriaSheets /\ Scored(NoSheet) = {}
      BY EmptySheet
    <2> HIDE DEF total
    <2>6. rows[f] \in Row
      BY <2>2, <2>3, <2>4, <2>5, TargetType DEF Row
    <2>7. /\ rows[f].status = "submitted"
          /\ rows[f].version = forms[f].version /\ rows[f].locked = forms[f].locked
          /\ rows[f].signed = {}
          /\ rows[f].classScore = Null /\ rows[f].finalScore = Null
          /\ rows[f].studentScore = total(f) /\ rows[f].rank = Classify(total(f))
          /\ rows[f].sheet = NoSheet /\ rows[f].sections = forms[f].sections
      BY <2>1, TargetType DEF Row, ClearReview
    <2> HIDE DEF rows
    <2>8. StageOK(rows[f])
      BY <2>5, <2>7, StageMeaning DEF SheetCounts
    <2>9. rows[f].version >= forms[f].version
      BY <2>1, <2>7 DEF Row
    <2>10. TotalOK(rows[f])
      BY <2>1, <2>7 DEF TotalOK, total
    <2> QED BY <2>6, <2>7, <2>8, <2>9, <2>10 DEF Becomes
  <1> HIDE DEF rows
  <1> QED BY <1>0, <1>1, LandsIf

-----------------------------------------------------------------------------
(* The reviewers' writes.                                                   *)

\* What a fresh request of a reviewer tells of its forms.
LEMMA ReviewerRequest ==
  ASSUME Inv, NEW w \in Handlers, pending[w] # Idle, NEW rows, CompareAndSwap(w, rows)
  PROVE  \A f \in Selected(w) :
            /\ forms[f] \in Row /\ StageOK(forms[f]) /\ Snap(w)[f] = forms[f]
            /\ pending[w].op = "review" =>
                 \/ pending[w].by = "classLeader" /\ forms[f].status = "submitted"
                 \/ pending[w].by = "advisor" /\ forms[f].status = "class_leader_approved"
            /\ pending[w].op = "decide" =>
                 \/ pending[w].by = "classLeader" /\ forms[f].status = "submitted"
                 \/ pending[w].by = "advisor" /\ forms[f].status = "class_leader_approved"
                 \/ pending[w].by = "admin" /\ forms[f].status = "faculty_approved"
            /\ pending[w].op \in {"finalize", "finalizeBatch"} =>
                 forms[f].status = "faculty_approved"
            /\ pending[w].op = "forward" =>
                 \/ /\ pending[w].by = "classLeader" /\ forms[f].status = "submitted"
                    /\ "classLeader" \in forms[f].signed
                 \/ /\ pending[w].by = "advisor"
                    /\ forms[f].status = "class_leader_approved"
                    /\ "advisor" \in forms[f].signed /\ forms[f].classScore # Null
                 \/ pending[w].by = "faculty" /\ forms[f].status = "class_approved"
  <1>1. Fresh(w) /\ pending[w].op \in Operations
    BY RequestType DEF CompareAndSwap, Inv
  <1> QED BY <1>1, FreshRequest, AllowedMeaning

\* Scoring some criteria gives a row in order, whose class score is a number.
LEMMA WithScoresRow ==
  ASSUME NEW r \in Row, StageOK(r), NEW role, NEW given \in GivenScores,
         \/ role = "classLeader" /\ r.status = "submitted"
         \/ role = "advisor" /\ r.status = "class_leader_approved"
  PROVE  /\ Becomes("review", r, WithScores(r, role, given))
         /\ WithScores(r, role, given).classScore # Null
         /\ WithScores(r, role, given).status = r.status
         /\ WithScores(r, role, given).version = r.version
         /\ SheetCounts(WithScores(r, role, given))
  <1> DEFINE sheet == [c \in Criteria |-> IF c \in DOMAIN given THEN given[c]
                                                             ELSE r.sheet[c]]
             s == WithScores(r, role, given)
  <1>1. PICK C \in (SUBSET Criteria) \ {{}} : given \in [C -> CriterionPoints]
    BY DEF GivenScores
  <1>2. PICK c \in C : TRUE
    BY <1>1
  <1>3. c \in DOMAIN sheet /\ sheet[c] \in CriterionPoints
    BY <1>1, <1>2
  <1>4. sheet[c] # Null
    BY <1>3, PointsAreNumbers
  <1>5. Scored(sheet) # {}
    BY <1>3, <1>4 DEF Scored
  <1> HIDE DEF sheet
  <1>6. s \in Row /\ s.classScore # Null
    BY WithScoresType, ScoreNotNull
  <1>7. s = [r EXCEPT !.sheet = sheet, !.classScore = SheetTotal(sheet),
                      !.signed = @ \ {role}]
    BY DEF WithScores, sheet
  <1>8. /\ s.status = r.status /\ s.version = r.version /\ s.locked = r.locked
        /\ s.sections = r.sections /\ s.evidence = r.evidence /\ s.rank = r.rank
        /\ s.studentScore = r.studentScore
        /\ s.finalScore = r.finalScore /\ s.signed = r.signed \ {role}
        /\ s.sheet = sheet /\ s.classScore = SheetTotal(sheet)
    BY <1>7 DEF Row
  <1> HIDE DEF s
  <1>9. SheetCounts(s)
    BY <1>5, <1>8 DEF SheetCounts
  <1>10. StageOK(s)
    <2>1. CASE r.status = "submitted"
      BY <2>1, <1>8, <1>9, StageMeaning
    <2>2. CASE role = "advisor" /\ r.status = "class_leader_approved"
      BY <2>2, <1>8, <1>9, StageMeaning
    <2> QED BY <2>1, <2>2
  <1>11. s.version >= r.version /\ s.status # "none"
    BY <1>8 DEF Row
  <1>12. Becomes("review", r, s)
    BY <1>6, <1>8, <1>10, <1>11 DEF Becomes
  <1> QED BY <1>6, <1>8, <1>9, <1>12 DEF s

\* So does confirming a form that has a class score.
LEMMA ConfirmedRow ==
  ASSUME NEW r \in Row, StageOK(r), NEW role, r.classScore # Null,
         \/ role = "classLeader" /\ r.status = "submitted"
         \/ role = "advisor" /\ r.status = "class_leader_approved"
  PROVE  Becomes("review", r, Confirmed(r, role, r.classScore))
  <1> DEFINE s == Confirmed(r, role, r.classScore)
  <1>1. s \in Row
    BY ConfirmedType DEF Reviewers
  <1>2. /\ s.status = r.status /\ s.version = r.version /\ s.locked = r.locked
        /\ s.sections = r.sections /\ s.evidence = r.evidence
        /\ s.studentScore = r.studentScore /\ s.sheet = r.sheet
        /\ s.finalScore = r.finalScore /\ s.classScore = r.classScore
        /\ s.signed = r.signed \cup {role}
    BY DEF Confirmed, Row
  <1>3. s.rank = IF role = "advisor" THEN Classify(r.classScore) ELSE r.rank
    BY DEF Confirmed, Row
  <1> HIDE DEF s
  <1>4. SheetCounts(r) => SheetCounts(s)
    BY <1>2 DEF SheetCounts
  <1>5. StageOK(s)
    <2>1. CASE role = "classLeader" /\ r.status = "submitted"
      BY <2>1, <1>2, <1>3, <1>4, StageMeaning
    <2>2. CASE role = "advisor" /\ r.status = "class_leader_approved"
      BY <2>2, <1>2, <1>3, <1>4, StageMeaning
    <2> QED BY <2>1, <2>2
  <1>6. s.version >= r.version /\ s.status # "none"
    BY <1>2 DEF Row
  <1>7. Becomes("review", r, s)
    BY <1>1, <1>2, <1>5, <1>6 DEF Becomes
  <1> QED BY <1>7 DEF s

\* A further version changes nothing else.
LEMMA NextVersionRow ==
  ASSUME NEW op, NEW r \in Row, NEW q \in Row, Becomes(op, r, q)
  PROVE  Becomes(op, r, [q EXCEPT !.version = @ + 1])
  <1> DEFINE s == [q EXCEPT !.version = @ + 1]
  <1>1. s \in Row /\ s.version = q.version + 1
    BY VersionType
  <1>2. /\ s.status = q.status /\ s.locked = q.locked
        /\ s.sections = q.sections /\ s.evidence = q.evidence
        /\ s.studentScore = q.studentScore /\ s.sheet = q.sheet
        /\ s.finalScore = q.finalScore /\ s.classScore = q.classScore
        /\ s.signed = q.signed /\ s.rank = q.rank
    BY DEF Row
  <1> HIDE DEF s
  <1>3. StageOK(s)
    BY <1>2 DEF Becomes, StageOK, SignedForStage, ScoredForStage, RankedForStage,
                SummedForStage
  <1>4. s.version >= r.version
    BY <1>1 DEF Becomes, Row
  <1>5. Becomes(op, r, s)
    BY <1>1, <1>2, <1>3, <1>4 DEF Becomes, TotalOK
  <1> QED BY <1>5 DEF s

LEMMA ReviewLands ==
  ASSUME Inv, NEW w \in Handlers,
         ReviewScores(w) \/ ConfirmReview(w) \/ ConfirmWithScores(w)
  PROVE  Lands(w)
  <1>0. pending[w] # Idle /\ pending[w].op = "review"
    BY DEF ReviewScores, ConfirmReview, ConfirmWithScores, Requested
  <1>1. CASE ReviewScores(w)
    <2> DEFINE rows(given) == [f \in Selected(w) |->
                                 WithScores(forms[f], pending[w].by, given)]
    <2>1. PICK given \in GivenScores : CompareAndSwap(w, rows(given))
      BY <1>1 DEF ReviewScores
    <2>2. \A f \in Selected(w) : Becomes("review", forms[f], rows(given)[f])
      BY <1>0, <2>1, ReviewerRequest, WithScoresRow
    <2> HIDE DEF rows
    <2> QED BY <1>0, <2>1, <2>2, LandsIf
  <1>2. CASE ConfirmReview(w)
    <2> DEFINE rows == [f \in Selected(w) |->
                          Confirmed(forms[f], pending[w].by, Snap(w)[f].classScore)]
    <2>1. /\ CompareAndSwap(w, rows)
          /\ \A f \in Selected(w) : Snap(w)[f].classScore # Null
      BY <1>2 DEF ConfirmReview
    <2>2. \A f \in Selected(w) : Becomes("review", forms[f], rows[f])
      BY <1>0, <2>1, ReviewerRequest, ConfirmedRow
    <2> HIDE DEF rows
    <2> QED BY <1>0, <2>1, <2>2, LandsIf
  <1>3. CASE ConfirmWithScores(w)
    <2> DEFINE scored(f, given) == WithScores(forms[f], pending[w].by, given)
               done(f, given) == Confirmed(scored(f, given), pending[w].by,
                                           scored(f, given).classScore)
               rows(given) == [f \in Selected(w) |->
                                 [done(f, given) EXCEPT !.version = @ + 1]]
    <2>1. PICK given \in GivenScores : CompareAndSwap(w, rows(given))
      BY <1>3 DEF ConfirmWithScores
    <2>2. ASSUME NEW f \in Selected(w)
          PROVE  Becomes("review", forms[f], rows(given)[f])
      <3>1. /\ forms[f] \in Row /\ StageOK(forms[f])
            /\ \/ pending[w].by = "classLeader" /\ forms[f].status = "submitted"
               \/ pending[w].by = "advisor" /\ forms[f].status = "class_leader_approved"
        BY <1>0, <2>1, ReviewerRequest
      <3>2. /\ Becomes("review", forms[f], scored(f, given))
            /\ scored(f, given).classScore # Null
            /\ scored(f, given).status = forms[f].status
        BY <3>1, WithScoresRow
      <3> HIDE DEF scored
      <3>3. Becomes("review", scored(f, given), done(f, given))
        BY <3>1, <3>2, ConfirmedRow DEF Becomes
      <3> HIDE DEF done
      <3>4. Becomes("review", forms[f], done(f, given)) /\ done(f, given) \in Row
        BY <3>1, <3>2, <3>3 DEF Becomes, Row
      <3> QED BY <3>1, <3>4, NextVersionRow
    <2> HIDE DEF rows
    <2> QED BY <1>0, <2>1, <2>2, LandsIf
  <1> QED BY <1>1, <1>2, <1>3

\* An approval moves a form one step and adds the signature of that step.
LEMMA ApprovedRow ==
  ASSUME NEW r \in Row, StageOK(r), NEW s \in Row, NEW op, op \notin {"edit", "reopen"},
         s.version = r.version, s.locked = r.locked,
         s.sections = r.sections, s.evidence = r.evidence, s.sheet = r.sheet,
         s.finalScore = r.finalScore, s.studentScore = r.studentScore,
         \/ /\ r.status = "submitted" /\ s.status = "class_leader_approved"
            /\ s.signed = r.signed \cup {"classLeader"}
            /\ s.classScore = r.classScore
         \/ /\ r.status = "class_leader_approved" /\ s.status = "class_approved"
            /\ s.signed = r.signed \cup {"advisor"}
            /\ s.classScore # Null /\ s.rank = Classify(s.classScore)
         \/ /\ r.status = "class_approved" /\ s.status = "faculty_approved"
            /\ s.signed = r.signed
            /\ s.classScore = r.classScore /\ s.rank = r.rank
  PROVE  Becomes(op, r, s)
  <1>1. SheetCounts(r) /\ s.classScore = r.classScore => SheetCounts(s)
    BY DEF SheetCounts
  <1>2. StageOK(s)
    <2>1. CASE r.status = "submitted"
      BY <2>1, <1>1, StageMeaning
    <2>2. CASE r.status = "class_leader_approved"
      BY <2>2, StageMeaning
    <2>3. CASE r.status = "class_approved"
      BY <2>3, StageMeaning
    <2> QED BY <2>1, <2>2, <2>3
  <1>3. s.version >= r.version
    BY DEF Row
  <1>4. s.status # "none"
    OBVIOUS
  <1> QED BY <1>2, <1>3, <1>4 DEF Becomes

\* Finalizing with a number as score.
LEMMA FinalizedRow ==
  ASSUME NEW r \in Row, StageOK(r), r.status = "faculty_approved",
         NEW score \in FinalScores, score # Null,
         NEW op, op \notin {"edit", "reopen"}
  PROVE  Becomes(op, r, Finalized(r, score))
  <1> DEFINE s == Finalized(r, score)
  <1>1. s \in Row
    BY FinalizedType
  <1>2. /\ s.status = "finalized" /\ s.version = r.version /\ s.locked = r.locked
        /\ s.sections = r.sections /\ s.evidence = r.evidence
        /\ s.studentScore = r.studentScore
        /\ s.classScore = r.classScore /\ s.finalScore = score
        /\ s.rank = Classify(score) /\ s.signed = r.signed \cup {"admin"}
    BY TargetType DEF Finalized, Row
  <1> HIDE DEF s
  <1>3. r.signed \cup {"admin"} = Reviewers
    BY StageMeaning DEF Reviewers
  <1>4. StageOK(s)
    BY <1>2, <1>3, StageMeaning
  <1>5. s.version >= r.version
    BY <1>2 DEF Row
  <1>6. Becomes(op, r, s)
    BY <1>1, <1>2, <1>4, <1>5 DEF Becomes
  <1> QED BY <1>6 DEF s

\* A return to the student clears the review round, whatever was in it.
LEMMA ReturnedRow ==
  ASSUME NEW r \in Row, NEW s \in Row, NEW op,
         s.status \in {"draft", "rejected"}, op = "reopen" => s.status = "draft",
         s.version = r.version, s.locked = r.locked,
         s.sections = r.sections, s.evidence = r.evidence,
         s.studentScore = r.studentScore,
         s.signed = {}, s.classScore = Null, s.finalScore = Null
  PROVE  Becomes(op, r, s)
  <1>1. StageOK(s)
    BY StageMeaning
  <1>2. s.version >= r.version /\ s.status # "none"
    BY DEF Row
  <1> QED BY <1>1, <1>2 DEF Becomes, TotalOK

LEMMA ApproveLands ==
  ASSUME Inv, NEW w \in Handlers, ApproveByLeader(w) \/ ApproveByAdvisor(w)
  PROVE  Lands(w)
  <1>0. pending[w] # Idle /\ pending[w].op = "decide"
    BY DEF ApproveByLeader, ApproveByAdvisor, Requested
  <1>1. CASE ApproveByLeader(w)
    <2> DEFINE rows == [f \in Selected(w) |->
           [forms[f] EXCEPT !.status = classLeaderApproval.target,
                            !.signed = @ \cup {"classLeader"}]]
    <2>1. CompareAndSwap(w, rows) /\ pending[w].by = "classLeader"
      BY <1>1 DEF ApproveByLeader
    <2>2. ASSUME NEW f \in Selected(w) PROVE Becomes("decide", forms[f], rows[f])
      <3>1. /\ forms[f] \in Row /\ StageOK(forms[f])
            /\ forms[f].status = "submitted"
        BY <1>0, <2>1, ReviewerRequest
      <3>2. rows[f] \in Row
        BY <3>1, TargetType, SignedRowType DEF Statuses, Reviewers
      <3>3. /\ rows[f].status = "class_leader_approved"
            /\ rows[f].signed = forms[f].signed \cup {"classLeader"}
            /\ rows[f].version = forms[f].version /\ rows[f].locked = forms[f].locked
            /\ rows[f].sections = forms[f].sections
            /\ rows[f].studentScore = forms[f].studentScore
            /\ rows[f].evidence = forms[f].evidence
            /\ rows[f].sheet = forms[f].sheet
            /\ rows[f].classScore = forms[f].classScore
            /\ rows[f].finalScore = forms[f].finalScore
        BY <3>1, TargetType DEF Row
      <3> HIDE DEF rows
      <3> QED BY <3>1, <3>2, <3>3, ApprovedRow
    <2> HIDE DEF rows
    <2> QED BY <1>0, <2>1, <2>2, LandsIf
  <1>2. CASE ApproveByAdvisor(w)
    <2> DEFINE rows(score) == [f \in Selected(w) |->
           [forms[f] EXCEPT !.status = advisorApproval.target,
                            !.classScore = score, !.rank = Classify(score),
                            !.signed = @ \cup {"advisor"}]]
    <2>1. PICK score \in DirectScores : CompareAndSwap(w, rows(score))
      BY <1>2 DEF ApproveByAdvisor
    <2>2. pending[w].by = "advisor"
      BY <1>2 DEF ApproveByAdvisor
    <2>3. score \in ClassScores /\ score # Null /\ Classify(score) \in Ranks
      BY ClassifyType, ScoreNotNull DEF ClassScores
    <2>4. ASSUME NEW f \in Selected(w) PROVE Becomes("decide", forms[f], rows(score)[f])
      <3>1. /\ forms[f] \in Row /\ StageOK(forms[f])
            /\ forms[f].status = "class_leader_approved"
        BY <1>0, <2>1, <2>2, ReviewerRequest
      <3> DEFINE q == [forms[f] EXCEPT !.status = advisorApproval.target,
                                       !.signed = @ \cup {"advisor"}]
      <3>2. q \in Row
        BY <3>1, TargetType, SignedRowType DEF Statuses, Reviewers
      <3>3. rows(score)[f] = [q EXCEPT !.classScore = score, !.rank = Classify(score)]
        BY <3>1 DEF Row
      <3>4. /\ rows(score)[f].status = "class_approved"
            /\ rows(score)[f].signed = forms[f].signed \cup {"advisor"}
            /\ rows(score)[f].version = forms[f].version
            /\ rows(score)[f].locked = forms[f].locked
            /\ rows(score)[f].sections = forms[f].sections
            /\ rows(score)[f].studentScore = forms[f].studentScore
            /\ rows(score)[f].evidence = forms[f].evidence
            /\ rows(score)[f].sheet = forms[f].sheet
            /\ rows(score)[f].classScore = score
            /\ rows(score)[f].rank = Classify(score)
            /\ rows(score)[f].finalScore = forms[f].finalScore
        BY <3>1, TargetType DEF Row
      <3> HIDE DEF q
      <3>5. rows(score)[f] \in Row
        BY <2>3, <3>2, <3>3 DEF Row
      <3> HIDE DEF rows
      <3> QED BY <2>3, <3>1, <3>4, <3>5, ApprovedRow
    <2> HIDE DEF rows
    <2> QED BY <1>0, <2>1, <2>4, LandsIf
  <1> QED BY <1>1, <1>2

LEMMA RejectLands ==
  ASSUME Inv, NEW w \in Handlers, Reject(w)
  PROVE  Lands(w)
  <1> DEFINE rows == [f \in Selected(w) |->
                        [ClearReview(forms[f], reject.target) EXCEPT !.sheet = NoSheet]]
  <1>0. pending[w] # Idle /\ pending[w].op = "decide" /\ CompareAndSwap(w, rows)
    BY DEF Reject, Requested
  <1>1. ASSUME NEW f \in Selected(w) PROVE Becomes("decide", forms[f], rows[f])
    <2>1. forms[f] \in Row
      BY <1>0, ReviewerRequest
    <2>2. ClearReview(forms[f], "rejected") \in Row
      BY <2>1, ClearReviewType DEF Statuses
    <2>3. NoSheet \in CriteriaSheets
      BY EmptySheet
    <2>4. rows[f] \in Row
      BY <2>2, <2>3, TargetType DEF Row
    <2>5. /\ rows[f].status = "rejected" /\ rows[f].signed = {}
          /\ rows[f].classScore = Null /\ rows[f].finalScore = Null
          /\ rows[f].version = forms[f].version /\ rows[f].locked = forms[f].locked
          /\ rows[f].sections = forms[f].sections
          /\ rows[f].studentScore = forms[f].studentScore
          /\ rows[f].evidence = forms[f].evidence
      BY <2>1, TargetType DEF Row, ClearReview
    <2> HIDE DEF rows
    <2> QED BY <2>1, <2>4, <2>5, ReturnedRow
  <1> HIDE DEF rows
  <1> QED BY <1>0, <1>1, LandsIf

LEMMA ReopenLands ==
  ASSUME Inv, NEW w \in Handlers, Reopen(w)
  PROVE  Lands(w)
  <1> DEFINE rows == [f \in Selected(w) |-> ClearReview(forms[f], reopen.target)]
  <1>0. pending[w] # Idle /\ pending[w].op = "reopen" /\ CompareAndSwap(w, rows)
    BY DEF Reopen, Requested
  <1>1. ASSUME NEW f \in Selected(w) PROVE Becomes("reopen", forms[f], rows[f])
    <2>1. forms[f] \in Row
      BY <1>0, ReviewerRequest
    <2>2. rows[f] \in Row
      BY <2>1, TargetType, ClearReviewType DEF Statuses
    <2>3. /\ rows[f].status = "draft" /\ rows[f].signed = {}
          /\ rows[f].classScore = Null /\ rows[f].finalScore = Null
          /\ rows[f].version = forms[f].version /\ rows[f].locked = forms[f].locked
          /\ rows[f].sections = forms[f].sections
          /\ rows[f].studentScore = forms[f].studentScore
          /\ rows[f].evidence = forms[f].evidence
      BY <2>1, TargetType DEF Row, ClearReview
    <2> HIDE DEF rows
    <2> QED BY <2>1, <2>2, <2>3, ReturnedRow
  <1> HIDE DEF rows
  <1> QED BY <1>0, <1>1, LandsIf

LEMMA ForwardLands ==
  ASSUME Inv, NEW w \in Handlers, Forward(w)
  PROVE  Lands(w)
  <1> DEFINE target == StageOf(pending[w].by).target
             rows == [f \in Selected(w) |->
                [forms[f] EXCEPT !.status = target,
                                 !.rank = IF pending[w].by = "advisor"
                                          THEN Classify(Snap(w)[f].classScore)
                                          ELSE @]]
  <1>0. pending[w] # Idle /\ pending[w].op = "forward" /\ CompareAndSwap(w, rows)
    BY DEF Forward, Requested
  <1>1. ASSUME NEW f \in Selected(w) PROVE Becomes("forward", forms[f], rows[f])
    <2>1. /\ forms[f] \in Row /\ StageOK(forms[f]) /\ Snap(w)[f] = forms[f]
          /\ \/ /\ pending[w].by = "classLeader" /\ forms[f].status = "submitted"
                /\ "classLeader" \in forms[f].signed
             \/ /\ pending[w].by = "advisor"
                /\ forms[f].status = "class_leader_approved"
                /\ "advisor" \in forms[f].signed /\ forms[f].classScore # Null
             \/ pending[w].by = "faculty" /\ forms[f].status = "class_approved"
      BY <1>0, ReviewerRequest
    <2>2. /\ target \in Statuses
          /\ pending[w].by = "classLeader" => target = "class_leader_approved"
          /\ pending[w].by = "advisor" => target = "class_approved"
          /\ pending[w].by = "faculty" => target = "faculty_approved"
      BY <2>1, StageTargets DEF Statuses
    <2> HIDE DEF target
    <2>3. rows[f] \in Row
      BY <2>1, <2>2, ClassifyType DEF Row
    <2>4. /\ rows[f].status = target
          /\ rows[f].signed = forms[f].signed
          /\ rows[f].version = forms[f].version /\ rows[f].locked = forms[f].locked
          /\ rows[f].sections = forms[f].sections
          /\ rows[f].studentScore = forms[f].studentScore
          /\ rows[f].evidence = forms[f].evidence
          /\ rows[f].sheet = forms[f].sheet
          /\ rows[f].classScore = forms[f].classScore
          /\ rows[f].finalScore = forms[f].finalScore
      BY <2>1 DEF Row
    <2>5. rows[f].rank = IF pending[w].by = "advisor"
                         THEN Classify(forms[f].classScore) ELSE forms[f].rank
      BY <2>1 DEF Row
    <2> HIDE DEF rows
    <2>6. CASE pending[w].by = "classLeader"
      BY <2>1, <2>2, <2>3, <2>4, <2>5, <2>6, ApprovedRow
    <2>7. CASE pending[w].by = "advisor"
      BY <2>1, <2>2, <2>3, <2>4, <2>5, <2>7, ApprovedRow
    <2>8. CASE pending[w].by = "faculty"
      BY <2>1, <2>2, <2>3, <2>4, <2>5, <2>8, ApprovedRow
    <2> QED BY <2>1, <2>6, <2>7, <2>8
  <1> HIDE DEF rows
  <1> QED BY <1>0, <1>1, LandsIf

LEMMA FinalizeLands ==
  ASSUME Inv, NEW w \in Handlers,
         Finalize(w) \/ FinalizeBatch(w) \/ ApproveByAdmin(w)
  PROVE  Lands(w)
  <1>1. CASE Finalize(w)
    <2> DEFINE rows(score) == [f \in Selected(w) |-> Finalized(forms[f], score)]
    <2>0. pending[w] # Idle /\ pending[w].op = "finalize"
      BY <1>1 DEF Finalize, Requested
    <2>1. PICK score \in DirectScores \cup {Snap(w)[f].classScore : f \in Selected(w)} :
             score # Null /\ CompareAndSwap(w, rows(score))
      BY <1>1 DEF Finalize
    <2>2. \A f \in Selected(w) : /\ forms[f] \in Row /\ StageOK(forms[f])
                                  /\ Snap(w)[f] = forms[f]
                                  /\ forms[f].status = "faculty_approved"
      BY <2>0, <2>1, ReviewerRequest
    <2>3. score \in FinalScores
      BY <2>1, <2>2 DEF Row, FinalScores, ClassScores
    <2>4. \A f \in Selected(w) : Becomes("finalize", forms[f], rows(score)[f])
      BY <2>1, <2>2, <2>3, FinalizedRow
    <2> HIDE DEF rows
    <2> QED BY <2>0, <2>1, <2>4, LandsIf
  <1>2. CASE FinalizeBatch(w)
    <2> DEFINE score(f) == IF Snap(w)[f].classScore = Null THEN 0
                                                          ELSE Snap(w)[f].classScore
               rows == [f \in Selected(w) |-> Finalized(forms[f], score(f))]
    <2>1. pending[w] # Idle /\ pending[w].op = "finalizeBatch" /\ CompareAndSwap(w, rows)
      BY <1>2 DEF FinalizeBatch, Requested
    <2>2. \A f \in Selected(w) : /\ forms[f] \in Row /\ StageOK(forms[f])
                                  /\ Snap(w)[f] = forms[f]
                                  /\ forms[f].status = "faculty_approved"
      BY <2>1, ReviewerRequest
    <2>3. \A f \in Selected(w) : score(f) \in FinalScores /\ score(f) # Null
      BY <2>2, StageMeaning DEF Row, FinalScores
    <2> HIDE DEF score
    <2>4. \A f \in Selected(w) : Becomes("finalizeBatch", forms[f], rows[f])
      BY <2>2, <2>3, FinalizedRow
    <2> HIDE DEF rows
    <2> QED BY <2>1, <2>4, LandsIf
  <1>3. CASE ApproveByAdmin(w)
    <2> DEFINE rows == [f \in Selected(w) |->
                          Finalized(forms[f], Snap(w)[f].classScore)]
    <2>1. /\ pending[w] # Idle /\ pending[w].op = "decide" /\ pending[w].by = "admin"
          /\ CompareAndSwap(w, rows)
          /\ \A f \in Selected(w) : Snap(w)[f].classScore # Null
      BY <1>3 DEF ApproveByAdmin, Requested
    <2>2. \A f \in Selected(w) : /\ forms[f] \in Row /\ StageOK(forms[f])
                                  /\ Snap(w)[f] = forms[f]
                                  /\ forms[f].status = "faculty_approved"
      BY <2>1, ReviewerRequest
    <2>3. \A f \in Selected(w) : Snap(w)[f].classScore \in FinalScores
      BY <2>1, <2>2 DEF Row, FinalScores
    <2>4. \A f \in Selected(w) : Becomes("decide", forms[f], rows[f])
      BY <2>1, <2>2, <2>3, FinalizedRow
    <2> HIDE DEF rows
    <2> QED BY <2>1, <2>4, LandsIf
  <1> QED BY <1>1, <1>2, <1>3

\* Every write of every operation lands well, or does not happen.
LEMMA WriteLands ==
  ASSUME Inv, NEW w \in Handlers, Write(w)
  PROVE  pending[w] # Idle /\ Lands(w)
  <1>1. Lands(w)
    BY UpdateSectionLands, UpdateDraftLands, EvidenceLands, SubmitLands, ReviewLands,
       ApproveLands, RejectLands, ReopenLands, ForwardLands, FinalizeLands DEF Write
  <1>2. pending[w] # Idle
    BY DEF Write, UpdateSection, UpdateDraft, LinkEvidence, RemoveEvidence, Submit,
           ReviewScores, ConfirmReview, ConfirmWithScores, ApproveByLeader,
           ApproveByAdvisor, ApproveByAdmin, Reject, Forward, Finalize,
           FinalizeBatch, Reopen, Requested
  <1> QED BY <1>1, <1>2

\* What is stored of the notifications is a set of keys.
LEMMA WriteNotices ==
  ASSUME Inv, NEW w \in Handlers, Write(w)
  PROVE  notices' \subseteq Keys
  <1>1. notices \subseteq Keys /\ TypeOK
    BY DEF Inv, TypeOK
  <1>2. CASE Reject(w)
    <2>1. pending[w] # Idle /\ Notify(w, "evaluation-rejected", "rejected")
      BY <1>2, TargetType DEF Reject, Requested
    <2> QED BY <1>1, <2>1, NotifyType DEF Statuses
  <1>3. CASE Forward(w)
    <2>1. /\ pending[w] # Idle /\ pending[w].op = "forward"
          /\ Notify(w, "evaluation-forwarded", StageOf(pending[w].by).target)
      BY <1>3 DEF Forward, Requested
    <2>2. PICK f \in Selected(w) : TRUE
      BY <1>1, <2>1, RequestType
    <2>3. PICK rows : CompareAndSwap(w, rows)
      BY <1>3 DEF Forward
    <2>4. pending[w].by \in {"classLeader", "advisor", "faculty"}
      BY <2>1, <2>2, <2>3, ReviewerRequest
    <2>5. StageOf(pending[w].by).target \in Statuses
      BY <2>4, StageTargets DEF Statuses
    <2> QED BY <1>1, <2>1, <2>5, NotifyType
  <1>4. CASE ~Reject(w) /\ ~Forward(w)
    <2>1. UNCHANGED notices
      BY <1>4 DEF Write, UpdateSection, UpdateDraft, LinkEvidence, RemoveEvidence,
             Submit, ReviewScores, ConfirmReview, ConfirmWithScores, ApproveByLeader,
             ApproveByAdvisor, ApproveByAdmin, Finalize, FinalizeBatch, Reopen
    <2> QED BY <1>1, <2>1
  <1> QED BY <1>2, <1>3, <1>4

-----------------------------------------------------------------------------
(* Every step keeps the invariant.                                          *)

\* A form that exists changes only under a new version.
Advances(f) == \/ forms'[f] = forms[f]
               \/ forms[f].status = "none"
               \/ forms'[f].status # "none" /\ forms'[f].version > forms[f].version

\* So snapshots that were coherent remain so.
LEMMA SnapshotsKept ==
  ASSUME TypeOK, SnapshotCoherent, forms' \in [Forms -> Row],
         \A f \in Forms : Advances(f),
         \A v \in Handlers : pending'[v] = Idle \/ pending'[v] = pending[v]
  PROVE  SnapshotCoherent'
  <1> SUFFICES ASSUME NEW v \in Handlers, pending'[v] # Idle, NEW f \in Selected(v)'
               PROVE  /\ Exists(f)'
                      /\ Allowed(pending'[v].op, pending'[v].by, Snap(v)'[f])
                      /\ Snap(v)'[f].version <= forms'[f].version
                      /\ Snap(v)'[f].version = forms'[f].version
                           => Snap(v)'[f] = forms'[f]
    BY DEF SnapshotCoherent
  <1>1. /\ pending'[v] = pending[v] /\ pending[v] # Idle
        /\ f \in Selected(v) /\ Snap(v)' = Snap(v)
    BY DEF Selected, Snap
  <1>2. /\ Exists(f) /\ Allowed(pending[v].op, pending[v].by, Snap(v)[f])
        /\ Snap(v)[f].version <= forms[f].version
        /\ Snap(v)[f].version = forms[f].version => Snap(v)[f] = forms[f]
    BY <1>1 DEF SnapshotCoherent
  <1>3. f \in Forms /\ forms[f].version \in Nat /\ forms'[f].version \in Nat
        /\ Snap(v)[f].version \in Nat
    BY <1>1, RequestType DEF Row
  <1>4. \/ forms'[f] = forms[f]
        \/ forms'[f].status # "none" /\ forms'[f].version > forms[f].version
    BY <1>2, <1>3 DEF Advances, Exists
  <1>5. Exists(f)'
    BY <1>2, <1>4 DEF Exists
  <1>6. CASE forms'[f] = forms[f]
    BY <1>1, <1>2, <1>5, <1>6
  <1>7. CASE forms'[f].version > forms[f].version
    BY <1>1, <1>2, <1>3, <1>5, <1>7
  <1> QED BY <1>4, <1>6, <1>7

\* A write.
LEMMA WriteStep ==
  ASSUME Inv, NEW w \in Handlers, Write(w)
  PROVE  /\ Inv'
         /\ \A f \in Forms : \/ f \notin Selected(w) /\ forms'[f] = forms[f]
                             \/ /\ f \in Selected(w)
                                /\ Allowed(pending[w].op, pending[w].by, forms[f])
                                /\ Becomes(pending[w].op, forms[f], forms'[f])
         /\ \A f \in Forms : Advances(f)
  <1>0. pending[w] # Idle /\ pending[w].op \in Operations
    BY WriteLands, RequestType DEF Inv
  <1>1. PICK rows : /\ CompareAndSwap(w, rows)
                    /\ \A f \in Selected(w) : Becomes(pending[w].op, forms[f], rows[f])
    BY WriteLands DEF Lands
  <1>2. \A f \in Selected(w) : rows[f] \in Row /\ rows[f].version >= forms[f].version
    BY <1>1 DEF Becomes
  <1>3. /\ forms' \in [Forms -> Row]
        /\ semesters' \in [Semesters -> {"absent", "closed", "open"}]
        /\ pending' = [v \in Handlers |-> pending'[v]]
        /\ \A v \in Handlers : pending'[v] = Idle \/ IsRequest(pending'[v])
    BY <1>0, <1>1, <1>2, SwapType DEF Inv
  <1>4. TypeOK'
    BY <1>3, WriteNotices DEF TypeOK, IsRequest
  <1>5. \A f \in Selected(w) :
            /\ f \in Forms /\ forms[f] \in Row /\ forms[f].status # "none"
            /\ Allowed(pending[w].op, pending[w].by, forms[f])
    BY <1>0, <1>1, FreshRequest DEF CompareAndSwap
  <1>6. ASSUME NEW f \in Forms
        PROVE  IF f \in Selected(w)
               THEN /\ Becomes(pending[w].op, forms[f], forms'[f])
                    /\ forms'[f].version > forms[f].version
               ELSE forms'[f] = forms[f]
    <2>1. CASE f \notin Selected(w)
      BY <1>1, <2>1 DEF CompareAndSwap
    <2>2. CASE f \in Selected(w)
      <3>1. forms'[f] = [rows[f] EXCEPT !.version = @ + 1]
        BY <1>1, <2>2 DEF CompareAndSwap
      <3>2. Becomes(pending[w].op, forms[f], forms'[f])
        BY <1>1, <1>2, <1>5, <2>2, <3>1, NextVersionRow
      <3>3. forms'[f].version = rows[f].version + 1
        BY <1>2, <2>2, <3>1, VersionType
      <3>4. rows[f].version \in Nat /\ forms[f].version \in Nat
        BY <1>2, <1>5, <2>2 DEF Row
      <3> QED BY <1>2, <2>2, <3>2, <3>3, <3>4
    <2> QED BY <2>1, <2>2
  <1>7. \A v \in Handlers : pending'[v] = Idle \/ pending'[v] = pending[v]
    BY <1>1 DEF CompareAndSwap, TypeOK, Inv
  <1>8. \A f \in Forms : Advances(f)
    BY <1>6 DEF Advances, Becomes
  <1>9. SnapshotCoherent'
    BY <1>3, <1>7, <1>8, SnapshotsKept DEF Inv
  <1>10. \A f \in Forms : StageOK(forms'[f])
    BY <1>6 DEF Becomes, Inv
  <1>11. ASSUME NEW f \in Forms, Exists(f)'
         PROVE  /\ Exists(f) /\ forms'[f].locked = forms[f].locked
                /\ IsOpen(SemesterOf[f])' = IsOpen(SemesterOf[f])
                /\ semesters' = semesters
    BY <1>1, <1>5, <1>6, <1>11 DEF Exists, Becomes, IsOpen, CompareAndSwap
  <1>12. OpenSemesterUnlocked'
    BY <1>11 DEF Inv, OpenSemesterUnlocked
  <1>13. \A f \in Forms : IF Exists(f)' THEN semesters'[SemesterOf[f]] # "absent"
                                       ELSE forms'[f] = NoForm
    <2>1. ASSUME NEW f \in Forms, ~Exists(f)' PROVE forms'[f] = NoForm
      BY <1>6, <2>1 DEF Inv, Exists, Becomes
    <2> QED BY <1>11, <2>1 DEF Inv
  <1>14. Inv'
    BY <1>4, <1>9, <1>10, <1>12, <1>13 DEF Inv, StageOK, SignedForStage, ScoredForStage,
       RankedForStage, SummedForStage
  <1> QED BY <1>5, <1>6, <1>8, <1>14

\* Reading makes a snapshot that is coherent at that moment.
LEMMA ReadStep ==
  ASSUME Inv, NEW w \in Handlers, NEW op \in Operations, NEW role \in Roles,
         NEW S \in SUBSET Forms, Read(w, op, role, S)
  PROVE  Inv' /\ forms' = forms
  <1> DEFINE request == [op |-> op, by |-> role, snap |-> [f \in S |-> forms[f]]]
  <1>1. /\ S # {} /\ UNCHANGED <<forms, semesters, notices>>
        /\ pending' = [pending EXCEPT ![w] = request]
        /\ \A f \in S : Exists(f) /\ Allowed(op, role, forms[f])
    BY DEF Read
  <1>2. \A v \in Handlers : pending'[v] = IF v = w THEN request ELSE pending[v]
    BY <1>1 DEF Inv, TypeOK
  <1>3. pending' = [v \in Handlers |-> pending'[v]]
    BY <1>1 DEF Inv, TypeOK
  <1>4. IsRequest(request)
    <2>1. [f \in S |-> forms[f]] \in [S -> Row]
      BY DEF Inv, TypeOK
    <2> QED BY <1>1, <2>1 DEF IsRequest
  <1>5. request # Idle => /\ DOMAIN request.snap = S
                          /\ request.op = op /\ request.by = role
                          /\ \A f \in S : request.snap[f] = forms[f]
    OBVIOUS
  <1>a. \A f \in Forms : forms[f].version \in Nat
    BY DEF Inv, TypeOK, Row
  <1> HIDE DEF request
  <1>6. TypeOK'
    BY <1>1, <1>2, <1>3, <1>4 DEF Inv, TypeOK, IsRequest
  <1>7. ASSUME NEW v \in Handlers, pending'[v] # Idle
        PROVE  \A f \in Selected(v)' :
                  /\ Exists(f)'
                  /\ Allowed(pending'[v].op, pending'[v].by, Snap(v)'[f])
                  /\ Snap(v)'[f].version <= forms'[f].version
                  /\ Snap(v)'[f].version = forms'[f].version
                       => Snap(v)'[f] = forms'[f]
    <2>1. CASE v = w
      <3>1. pending'[v] = request /\ request # Idle
        BY <1>2, <1>7, <2>1
      <3>2. Selected(v)' = S /\ Snap(v)' = request.snap
        BY <1>5, <3>1 DEF Selected, Snap
      <3> QED BY <1>1, <1>5, <1>a, <3>1, <3>2 DEF Exists
    <2>2. CASE v # w
      <3>1. /\ pending'[v] = pending[v] /\ pending[v] # Idle
            /\ Selected(v)' = Selected(v) /\ Snap(v)' = Snap(v)
        BY <1>2, <1>7, <2>2 DEF Selected, Snap
      <3> QED BY <1>1, <3>1 DEF Inv, SnapshotCoherent, Exists
    <2> QED BY <2>1, <2>2
  <1>8. SnapshotCoherent'
    BY <1>7 DEF SnapshotCoherent
  <1>9. /\ OpenSemesterUnlocked'
        /\ \A f \in Forms : IF Exists(f)' THEN semesters'[SemesterOf[f]] # "absent"
                                       ELSE forms'[f] = NoForm
    BY <1>1 DEF Inv, OpenSemesterUnlocked, Exists, IsOpen
  <1>10. \A f \in Forms : StageOK(forms[f])'
    BY <1>1 DEF Inv, StageOK, SignedForStage, ScoredForStage, RankedForStage,
                SummedForStage
  <1> QED BY <1>1, <1>6, <1>8, <1>9, <1>10 DEF Inv

LEMMA FailStep ==
  ASSUME Inv, NEW w \in Handlers, Fail(w)
  PROVE  Inv' /\ forms' = forms
  <1>1. /\ UNCHANGED <<forms, semesters, notices>>
        /\ pending' = [v \in Handlers |-> pending'[v]]
        /\ \A v \in Handlers : pending'[v] = Idle \/ pending'[v] = pending[v]
    BY DEF Fail, Inv, TypeOK
  <1>2. TypeOK'
    BY <1>1 DEF Inv, TypeOK, IsRequest
  <1>3. SnapshotCoherent'
    BY <1>1, SnapshotsKept DEF Inv, Advances, TypeOK
  <1>4. /\ OpenSemesterUnlocked'
        /\ \A f \in Forms : IF Exists(f)' THEN semesters'[SemesterOf[f]] # "absent"
                                       ELSE forms'[f] = NoForm
    BY <1>1 DEF Inv, OpenSemesterUnlocked, Exists, IsOpen
  <1>5. \A f \in Forms : StageOK(forms[f])'
    BY <1>1 DEF Inv, StageOK, SignedForStage, ScoredForStage, RankedForStage,
                SummedForStage
  <1> QED BY <1>1, <1>2, <1>3, <1>4, <1>5 DEF Inv

\* The empty row and a new one are in order, and a new one is unlocked.
LEMMA NewFormStage ==
  /\ StageOK(NoForm) /\ StageOK(NewForm)
  /\ NoForm.status = "none" /\ NewForm.status = "draft" /\ ~NewForm.locked
  <1>1. /\ NoForm.status = "none" /\ NewForm.status = "draft" /\ ~NewForm.locked
        /\ NoForm.signed = {} /\ NoForm.classScore = Null /\ NoForm.finalScore = Null
        /\ NewForm.signed = {} /\ NewForm.classScore = Null
        /\ NewForm.finalScore = Null
    BY DEF NoForm, NewForm
  <1> QED BY <1>1, StageMeaning

LEMMA CreateStep ==
  ASSUME Inv, NEW f \in Forms, Create(f)
  PROVE  Inv'
  <1>1. /\ forms[f].status = "none" /\ semesters[SemesterOf[f]] # "absent"
        /\ forms' = [forms EXCEPT ![f] = NewForm]
        /\ UNCHANGED <<semesters, pending, notices>>
    BY DEF Create, Exists
  <1>2. forms' \in [Forms -> Row]
    BY <1>1, NewFormType DEF Inv, TypeOK
  <1>3. \A g \in Forms : forms'[g] = IF g = f THEN NewForm ELSE forms[g]
    BY <1>1 DEF Inv, TypeOK
  <1>4. TypeOK'
    BY <1>1, <1>2 DEF Inv, TypeOK, IsRequest
  <1>5. \A g \in Forms : Advances(g)
    BY <1>1, <1>3 DEF Advances
  <1>6. SnapshotCoherent'
    BY <1>1, <1>2, <1>5, SnapshotsKept DEF Inv
  <1>7. OpenSemesterUnlocked'
    BY <1>1, <1>3, NewFormStage DEF Inv, OpenSemesterUnlocked, Exists, IsOpen
  <1>8. \A g \in Forms : IF Exists(g)' THEN semesters'[SemesterOf[g]] # "absent"
                                       ELSE forms'[g] = NoForm
    BY <1>1, <1>3, NewFormStage DEF Inv, Exists
  <1>9. \A g \in Forms : StageOK(forms'[g])
    BY <1>3, NewFormStage DEF Inv
  <1> QED BY <1>4, <1>6, <1>7, <1>8, <1>9 DEF Inv, StageOK, SignedForStage,
             ScoredForStage, RankedForStage, SummedForStage

\* Locking or unlocking: a new version if it changes anything, and nothing else.
LEMMA SetLockRow ==
  ASSUME NEW r \in Row, NEW locked \in BOOLEAN, StageOK(r)
  PROVE  /\ SetLock(r, locked) \in Row /\ StageOK(SetLock(r, locked))
         /\ SetLock(r, locked).status = r.status
         /\ IF r.status = "none" THEN SetLock(r, locked) = r
                                 ELSE SetLock(r, locked).locked = locked
         /\ \/ SetLock(r, locked) = r
            \/ SetLock(r, locked).version > r.version
         /\ SetLock(r, locked).sections = r.sections
         /\ SetLock(r, locked).evidence = r.evidence
         /\ SetLock(r, locked) = [r EXCEPT !.locked = SetLock(r, locked).locked,
                                           !.version = SetLock(r, locked).version]
         /\ SetLock(r, locked).locked \in BOOLEAN
  <1> DEFINE s == [r EXCEPT !.locked = locked, !.version = @ + 1]
  <1>1. CASE r.status = "none" \/ r.locked = locked
    <2>1. SetLock(r, locked) = r
      BY <1>1 DEF SetLock
    <2>2. r = [r EXCEPT !.locked = r.locked, !.version = r.version]
      BY DEF Row
    <2>3. r.locked \in BOOLEAN
      BY DEF Row
    <2> QED BY <1>1, <2>1, <2>2, <2>3
  <1>2. CASE ~(r.status = "none" \/ r.locked = locked)
    <2>1. SetLock(r, locked) = s
      BY <1>2 DEF SetLock
    <2>2. /\ s.status = r.status /\ s.locked = locked
          /\ s.version = r.version + 1 /\ r.version \in Nat
          /\ s.sections = r.sections /\ s.evidence = r.evidence
          /\ s.studentScore = r.studentScore /\ s.sheet = r.sheet
          /\ s.classScore = r.classScore /\ s.finalScore = r.finalScore
          /\ s.signed = r.signed /\ s.rank = r.rank
      BY DEF Row
    <2>3. s \in Row
      BY <2>1, SetLockType
    <2>4. s = [r EXCEPT !.locked = s.locked, !.version = s.version]
      BY DEF Row
    <2> HIDE DEF s
    <2>5. StageOK(s)
      BY <2>2 DEF StageOK, SignedForStage, ScoredForStage, RankedForStage,
                  SummedForStage
    <2>6. s.version > r.version
      BY <2>2
    <2> QED BY <1>2, <2>1, <2>2, <2>3, <2>4, <2>5, <2>6
  <1> QED BY <1>1, <1>2

\* Semester administration: both kinds close `closing` and open at most one
\* semester, whose forms they unlock.
LEMMA SwitchStep ==
  ASSUME Inv, NEW h \in Semesters, NEW closing \in SUBSET Semesters,
         NEW opening \in SUBSET {h}, NEW others \in SUBSET (Semesters \ {h}),
         NEW state \in {"closed", "open"},
         SwitchForms(closing, opening), Deactivate(others, h, state),
         UNCHANGED <<pending, notices>>,
         closing \subseteq others \cup {h},
         closing \cap opening = {},
         state = "open" => closing = others /\ others = OthersOpen(h),
         opening = {h} <=> state = "open" /\ semesters[h] # "absent"
  PROVE  /\ Inv'
         /\ \A f \in Forms : /\ forms'[f].sections = forms[f].sections
                             /\ forms'[f].evidence = forms[f].evidence
                             /\ \E locked \in BOOLEAN :
                                  forms'[f] = [forms[f] EXCEPT !.locked = locked,
                                                 !.version = forms'[f].version]
  <1>1. \A f \in Forms : /\ forms[f] \in Row /\ StageOK(forms[f])
                         /\ SemesterOf[f] \in Semesters
    BY SemesterAssumption DEF Inv, TypeOK
  <1>2. \A f \in Forms : forms'[f] = IF SemesterOf[f] \in closing
                                    THEN SetLock(forms[f], TRUE)
                                    ELSE IF SemesterOf[f] \in opening
                                    THEN SetLock(forms[f], FALSE)
                                    ELSE forms[f]
    BY DEF SwitchForms
  <1>3. \A g \in Semesters : semesters'[g] = IF g = h THEN state
                                            ELSE IF g \in others THEN "closed"
                                            ELSE semesters[g]
    BY DEF Deactivate
  <1>4. ASSUME NEW f \in Forms
        PROVE  /\ forms'[f] \in Row /\ StageOK(forms'[f])
               /\ forms'[f].status = forms[f].status /\ Advances(f)
               /\ forms[f].status = "none" => forms'[f] = forms[f]
               /\ forms'[f].sections = forms[f].sections
               /\ forms'[f].evidence = forms[f].evidence
               /\ \E locked \in BOOLEAN :
                    forms'[f] = [forms[f] EXCEPT !.locked = locked,
                                                 !.version = forms'[f].version]
    <2>1. CASE \E locked \in BOOLEAN : forms'[f] = SetLock(forms[f], locked)
      <3>1. PICK locked \in BOOLEAN : forms'[f] = SetLock(forms[f], locked)
        BY <2>1
      <3> DEFINE s == SetLock(forms[f], locked)
      <3>2. /\ s \in Row /\ StageOK(s) /\ s.status = forms[f].status
            /\ s = forms[f] \/ s.version > forms[f].version
            /\ s.sections = forms[f].sections /\ s.evidence = forms[f].evidence
            /\ s.locked \in BOOLEAN
            /\ forms[f].status = "none" => s = forms[f]
            /\ s = [forms[f] EXCEPT !.locked = s.locked, !.version = s.version]
        BY <1>1, SetLockRow
      <3> HIDE DEF s
      <3>3. forms'[f] = s
        BY <3>1 DEF s
      <3> QED BY <3>2, <3>3 DEF Advances
    <2>2. CASE forms'[f] = forms[f]
      <3>1. /\ forms[f].locked \in BOOLEAN
            /\ forms[f] = [forms[f] EXCEPT !.locked = forms[f].locked,
                                           !.version = forms[f].version]
        BY <1>1 DEF Row
      <3> QED BY <1>1, <2>2, <3>1 DEF Advances
    <2> QED BY <1>2, <2>1, <2>2
  <1>5. forms' \in [Forms -> Row]
    BY <1>4 DEF SwitchForms
  <1>6. semesters' \in [Semesters -> {"absent", "closed", "open"}]
    BY DEF Deactivate, Inv, TypeOK
  <1>7. TypeOK'
    <2>1. TypeOK
      BY DEF Inv
    <2> QED BY <1>5, <1>6, <2>1 DEF TypeOK, IsRequest
  <1>8. SnapshotCoherent'
    BY <1>4, <1>5, SnapshotsKept DEF Inv
  <1>9. ASSUME NEW f \in Forms
        PROVE  IF Exists(f)' THEN semesters'[SemesterOf[f]] # "absent"
                             ELSE forms'[f] = NoForm
    <2>1. IF forms[f].status # "none" THEN semesters[SemesterOf[f]] # "absent"
                                      ELSE forms[f] = NoForm
      BY DEF Inv, Exists
    <2>2. /\ forms'[f].status = forms[f].status
          /\ forms[f].status = "none" => forms'[f] = forms[f]
      BY <1>4
    <2>3. semesters[SemesterOf[f]] # "absent" => semesters'[SemesterOf[f]] # "absent"
      BY <1>1, <1>3
    <2> QED BY <2>1, <2>2, <2>3 DEF Exists
  <1>10. ASSUME NEW f \in Forms, Exists(f)', IsOpen(SemesterOf[f])'
         PROVE  ~forms'[f].locked
    <2>1. Exists(f) /\ semesters[SemesterOf[f]] # "absent"
      BY <1>4, <1>10 DEF Exists, Inv
    <2>2. CASE SemesterOf[f] = h
      <3>1. state = "open" /\ opening = {h}
        BY <1>3, <1>10, <2>1, <2>2 DEF IsOpen
      <3>2. forms'[f] = SetLock(forms[f], FALSE)
        BY <1>2, <2>2, <3>1
      <3> QED BY <1>1, <2>1, <3>2, SetLockRow DEF Exists
    <2>3. CASE SemesterOf[f] # h
      <3>1. SemesterOf[f] \notin others /\ IsOpen(SemesterOf[f])
        BY <1>1, <1>3, <1>10, <2>3 DEF IsOpen
      <3>2. forms'[f] = forms[f]
        BY <1>2, <2>3, <3>1
      <3> QED BY <2>1, <3>1, <3>2 DEF Inv, OpenSemesterUnlocked
    <2> QED BY <2>2, <2>3
  <1>11. OpenSemesterUnlocked'
    BY <1>10 DEF OpenSemesterUnlocked
  <1>12. Inv'
    BY <1>4, <1>7, <1>8, <1>9, <1>11 DEF Inv, StageOK, SignedForStage,
       ScoredForStage, RankedForStage, SummedForStage
  <1> QED BY <1>4, <1>12

LEMMA CreateSemesterStep ==
  ASSUME Inv, NEW h \in Semesters, NEW active \in BOOLEAN, CreateSemester(h, active)
  PROVE  /\ Inv'
         /\ \A f \in Forms : /\ forms'[f].sections = forms[f].sections
                             /\ forms'[f].evidence = forms[f].evidence
                             /\ \E locked \in BOOLEAN :
                                  forms'[f] = [forms[f] EXCEPT !.locked = locked,
                                                 !.version = forms'[f].version]
  <1> DEFINE others == IF active THEN OthersOpen(h) ELSE {}
             state == IF active THEN "open" ELSE "closed"
  <1>1. /\ semesters[h] = "absent" /\ SwitchForms(others, {})
        /\ Deactivate(others, h, state) /\ UNCHANGED <<pending, notices>>
    BY DEF CreateSemester
  <1>2. /\ others \in SUBSET Semesters /\ others \in SUBSET (Semesters \ {h})
        /\ state \in {"closed", "open"} /\ {} \in SUBSET {h}
        /\ others \subseteq others \cup {h} /\ others \cap {} = {}
        /\ state = "open" => others = others /\ others = OthersOpen(h)
        /\ {} = {h} <=> state = "open" /\ semesters[h] # "absent"
    BY <1>1 DEF OthersOpen
  <1> HIDE DEF others, state
  <1> QED BY <1>1, <1>2, SwitchStep, ZenonT(40)

LEMMA ToggleActiveStep ==
  ASSUME Inv, NEW h \in Semesters, NEW active \in BOOLEAN, ToggleActive(h, active)
  PROVE  /\ Inv'
         /\ \A f \in Forms : /\ forms'[f].sections = forms[f].sections
                             /\ forms'[f].evidence = forms[f].evidence
                             /\ \E locked \in BOOLEAN :
                                  forms'[f] = [forms[f] EXCEPT !.locked = locked,
                                                 !.version = forms'[f].version]
  <1> DEFINE others == OthersOpen(h)
  <1>0. /\ others \in SUBSET Semesters /\ others \in SUBSET (Semesters \ {h})
        /\ h \notin others
    BY DEF OthersOpen
  <1>1. CASE active
    <2>1. /\ semesters[h] # "absent" /\ SwitchForms(others, {h})
          /\ Deactivate(others, h, "open") /\ UNCHANGED <<pending, notices>>
      BY <1>1 DEF ToggleActive
    <2>2. others \cap {h} = {} /\ others \subseteq others \cup {h}
      BY <1>0
    <2>3. others = OthersOpen(h)
      OBVIOUS
    <2> HIDE DEF others
    <2> QED BY <1>0, <2>1, <2>2, <2>3, SwitchStep
  <1>2. CASE ~active
    <2>1. /\ semesters[h] # "absent" /\ SwitchForms({h}, {})
          /\ Deactivate({}, h, "closed") /\ UNCHANGED <<pending, notices>>
      BY <1>2 DEF ToggleActive
    <2>2. /\ {h} \in SUBSET Semesters /\ {} \in SUBSET {h}
          /\ {} \in SUBSET (Semesters \ {h}) /\ {h} \subseteq {} \cup {h}
          /\ {h} \cap {} = {} /\ {} # {h} /\ "closed" # "open"
      OBVIOUS
    <2> QED BY <2>1, <2>2, SwitchStep
  <1> QED BY <1>1, <1>2

LEMMA AdministerStep ==
  ASSUME Inv, NEW h \in Semesters, Administer(h)
  PROVE  /\ Inv'
         /\ \A f \in Forms : /\ forms'[f].sections = forms[f].sections
                             /\ forms'[f].evidence = forms[f].evidence
                             /\ \E locked \in BOOLEAN :
                                  forms'[f] = [forms[f] EXCEPT !.locked = locked,
                                                 !.version = forms'[f].version]
  <1>1. PICK active \in BOOLEAN : \/ CreateSemester(h, active)
                                 \/ ToggleActive(h, active)
    BY DEF Administer, UpdateSemester
  <1> QED BY <1>1, CreateSemesterStep, ToggleActiveStep

\* The ways to read, as one.
Reads(w) == \/ ReadOne(w) \/ SubmitClassToAdvisor(w) \/ SubmitClassToFaculty(w)
            \/ SubmitFacultyToTrainingDepartment(w) \/ ReadFinalizeBatch(w)

\* Whatever a call is for, it begins by reading some forms.
LEMMA ReadsRead ==
  ASSUME NEW w \in Handlers, Reads(w)
  PROVE  \E op \in Operations, role \in Roles, S \in SUBSET Forms : Read(w, op, role, S)
  <1>1. CASE ReadOne(w)
    <2>1. PICK f \in Forms, op \in {"edit", "review", "decide", "finalize", "reopen"},
              role \in Roles : Read(w, op, role, {f})
      BY <1>1 DEF ReadOne
    <2>2. {f} \in SUBSET Forms /\ op \in Operations
      BY DEF Operations
    <2> QED BY <2>1, <2>2
  <1>2. CASE \/ SubmitClassToAdvisor(w) \/ SubmitClassToFaculty(w)
             \/ SubmitFacultyToTrainingDepartment(w)
    <2>1. /\ {"classLeader", "advisor", "faculty"} \subseteq Roles
          /\ "forward" \in Operations
          /\ \A role, h, classes : Ready(role, h, classes) \in SUBSET Forms
      BY DEF Roles, Reviewers, Operations, Ready
    <2>2. PICK role \in {"classLeader", "advisor", "faculty"}, S \in SUBSET Forms :
             Read(w, "forward", role, S)
      BY <1>2, <2>1 DEF SubmitClassToAdvisor, SubmitClassToFaculty, ReadClass,
         SubmitFacultyToTrainingDepartment
    <2> QED BY <2>1, <2>2
  <1>3. CASE ReadFinalizeBatch(w)
    <2>1. PICK S \in SUBSET Forms : Read(w, "finalizeBatch", "admin", S)
      BY <1>3 DEF ReadFinalizeBatch
    <2>2. "finalizeBatch" \in Operations /\ "admin" \in Roles
      BY DEF Operations, Roles, Reviewers
    <2> QED BY <2>1, <2>2
  <1> QED BY <1>1, <1>2, <1>3 DEF Reads

LEMMA ReadsStep ==
  ASSUME Inv, NEW w \in Handlers, Reads(w)
  PROVE  Inv' /\ forms' = forms
  <1>1. PICK op \in Operations, role \in Roles, S \in SUBSET Forms :
           Read(w, op, role, S)
    BY ReadsRead
  <1> QED BY <1>1, ReadStep

-----------------------------------------------------------------------------
(* The theorems.                                                            *)

\* The invariant holds at the start: no form, no semester, no request.
LEMMA InvInit == Init => Inv
  <1> SUFFICES ASSUME Init PROVE Inv
    OBVIOUS
  <1>1. /\ forms = [f \in Forms |-> NoForm] /\ notices = {}
        /\ semesters = [h \in Semesters |-> "absent"]
        /\ pending = [w \in Handlers |-> Idle]
    BY DEF Init
  <1>2. TypeOK
    BY <1>1, NewFormType DEF TypeOK
  <1>3. SnapshotCoherent
    BY <1>1 DEF SnapshotCoherent
  <1>4. \A f \in Forms : StageOK(forms[f]) /\ ~Exists(f) /\ forms[f] = NoForm
    BY <1>1, NewFormStage DEF Exists
  <1> QED BY <1>2, <1>3, <1>4 DEF Inv, OpenSemesterUnlocked

\* Every step keeps it.
LEMMA InvStep == Inv /\ [Next]_vars => Inv'
  <1> SUFFICES ASSUME Inv, [Next]_vars PROVE Inv'
    OBVIOUS
  <1>1. ASSUME NEW f \in Forms, Create(f) PROVE Inv'
    BY <1>1, CreateStep
  <1>2. ASSUME NEW w \in Handlers, Reads(w) PROVE Inv'
    BY <1>2, ReadsStep
  <1>3. ASSUME NEW w \in Handlers, Write(w) PROVE Inv'
    BY <1>3, WriteStep
  <1>4. ASSUME NEW w \in Handlers, Fail(w) PROVE Inv'
    BY <1>4, FailStep
  <1>5. ASSUME NEW h \in Semesters, Administer(h) PROVE Inv'
    BY <1>5, AdministerStep
  <1>6. CASE UNCHANGED vars
    BY <1>6 DEF vars, Inv, TypeOK, IsRequest, SnapshotCoherent, Selected, Snap, Exists,
       StageOK, SignedForStage, ScoredForStage, RankedForStage, SummedForStage,
       OpenSemesterUnlocked, IsOpen
  <1> QED BY <1>1, <1>2, <1>3, <1>4, <1>5, <1>6 DEF Next, Reads

\* The inductive invariant holds of every reachable state.
THEOREM Invariance == Spec => []Inv
  BY InvInit, InvStep, PTL DEF Spec

\* Type correctness: no interleaving of requests and semester changes leaves a
\* row, a request or a notification outside its type.
THEOREM TypeCorrect == Spec => []TypeOK
  <1>1. Inv => TypeOK
    BY DEF Inv
  <1> QED BY <1>1, Invariance, PTL

\* The version check is enough: whoever passes it holds the row as it is.
THEOREM SnapshotsCoherent == Spec => []SnapshotCoherent
  <1>1. Inv => SnapshotCoherent
    BY DEF Inv
  <1> QED BY <1>1, Invariance, PTL

\* Nobody is skipped on the way to finalization, by either route, and no
\* signature outlives its round.
THEOREM SignaturesMatch == Spec => []SignaturesMatchStage
  <1>1. Inv => SignaturesMatchStage
    BY DEF Inv, StageOK, SignaturesMatchStage
  <1> QED BY <1>1, Invariance, PTL

\* A class score from the advisor's approval on, a final score when finalized:
\* `classScore ?? 0` never makes a zero of a missing score.
THEOREM ScoresMatch == Spec => []ScoresMatchStage
  <1>1. Inv => ScoresMatchStage
    BY DEF Inv, StageOK, ScoresMatchStage
  <1> QED BY <1>1, Invariance, PTL

\* The stored rank is that of the score that counts.
THEOREM RanksMatch == Spec => []RankMatchesStage
  <1>1. Inv => RankMatchesStage
    BY DEF Inv, StageOK, RankMatchesStage
  <1> QED BY <1>1, Invariance, PTL

\* The class score under review is the sum of this round's criteria.
THEOREM ClassScoresAdd == Spec => []ClassScoreIsSheetTotal
  <1>1. Inv => ClassScoreIsSheetTotal
    BY DEF Inv, StageOK, ClassScoreIsSheetTotal
  <1> QED BY <1>1, Invariance, PTL

\* Students of the open semester are never locked out.
THEOREM OpenUnlocked == Spec => []OpenSemesterUnlocked
  <1>1. Inv => OpenSemesterUnlocked
    BY DEF Inv
  <1> QED BY <1>1, Invariance, PTL

\* What each kind of step does to one form.
LEMMA FormChange ==
  ASSUME Inv, [Next]_vars, NEW f \in Forms
  PROVE  \/ forms'[f] = forms[f]
         \/ forms[f] = NoForm /\ forms'[f] = NewForm
         \/ /\ forms'[f].sections = forms[f].sections
            /\ forms'[f].evidence = forms[f].evidence
            /\ \E locked \in BOOLEAN :
                 forms'[f] = [forms[f] EXCEPT !.locked = locked,
                                              !.version = forms'[f].version]
         \/ \E op \in Operations : \E role :
              Allowed(op, role, forms[f]) /\ Becomes(op, forms[f], forms'[f])
  <1>1. ASSUME NEW g \in Forms, Create(g)
        PROVE  \/ forms'[f] = forms[f]
               \/ forms[f] = NoForm /\ forms'[f] = NewForm
    BY <1>1 DEF Create, Exists, Inv, TypeOK
  <1>2. ASSUME NEW w \in Handlers,
               Reads(w) \/ Fail(w)
        PROVE  forms'[f] = forms[f]
    BY <1>2, ReadsStep, FailStep
  <1>3. ASSUME NEW w \in Handlers, Write(w)
        PROVE  \/ forms'[f] = forms[f]
               \/ \E op \in Operations : \E role :
                    Allowed(op, role, forms[f]) /\ Becomes(op, forms[f], forms'[f])
    <2>1. pending[w].op \in Operations
      BY <1>3, WriteLands, RequestType DEF Inv
    <2> QED BY <1>3, <2>1, WriteStep
  <1>4. ASSUME NEW h \in Semesters, Administer(h)
        PROVE  /\ forms'[f].sections = forms[f].sections
               /\ forms'[f].evidence = forms[f].evidence
               /\ \E locked \in BOOLEAN :
                    forms'[f] = [forms[f] EXCEPT !.locked = locked,
                                                 !.version = forms'[f].version]
    BY <1>4, AdministerStep
  <1>5. CASE UNCHANGED vars
    BY <1>5 DEF vars
  <1> QED BY <1>1, <1>2, <1>3, <1>4, <1>5 DEF Next, Reads

\* The total a student sees is the sum of the sections beside it: the request
\* that saves one section computes the total from the other four as they are.
THEOREM TotalsConsistent == Spec => []StudentTotalConsistent
  <1> DEFINE Adds == \A f \in Forms : TotalOK(forms[f])
  <1>1. TotalOK(NoForm) /\ TotalOK(NewForm)
    <2> DEFINE zeros == [s \in Sections |-> 0]
    <2>1. StudentTotal(zeros) = 0
      BY FormAssumption, NothingFilledIn
    <2>2. /\ NoForm.sections = zeros /\ NoForm.studentScore = 0
          /\ NewForm.sections = zeros /\ NewForm.studentScore = 0
      BY DEF NoForm, NewForm
    <2> HIDE DEF zeros
    <2> QED BY <2>1, <2>2 DEF TotalOK
  <1>2. Init => Adds
    BY <1>1 DEF Init
  <1>3. Inv /\ Adds /\ [Next]_vars => Adds'
    <2> SUFFICES ASSUME Inv, Adds, [Next]_vars, NEW f \in Forms
                 PROVE  TotalOK(forms'[f])
      BY DEF TotalOK
    <2>1. forms[f] \in Row /\ TotalOK(forms[f])
      BY DEF Inv, TypeOK
    <2>2. CASE forms'[f] = NewForm \/ forms'[f] = forms[f]
      BY <1>1, <2>1, <2>2
    <2>3. ASSUME NEW locked \in BOOLEAN,
                 forms'[f] = [forms[f] EXCEPT !.locked = locked,
                                              !.version = forms'[f].version]
          PROVE  TotalOK(forms'[f])
      <3>1. /\ forms'[f].sections = forms[f].sections
            /\ forms'[f].studentScore = forms[f].studentScore
        BY <2>1, <2>3 DEF Row
      <3> QED BY <2>1, <3>1 DEF TotalOK
    <2>4. ASSUME NEW op \in Operations, Becomes(op, forms[f], forms'[f])
          PROVE  TotalOK(forms'[f])
      BY <2>1, <2>4 DEF Becomes, TotalOK
    <2> QED BY <2>2, <2>3, <2>4, FormChange
  <1>4. Adds => StudentTotalConsistent
    BY DEF TotalOK, StudentTotalConsistent
  <1> QED BY <1>2, <1>3, <1>4, Invariance, PTL DEF Spec

\* No total leaves the scale of 0 to 100, however many requests and reviewers
\* contributed to it: the maxima of the criteria bound the sum.
THEOREM ScaleKept == Spec => []TotalsOnScale
  <1>1. Inv => TotalsOnScale
    <2> SUFFICES ASSUME Inv, NEW f \in Forms PROVE OnScale(forms[f])
      BY DEF TotalsOnScale
    <2>1. /\ forms[f].studentScore \in StudentTotals
          /\ forms[f].classScore # Null => forms[f].classScore \in ClassScores
          /\ forms[f].finalScore # Null => forms[f].finalScore \in FinalScores
      BY DEF Inv, TypeOK, Row
    <2> QED BY <2>1, TotalsType DEF OnScale
  <1> QED BY <1>1, Invariance, PTL

-----------------------------------------------------------------------------
(* Action properties.                                                       *)

\* The student's work changes only while it is the student's turn and the
\* semester is open, whatever saves and uploads were under way before.
THEOREM WorkFrozen == Spec => StudentWorkFrozen
  <1> DEFINE Frozen == \A f \in Forms :
        \/ /\ forms'[f].sections = forms[f].sections
           /\ forms'[f].evidence = forms[f].evidence
        \/ Editable(forms[f].status) /\ ~forms[f].locked
  <1>1. Inv /\ [Next]_vars => [Frozen]_vars
    <2> SUFFICES ASSUME Inv, [Next]_vars, NEW f \in Forms
                 PROVE  \/ /\ forms'[f].sections = forms[f].sections
                           /\ forms'[f].evidence = forms[f].evidence
                        \/ Editable(forms[f].status) /\ ~forms[f].locked
      OBVIOUS
    <2>1. CASE forms[f] = NoForm /\ forms'[f] = NewForm
      <3>1. /\ NewForm.sections = NoForm.sections
            /\ NewForm.evidence = NoForm.evidence
        BY DEF NewForm, NoForm
      <3> QED BY <2>1, <3>1
    <2>2. ASSUME NEW op \in Operations, NEW role,
                 Allowed(op, role, forms[f]), Becomes(op, forms[f], forms'[f])
          PROVE  \/ /\ forms'[f].sections = forms[f].sections
                    /\ forms'[f].evidence = forms[f].evidence
                 \/ Editable(forms[f].status) /\ ~forms[f].locked
      BY <2>2, AllowedMeaning DEF Becomes
    <2> QED BY <2>1, <2>2, FormChange
  <1> QED BY <1>1, Invariance, PTL DEF StudentWorkFrozen, Spec

\* A finalized form keeps scores, rank and signatures until it is reopened.
THEOREM Sealed == Spec => FinalizedSealed
  <1> DEFINE Seal == \A f \in Forms : forms[f].status = "finalized" =>
        \/ forms'[f].status = "draft"
        \/ \E locked \in BOOLEAN :
             forms'[f] = [forms[f] EXCEPT !.locked = locked,
                                          !.version = forms'[f].version]
  <1>1. Inv /\ [Next]_vars => [Seal]_vars
    <2> SUFFICES ASSUME Inv, [Next]_vars, NEW f \in Forms,
                        forms[f].status = "finalized"
                 PROVE  \/ forms'[f].status = "draft"
                        \/ \E locked \in BOOLEAN :
                             forms'[f] = [forms[f] EXCEPT !.locked = locked,
                                                 !.version = forms'[f].version]
      OBVIOUS
    <2>0. forms[f] # NoForm
      BY NewFormStage
    <2>1. CASE forms'[f] = forms[f]
      <3>1. /\ forms[f].locked \in BOOLEAN
            /\ forms[f] = [forms[f] EXCEPT !.locked = forms[f].locked,
                                           !.version = forms[f].version]
        BY DEF Inv, TypeOK, Row
      <3> QED BY <2>1, <3>1
    <2>2. ASSUME NEW op \in Operations, NEW role,
                 Allowed(op, role, forms[f]), Becomes(op, forms[f], forms'[f])
          PROVE  forms'[f].status = "draft"
      <3>1. op = "reopen"
        BY <2>2, AllowedMeaning DEF Operations
      <3> QED BY <2>2, <3>1 DEF Becomes
    <2> QED BY <2>0, <2>1, <2>2, FormChange
  <1> QED BY <1>1, Invariance, PTL DEF FinalizedSealed, Spec

\* What the steps do to versions: a row is left as it is, or it has none, or it
\* gets a higher version.
LEMMA FormsAdvance ==
  ASSUME Inv, [Next]_vars, NEW f \in Forms
  PROVE  Advances(f)
  <1>1. forms[f] \in Row /\ StageOK(forms[f])
    BY DEF Inv, TypeOK
  <1>2. ASSUME NEW g \in Forms, Create(g) PROVE Advances(f)
    BY <1>2 DEF Create, Exists, Advances, Inv, TypeOK
  <1>3. ASSUME NEW w \in Handlers, Reads(w) \/ Fail(w) PROVE Advances(f)
    BY <1>3, ReadsStep, FailStep DEF Advances
  <1>4. ASSUME NEW w \in Handlers, Write(w) PROVE Advances(f)
    BY <1>4, WriteStep
  <1>5. ASSUME NEW h \in Semesters, Administer(h) PROVE Advances(f)
    <2>1. PICK closing, opening : SwitchForms(closing, opening)
      <3>1. \E active \in BOOLEAN : CreateSemester(h, active) \/ ToggleActive(h, active)
        BY <1>5 DEF Administer, UpdateSemester
      <3> QED BY <3>1 DEF CreateSemester, ToggleActive
    <2>2. \/ forms'[f] = SetLock(forms[f], TRUE) \/ forms'[f] = SetLock(forms[f], FALSE)
          \/ forms'[f] = forms[f]
      BY <2>1 DEF SwitchForms
    <2> QED BY <1>1, <2>2, SetLockRow DEF Advances
  <1>6. CASE UNCHANGED vars
    BY <1>6 DEF vars, Advances
  <1> QED BY <1>2, <1>3, <1>4, <1>5, <1>6 DEF Next, Reads

\* A request that lost a race stays out: the versions it holds never come back,
\* and whatever changes a row it read makes it lose.
THEOREM LosersStayOut == Spec => LoserStaysOut
  <1> DEFINE Out == \A w \in Handlers : pending[w] # Idle /\ pending'[w] = pending[w] =>
                /\ \A f \in Selected(w) : forms'[f] # forms[f] => ~Fresh(w)'
                /\ ~Fresh(w) => ~Fresh(w)'
  <1>1. Inv /\ [Next]_vars => [Out]_vars
    <2> SUFFICES ASSUME Inv, [Next]_vars, NEW w \in Handlers, pending[w] # Idle,
                        pending'[w] = pending[w]
                 PROVE  /\ \A f \in Selected(w) : forms'[f] # forms[f] => ~Fresh(w)'
                        /\ ~Fresh(w) => ~Fresh(w)'
      OBVIOUS
    <2>1. Selected(w)' = Selected(w) /\ Snap(w)' = Snap(w)
      BY DEF Selected, Snap
    <2>2. ASSUME NEW f \in Selected(w)
          PROVE  /\ f \in Forms /\ forms[f].status # "none"
                 /\ Snap(w)[f].version \in Nat /\ forms[f].version \in Nat
                 /\ Snap(w)[f].version <= forms[f].version
      BY RequestType DEF Inv, TypeOK, SnapshotCoherent, Exists, Row
    <2>3. ASSUME NEW f \in Selected(w)
          PROVE  /\ forms'[f] = forms[f] \/ forms'[f].version > forms[f].version
                 /\ forms'[f].version \in Nat
      <3>1. forms'[f] \in Row
        BY <2>2, InvStep DEF Inv, TypeOK
      <3> QED BY <2>2, <3>1, FormsAdvance DEF Advances, Row
    <2>4. ASSUME NEW f \in Selected(w), forms'[f] # forms[f]
          PROVE  Snap(w)[f].version # forms'[f].version
      BY <2>2, <2>3, <2>4
    <2>5. ASSUME NEW f \in Selected(w), forms'[f] # forms[f] PROVE ~Fresh(w)'
      BY <2>1, <2>4, <2>5 DEF Fresh
    <2>6. ASSUME ~Fresh(w) PROVE ~Fresh(w)'
      <3>1. PICK f \in Selected(w) : forms[f].version # Snap(w)[f].version
        BY <2>6 DEF Fresh
      <3>2. forms'[f].version # Snap(w)[f].version
        BY <2>2, <2>3, <3>1
      <3> QED BY <2>1, <3>2 DEF Fresh
    <2> QED BY <2>5, <2>6
  <1> QED BY <1>1, Invariance, PTL DEF LoserStaysOut, Spec

-----------------------------------------------------------------------------
(* Semesters change as SemesterSwitch says.                                 *)

\* Requests leave the semesters alone.
LEMMA SemestersKept ==
  ASSUME NEW w \in Handlers, Reads(w) \/ Write(w) \/ Fail(w), Inv
  PROVE  UNCHANGED semesters
  <1>1. CASE Write(w)
    BY <1>1, WriteLands DEF Lands, CompareAndSwap
  <1>2. CASE Reads(w) \/ Fail(w)
    BY <1>2 DEF Reads, ReadOne, SubmitClassToAdvisor, SubmitClassToFaculty, ReadClass,
       SubmitFacultyToTrainingDepartment, ReadFinalizeBatch, Read, Fail
  <1> QED BY <1>1, <1>2

\* An administrator's transaction is one switch.
LEMMA AdministerSwitches ==
  ASSUME Inv, NEW h \in Semesters, Administer(h)
  PROVE  Switches!Create(h) \/ Switches!Open(h) \/ Switches!Close(h) \/ UNCHANGED semesters
  <1>1. /\ semesters \in [Semesters -> {"absent", "closed", "open"}]
        /\ OthersOpen(h) = {g \in Semesters \ {h} : semesters[g] = "open"}
    BY DEF Inv, TypeOK, OthersOpen, IsOpen
  <1>2. PICK active \in BOOLEAN : CreateSemester(h, active) \/ ToggleActive(h, active)
    BY DEF Administer, UpdateSemester
  <1>3. CASE active
    <2>1. Deactivate(OthersOpen(h), h, "open")
      BY <1>2, <1>3 DEF CreateSemester, ToggleActive
    <2> QED BY <1>1, <2>1 DEF Deactivate, Switches!Open
  <1>4. CASE ~active /\ CreateSemester(h, active)
    <2>1. semesters[h] = "absent" /\ Deactivate({}, h, "closed")
      BY <1>4 DEF CreateSemester
    <2> QED BY <1>1, <2>1 DEF Deactivate, Switches!Create
  <1>5. CASE ~active /\ ToggleActive(h, active)
    <2>1. semesters[h] # "absent" /\ Deactivate({}, h, "closed")
      BY <1>5 DEF ToggleActive
    <2>2. CASE semesters[h] = "open"
      BY <1>1, <2>1, <2>2 DEF Deactivate, Switches!Close
    <2>3. CASE semesters[h] = "closed"
      <3>1. \A g \in Semesters : semesters'[g] = semesters[g]
        BY <2>1, <2>3 DEF Deactivate
      <3>2. semesters' = [g \in Semesters |-> semesters[g]]
        BY <2>1, <2>3 DEF Deactivate
      <3> QED BY <1>1, <3>2
    <2> QED BY <1>1, <2>1, <2>2, <2>3
  <1> QED BY <1>2, <1>3, <1>4, <1>5

\* Of all that happens to forms and requests, semesters see one switch at a
\* time, and opening one closes whichever was open.
THEOREM SwitchRefined == Spec => ImplementsSwitch
  <1>1. Init => Switches!Init
    BY DEF Init, Switches!Init
  <1>2. Inv /\ [Next]_vars => [Switches!Next]_semesters
    <2> SUFFICES ASSUME Inv, [Next]_vars PROVE Switches!Next \/ UNCHANGED semesters
      OBVIOUS
    <2>1. ASSUME NEW f \in Forms, Create(f) PROVE UNCHANGED semesters
      BY <2>1 DEF Create
    <2>2. ASSUME NEW w \in Handlers, Reads(w) \/ Write(w) \/ Fail(w)
          PROVE  UNCHANGED semesters
      BY <2>2, SemestersKept
    <2>3. ASSUME NEW h \in Semesters, Administer(h)
          PROVE  Switches!Next \/ UNCHANGED semesters
      BY <2>3, AdministerSwitches DEF Switches!Next
    <2>4. CASE UNCHANGED vars
      BY <2>4 DEF vars
    <2> QED BY <2>1, <2>2, <2>3, <2>4 DEF Next, Reads
  <1> QED BY <1>1, <1>2, Invariance, PTL DEF Spec, ImplementsSwitch, Switches!Spec

-----------------------------------------------------------------------------
(* When the locks match the open semester.                                  *)

\* Forms are created in a semester that is open.
CreatedWhenOpen ==
    [][\A f \in Forms : ~Exists(f) /\ Exists(f)' => IsOpen(SemesterOf[f])]_vars

ClosedLocked == \A f \in Forms : Exists(f) /\ ~IsOpen(SemesterOf[f]) => forms[f].locked

\* A semester locks its forms as it closes, and a locked form of a semester
\* that stays closed stays locked.
LEMMA AdministerLocks ==
  ASSUME Inv, ClosedLocked, NEW h \in Semesters, Administer(h)
  PROVE  ClosedLocked'
  <1> SUFFICES ASSUME NEW f \in Forms, Exists(f)', ~IsOpen(SemesterOf[f])'
               PROVE  forms'[f].locked
    BY DEF ClosedLocked
  <1> DEFINE s == SemesterOf[f]
  <1>1. forms[f] \in Row /\ StageOK(forms[f]) /\ s \in Semesters
    BY SemesterAssumption DEF Inv, TypeOK
  <1>2. PICK active \in BOOLEAN : CreateSemester(h, active) \/ ToggleActive(h, active)
    BY DEF Administer, UpdateSemester
  <1>3. \A locked \in BOOLEAN :
           /\ SetLock(forms[f], locked).status = forms[f].status
           /\ forms[f].status # "none" => SetLock(forms[f], locked).locked = locked
    BY <1>1, SetLockRow
  <1>4. \/ forms'[f] = forms[f]
        \/ \E locked \in BOOLEAN : forms'[f] = SetLock(forms[f], locked)
    BY <1>2 DEF CreateSemester, ToggleActive, SwitchForms
  <1>5. Exists(f) /\ semesters[s] # "absent"
    BY <1>3, <1>4 DEF Exists, Inv
  <1>6. semesters'[s] # "open"
    BY DEF IsOpen
  <1>7. ASSUME forms'[f] = SetLock(forms[f], TRUE) PROVE forms'[f].locked
    BY <1>3, <1>5, <1>7 DEF Exists
  <1>8. ASSUME forms'[f] = forms[f], semesters'[s] = semesters[s] PROVE forms'[f].locked
    BY <1>5, <1>6, <1>8 DEF ClosedLocked, IsOpen
  <1>9. CASE active
    <2>1. Deactivate(OthersOpen(h), h, "open")
      BY <1>2, <1>9 DEF CreateSemester, ToggleActive
    <2>2. s # h
      BY <1>1, <1>6, <2>1 DEF Deactivate
    <2>3. forms'[f] = IF s \in OthersOpen(h) THEN SetLock(forms[f], TRUE) ELSE forms[f]
      BY <1>2, <1>9, <2>2 DEF CreateSemester, ToggleActive, SwitchForms
    <2>4. s \notin OthersOpen(h) => semesters'[s] = semesters[s]
      BY <1>1, <2>1, <2>2 DEF Deactivate
    <2> QED BY <1>7, <1>8, <2>3, <2>4
  <1>10. CASE ~active
    <2>1. \A g \in Semesters : g # h => semesters'[g] = semesters[g]
      BY <1>2, <1>10 DEF CreateSemester, ToggleActive, Deactivate
    <2>2. CASE s = h
      <3>1. ToggleActive(h, active)
        BY <1>2, <1>5, <2>2 DEF CreateSemester
      <3>2. forms'[f] = SetLock(forms[f], TRUE)
        BY <1>10, <2>2, <3>1 DEF ToggleActive, SwitchForms
      <3> QED BY <1>7, <3>2
    <2>3. CASE s # h
      <3>1. forms'[f] = forms[f]
        BY <1>2, <1>10, <2>3 DEF CreateSemester, ToggleActive, SwitchForms
      <3> QED BY <1>1, <1>8, <2>1, <2>3, <3>1
    <2> QED BY <2>2, <2>3
  <1> QED BY <1>9, <1>10

\* Creating a form in a semester that is not open is all that can make the
\* locks disagree with the open semester: no switch, and no request that was
\* under way during one, does.
THEOREM LocksMatchIfCreatedOpen == Spec /\ CreatedWhenOpen => []LockMatchesActive
  <1> DEFINE Timely == \A f \in Forms : ~Exists(f) /\ Exists(f)' => IsOpen(SemesterOf[f])
  <1>1. Init => ClosedLocked
    <2>1. Init => \A f \in Forms : ~Exists(f)
      BY NewFormStage DEF Init, Exists
    <2> QED BY <2>1 DEF ClosedLocked
  <1>2. Inv /\ ClosedLocked /\ [Next]_vars /\ [Timely]_vars => ClosedLocked'
    <2> SUFFICES ASSUME Inv, ClosedLocked, [Next]_vars, [Timely]_vars
                 PROVE  ClosedLocked'
      OBVIOUS
    <2>1. ASSUME NEW f \in Forms, Create(f) PROVE ClosedLocked'
      <3>1. forms' = [forms EXCEPT ![f] = NewForm] /\ UNCHANGED semesters
        BY <2>1 DEF Create
      <3>2. \A g \in Forms : forms'[g] = IF g = f THEN NewForm ELSE forms[g]
        BY <3>1 DEF Inv, TypeOK
      <3>3. ~Exists(f) /\ Exists(f)'
        BY <2>1, <3>2, NewFormStage DEF Create, Exists
      <3>4. Timely
        <4>1. forms' # forms
          BY <3>3 DEF Exists
        <4> HIDE DEF Timely
        <4> QED BY <4>1 DEF vars
      <3>5. IsOpen(SemesterOf[f])
        BY <3>3, <3>4
      <3> QED BY <3>1, <3>2, <3>5 DEF ClosedLocked, Exists, IsOpen
    <2>2. ASSUME NEW w \in Handlers, Reads(w) \/ Fail(w) PROVE ClosedLocked'
      <3>1. forms' = forms /\ UNCHANGED semesters
        BY <2>2, ReadsStep, FailStep, SemestersKept
      <3> QED BY <3>1 DEF ClosedLocked, Exists, IsOpen
    <2>3. ASSUME NEW w \in Handlers, Write(w) PROVE ClosedLocked'
      <3>1. UNCHANGED semesters
        BY <2>3, SemestersKept
      <3>2. pending[w] # Idle /\ \A f \in Selected(w) : Exists(f)
        BY <2>3, WriteLands DEF Inv, SnapshotCoherent
      <3>3. \A f \in Forms : Exists(f)' => Exists(f) /\ forms'[f].locked = forms[f].locked
        BY <2>3, <3>2, WriteStep DEF Becomes, Exists
      <3> QED BY <3>1, <3>3 DEF ClosedLocked, IsOpen
    <2>4. ASSUME NEW h \in Semesters, Administer(h) PROVE ClosedLocked'
      BY <2>4, AdministerLocks
    <2>5. CASE UNCHANGED vars
      BY <2>5 DEF vars, ClosedLocked, Exists, IsOpen
    <2> QED BY <2>1, <2>2, <2>3, <2>4, <2>5 DEF Next, Reads
  <1>3. Inv /\ ClosedLocked => LockMatchesActive
    BY DEF Inv, OpenSemesterUnlocked, ClosedLocked, LockMatchesActive, TypeOK, Row, Exists
  <1> QED
    BY <1>1, <1>2, <1>3, Invariance, PTL DEF Spec, CreatedWhenOpen

-----------------------------------------------------------------------------
(* Requests write what they read, or nothing.                               *)

\* A step that gives nobody anything to write, or takes nothing from anybody.
LEMMA SeenKept ==
  ASSUME pending' = pending
  PROVE  \A w \in Handlers : SeenBy(w)' = SeenBy(w)
  BY DEF SeenBy, Selected, Snap

\* The request that a step concerns is the only one whose view of the versions
\* changes.
LEMMA SeenExcept ==
  ASSUME TypeOK, NEW w \in Handlers, NEW request,
         pending' = [pending EXCEPT ![w] = request]
  PROVE  /\ pending'[w] = request
         /\ [v \in Handlers |-> SeenBy(v)'] =
                [[v \in Handlers |-> SeenBy(v)] EXCEPT ![w] = SeenBy(w)']
  <1>1. \A v \in Handlers : pending'[v] = IF v = w THEN request ELSE pending[v]
    BY DEF TypeOK
  <1>2. \A v \in Handlers \ {w} : SeenBy(v)' = SeenBy(v)
    BY <1>1 DEF SeenBy, Selected, Snap
  <1> QED BY <1>1, <1>2

\* A request that ends gives up what it read.
LEMMA SeenForgotten ==
  ASSUME TypeOK, NEW w \in Handlers, pending' = [pending EXCEPT ![w] = Idle]
  PROVE  [v \in Handlers |-> SeenBy(v)'] =
            [[v \in Handlers |-> SeenBy(v)] EXCEPT ![w] = Versions!Nothing]
  <1>1. SeenBy(w)' = Versions!Nothing
    BY SeenExcept DEF SeenBy, Nothing, Versions!Nothing
  <1> QED BY <1>1, SeenExcept

\* The first step of a request reads the versions there are.
LEMMA ReadsVersions ==
  ASSUME Inv, NEW w \in Handlers, Reads(w)
  PROVE  Versions!Read(w)
  <1>1. PICK op \in Operations, role \in Roles, S \in SUBSET Forms :
           Read(w, op, role, S)
    BY ReadsRead
  <1> DEFINE request == [op |-> op, by |-> role, snap |-> [f \in S |-> forms[f]]]
             seen == [v \in Handlers |-> SeenBy(v)]
  <1>2. /\ S # {} /\ forms' = forms
        /\ pending' = [pending EXCEPT ![w] = request]
    BY <1>1 DEF Read
  <1>3. request # Idle /\ DOMAIN request.snap = S
        /\ \A f \in S : request.snap[f] = forms[f]
    BY DEF Idle, Operations
  <1> HIDE DEF request
  <1>4. pending'[w] = request
    BY <1>2, SeenExcept DEF Inv
  <1>5. SeenBy(w)' = [f \in S |-> forms[f].version]
    BY <1>3, <1>4 DEF SeenBy, Selected, Snap
  <1>6. [f \in S |-> forms[f].version] = [f \in S |-> [g \in Forms |-> forms[g].version][f]]
    OBVIOUS
  <1>7. [v \in Handlers |-> SeenBy(v)'] =
           [seen EXCEPT ![w] = [f \in S |-> [g \in Forms |-> forms[g].version][f]]]
    BY <1>2, <1>5, <1>6, SeenExcept DEF Inv
  <1>8. UNCHANGED [f \in Forms |-> forms[f].version]
    BY <1>2
  <1> QED BY <1>2, <1>7, <1>8 DEF Versions!Read

\* The second writes what the first read, all of it as it was read.
LEMMA WritesVersions ==
  ASSUME Inv, NEW w \in Handlers, Write(w)
  PROVE  Versions!Write(w)
  <1>1. pending[w] # Idle
    BY WriteLands
  <1>2. PICK rows : /\ CompareAndSwap(w, rows)
                    /\ \A f \in Selected(w) : Becomes(pending[w].op, forms[f], rows[f])
    BY WriteLands DEF Lands
  <1> DEFINE seen == [v \in Handlers |-> SeenBy(v)]
             version == [f \in Forms |-> forms[f].version]
  <1>3. seen[w] = [f \in Selected(w) |-> Snap(w)[f].version]
    BY <1>1 DEF SeenBy
  <1>4. /\ DOMAIN seen[w] = Selected(w) /\ DOMAIN seen[w] # {}
        /\ Selected(w) \subseteq Forms
    BY <1>1, <1>3, RequestType DEF Inv
  <1>5. \A f \in DOMAIN seen[w] : version[f] = seen[w][f]
    BY <1>2, <1>3, <1>4 DEF CompareAndSwap, Fresh
  <1>6. ASSUME NEW f \in Forms
        PROVE  IF f \in Selected(w) THEN forms'[f].version > forms[f].version
                                    ELSE forms'[f] = forms[f]
    <2>1. CASE f \in Selected(w)
      <3>1. rows[f] \in Row /\ rows[f].version >= forms[f].version
            /\ forms'[f] = [rows[f] EXCEPT !.version = @ + 1]
        BY <1>2, <2>1 DEF Becomes, CompareAndSwap
      <3>2. forms'[f].version = rows[f].version + 1 /\ rows[f].version \in Nat
        BY <3>1, VersionType DEF Row
      <3>3. forms[f].version \in Nat
        BY DEF Inv, TypeOK, Row
      <3> QED BY <2>1, <3>1, <3>2, <3>3
    <2>2. CASE f \notin Selected(w)
      BY <1>2, <2>2 DEF CompareAndSwap
    <2> QED BY <2>1, <2>2
  <1>7. [f \in Forms |-> forms'[f].version] \in Versions!Raised(Selected(w))
    <2>1. \A f \in Forms : forms'[f].version \in Nat
      BY WriteStep DEF Inv, TypeOK, Row
    <2> QED BY <1>6, <2>1 DEF Versions!Raised
  <1>8. [v \in Handlers |-> SeenBy(v)'] = [seen EXCEPT ![w] = Versions!Nothing]
    BY <1>2, SeenForgotten DEF CompareAndSwap, Inv
  <1> QED BY <1>4, <1>5, <1>7, <1>8 DEF Versions!Write

\* Semester administration raises the versions of some forms, whoever read them.
LEMMA AdministersVersions ==
  ASSUME Inv, NEW h \in Semesters, Administer(h)
  PROVE  Versions!Switch
  <1> DEFINE S == {f \in Forms : forms'[f] # forms[f]}
  <1>1. PICK active \in BOOLEAN : CreateSemester(h, active) \/ ToggleActive(h, active)
    BY DEF Administer, UpdateSemester
  <1>2. pending' = pending /\ \E closing, opening : SwitchForms(closing, opening)
    BY <1>1 DEF CreateSemester, ToggleActive
  <1>3. PICK closing, opening : SwitchForms(closing, opening)
    BY <1>2
  <1>4. ASSUME NEW f \in Forms
        PROVE  forms'[f] = forms[f] \/ forms'[f].version > forms[f].version
    <2>1. forms[f] \in Row /\ StageOK(forms[f])
      BY DEF Inv, TypeOK
    <2>2. \/ forms'[f] = SetLock(forms[f], TRUE) \/ forms'[f] = SetLock(forms[f], FALSE)
          \/ forms'[f] = forms[f]
      BY <1>3 DEF SwitchForms
    <2> QED BY <2>1, <2>2, SetLockRow
  <1>5. \A f \in Forms : forms'[f].version \in Nat
    BY AdministerStep DEF Inv, TypeOK, Row
  <1>6. \A f \in Forms : IF f \in S THEN forms'[f].version > forms[f].version
                                   ELSE forms'[f].version = forms[f].version
    BY <1>4
  <1> HIDE DEF S
  <1>7. [f \in Forms |-> forms'[f].version] \in Versions!Raised(S)
    BY <1>5, <1>6 DEF Versions!Raised
  <1>8. S \in SUBSET Forms
    BY DEF S
  <1>9. UNCHANGED [w \in Handlers |-> SeenBy(w)]
    BY <1>2, SeenKept
  <1> QED BY <1>7, <1>8, <1>9 DEF Versions!Switch

\* Every request, whatever it does to a form, keeps the contract that RowLocks
\* keeps row by row.
THEOREM AtomicWritesRefined == Spec => ImplementsAtomicWrites
  <1> DEFINE view == <<[f \in Forms |-> forms[f].version], [w \in Handlers |-> SeenBy(w)]>>
  <1>1. Init => Versions!Init
    <2> SUFFICES ASSUME Init PROVE Versions!Init
      OBVIOUS
    <2>1. \A f \in Forms : forms[f].version = 0
      BY DEF Init, NoForm
    <2>2. \A w \in Handlers : SeenBy(w) = Versions!Nothing
      BY DEF Init, SeenBy, Nothing, Versions!Nothing
    <2> QED BY <2>1, <2>2 DEF Versions!Init
  <1>2. Inv /\ [Next]_vars => [Versions!Next]_view
    <2> SUFFICES ASSUME Inv, [Next]_vars PROVE Versions!Next \/ UNCHANGED view
      OBVIOUS
    <2>1. ASSUME NEW f \in Forms, Create(f) PROVE UNCHANGED view
      <3>1. forms[f].version = 0 /\ NewForm.version = 0
        BY <2>1 DEF Create, Inv, NoForm, NewForm
      <3>2. \A g \in Forms : forms'[g].version = forms[g].version
        BY <2>1, <3>1 DEF Create, Inv, TypeOK
      <3>3. UNCHANGED [g \in Forms |-> forms[g].version]
        BY <3>2
      <3>4. UNCHANGED [w \in Handlers |-> SeenBy(w)]
        BY <2>1, SeenKept DEF Create
      <3> QED BY <3>3, <3>4
    <2>2. ASSUME NEW w \in Handlers, Reads(w) PROVE Versions!Read(w)
      BY <2>2, ReadsVersions
    <2>3. ASSUME NEW w \in Handlers, Write(w) PROVE Versions!Write(w)
      BY <2>3, WritesVersions
    <2>4. ASSUME NEW w \in Handlers, Fail(w) PROVE Versions!GiveUp(w)
      <3>1. UNCHANGED [f \in Forms |-> forms[f].version]
        BY <2>4 DEF Fail
      <3>2. [v \in Handlers |-> SeenBy(v)'] =
               [[v \in Handlers |-> SeenBy(v)] EXCEPT ![w] = Versions!Nothing]
        BY <2>4, SeenForgotten DEF Fail, Inv
      <3> QED BY <3>1, <3>2 DEF Versions!GiveUp
    <2>5. ASSUME NEW h \in Semesters, Administer(h) PROVE Versions!Switch
      BY <2>5, AdministersVersions
    <2>6. CASE UNCHANGED vars
      <3>1. UNCHANGED [w \in Handlers |-> SeenBy(w)]
        BY <2>6, SeenKept DEF vars
      <3> QED BY <2>6, <3>1 DEF vars
    <2> QED BY <2>1, <2>2, <2>3, <2>4, <2>5, <2>6 DEF Next, Reads, Versions!Next
  <1> QED BY <1>1, <1>2, Invariance, PTL
          DEF Spec, ImplementsAtomicWrites, Versions!Spec

=============================================================================
