# Formal model of the APAG conduct-evaluation backend

APAG is a NestJS/Prisma/PostgreSQL backend (`src/projects`) in which students assess
their own conduct each semester and the form ("phiếu") is reviewed by the class
leader, the advisor, the faculty and the academy. This directory holds TLA+ modules
for the parts of it whose correctness depends on the order of events, TLC
configurations that check them on small instances, and proofs that hold for every
value of the constants, checked by TLAPS.

## 1. The system

Paths below are relative to `src/projects/src`.

| component | state | operations | interacts with |
|---|---|---|---|
| Evaluation workflow `modules/training-evaluations/application` | `evaluation_forms` (status, version, lock, section scores, class and final score, rank, reviewer columns), `form_criteria_scores` | create, five section saves, draft, submit, score, confirm, approve, reject, three batches, finalize (one, many, by filter), reopen | reads semesters and assignments; writes notifications; wrapped by idempotent commands |
| Domain rules `.../domain` | none | transitions, editability, review stages, totals, classification, deadlines, access | used by the workflow |
| Evidence `modules/evidences` | `form_evidences` | link, remove | compare-and-swap on the form |
| Semester administration `modules/semesters` | `semesters` (dates, deadlines, `is_active`) | create, update, toggle | locks and unlocks forms in its transaction; notifies students after it |
| Notifications `modules/notifications` | `notifications` (unique dedupe key) | create once, remind, mark read | written inside workflow transactions, emitted after them |
| Idempotent commands `common/idempotency` | `operation_receipts`, PostgreSQL advisory locks | run a command under a key | wraps reviews, batches, finalizations |
| Report exports `modules/reports`, `infrastructure/reports` | registry in memory, files on disk | create, status, download, cleanup | reads forms |
| Enrolments of a class `modules/admin-classes` | `class_students`, `users` | add, remove, preview and confirm an imported file | import previews; mails passwords after the commit |
| Import previews `infrastructure/cache` | encrypted previews in memory | set, get, claim, expire | one process; lost at a restart |
| Students and users `modules/admin-students`, `modules/admin-users` | `users`, `class_students` | create, update, remove | the same tables as the enrolments |
| Classes, faculties, majors `modules/admin-*` | reference data, assignments | CRUD, replace assignments | decides who may act on a form |
| Sessions `modules/auth` | refresh-token hash, revocations in memory | login, refresh, logout, change and reset password | gateway revalidates |
| Realtime gateway `modules/gateways` | sockets and timers in memory | connect, join, emit | called after commits |

What is hard about it:

* **Two-phase requests.** Every command reads a form, validates it over several
  awaits, and writes it later. Nothing is locked in between; the only protection is
  `writeEvaluation`'s `WHERE id = ? AND version = ?`. Enrolments have no version: only
  the row's id and the unique columns protect them.
* **A writer outside the protocol.** Semester administration locks and unlocks many
  forms in bulk without reading them.
* **Many forms in one transaction.** A batch commits or rolls back whole, and takes
  row locks one by one while others do the same.
* **Two routes.** A form may go up by `approve`, or by `confirm` and a batch; scoring
  takes a confirmation back, and returns and reopenings start over.
* **Values stored twice.** Rank and score, class score and criteria, total and
  sections live in different columns and are written by different requests.
* **Deduplicated messages.** A key that repeats silently drops a notification.
* **Checks outside the lock.** Semester requests validate with plain reads and only
  then queue for the activation lock.
* **Plans carried out later.** An import is confirmed up to ten minutes after the
  preview that was validated.
* **Memory and disk.** Exports and previews live in one process; the files do not.
* **Retries.** Double clicks, client retries and crashes around a commit.

What makes each component correct:

* workflow: no request acts on a row it did not see; nobody is skipped; nothing of an
  earlier round survives; stored totals and ranks agree with what they summarise; a
  finalized or submitted form is frozen against its student; batches are atomic and
  never block one another for good;
* semesters: the forms of the open semester are usable, at most one is open, periods
  do not overlap, students are told of exactly what happened;
* notifications: one per hand-over, none lost to deduplication;
* idempotent commands: at most one execution per key, its own answer replayed, nothing
  blocked for good, no realtime effect of a rolled-back transaction;
* exports: one rendering at a time, the slot always given back, a caller answered with
  what it asked for, the file there as long as the job offers it;
* enrolments: a plan is carried out once and exactly or not at all, no handler hits a
  row it has not read, mails tell true passwords.

## 2. Modules

| module | what it is |
|---|---|
| `EvaluationDomain` | the pure rules: transitions, editability, totals, classification |
| `EvaluationWorkflow` | forms, semesters, requests in flight and stored notifications |
| `EvaluationLifecycle` | the abstract promise: each form changes only by single allowed steps |
| `RowLocks` | the transactions that write forms, statement by statement on row locks |
| `AtomicWrites` | the abstract promise: a batch takes effect in one instant or not at all |
| `IdempotentCommand` | `idempotentOperation`, call by call |
| `OnceCommand` | the abstract promise of an idempotency key |
| `SemesterSwitch` | the abstract promise of semester administration: one atomic switch at a time |
| `SemesterAdministration` | semester requests with their checks outside the activation lock |
| `ReportJobs` | the export registry, its slot and the export directory |
| `StudentEnrolment` | accounts, enrolments, forms and import previews under racing handlers |
| `EvaluationDomain_proofs`, `EvaluationWorkflow_proofs`, `EvaluationLifecycle_proofs`, `RowLocks_proofs`, `IdempotentCommand_proofs`, `SemesterAdministration_proofs`, `ReportJobs_proofs`, `StudentEnrolment_proofs` | the theorems |
| `MC...` | the instances TLC explores |

How they compose: `EvaluationWorkflow` takes a transaction as one step and implements
`EvaluationLifecycle`. That it may take it as one step is the contract `AtomicWrites`:
`RowLocks` keeps it statement by statement, and `EvaluationWorkflow` asks for no more.
`SemesterAdministration` takes apart the transactions that `EvaluationWorkflow` runs in
one step (`CreateSemester`, `ToggleActive`, `UpdateSemester`) and reduces forms to "this
semester has some"; both implement `SemesterSwitch`, so they mean the same by a switch.
`IdempotentCommand` is the wrapper around a request, with the work opaque.

### EvaluationWorkflow and the code

`forms` is one record per `(student, semester)` pair with the columns the properties
need. `signed` stands for the reviewer columns (`classLeaderReviewedBy/At`,
`classReviewedBy/At`, `adminFinalizedBy/At`), which the code sets and clears in pairs;
`sheet` is `form_criteria_scores`; `evidence` the evidence rows. Free text, timestamps
and who precisely acted are left out.

`pending[w]` is a request in flight: the operation, the role and the rows it read. A
request is two steps. `Read...` is the service up to its transaction: it selects forms
and refuses those that do not pass its checks (`Allowed`, `Forwardable`). The second
step is the whole transaction: `CompareAndSwap` requires every selected form to be
`Fresh` (same version) and writes all of them, bumping each version; otherwise only
`Fail` remains. A value computed from what was read (a total, the score of a
finalization) is computed from the snapshot; a column the UPDATE does not mention, and
child rows read inside the transaction, are those of the row at that moment. `Fail` is
every other way to end: a conflict, a deadline, a refused role, a stale
`expectedVersion`, a lost connection.

`CreateSemester`, `ToggleActive` and `UpdateSemester` are the three transactions of
semester administration, each under the activation lock; `SetLock` is the
`updateMany ... version: { increment: 1 }` on forms not already in the wanted state.
`Create` inserts a form without looking at `is_active`, as the code does.

`Notify` is `createNotificationOnce`: it stores nothing if the key is there. Keys are
modelled as event, target and the set of (form, version + 1) pairs. The recipient is
left out, all recipients being written in the same transaction.

### RowLocks and the code

`rows[t]` is what a transaction is to write, with the versions it read; `holder` is
PostgreSQL's lock on each row. `Update` is one `writeEvaluation` of the sorted loop, on
the lowest form not yet written, when its row is unlocked and its version still matches;
`Conflict` is `assertEvaluationUpdated` throwing, which ends the transaction. `Sweep` is
one row of the bulk `updateMany` of a semester switch, in any order; its rows still match
when it reaches them, since only the holder of the activation lock changes `is_locked`.
The other rows of these transactions make nobody wait: criteria and evidence belong to a
form already locked, notification keys collide only for the same forms at the same
versions, and the lock of an idempotency key is taken before any row. `DetectDeadlock` is
PostgreSQL ending a member of a circle; circles with the switch do occur.

### IdempotentCommand and the code

A call goes `new, waiting, locked, looked, worked, committed, answered`, or from
`looked` to `replayed`. `Lock` is `pg_advisory_xact_lock`, `Look` the receipt's SELECT,
`Commit` the insert of the receipt and the COMMIT of the work with it, `Deliver` the
loop over `afterCommit` effects (each may fail and is swallowed) and the response.
Scopes are mapped to locks by `LockOf`, which need not be injective: the code keeps 64
bits of a digest. The work is opaque. `Fail` ends an open transaction by any error, a
timeout or a crash; `Lose` is a crash after the commit.

### SemesterAdministration and the code

`Create`, `Read` then `Check`, and `Toggle` are the plain reads of the three handlers;
`Lock` is `lockSemesterActivation` with the reads made under it, `Write` the UPDATEs and
the COMMIT, `Finish` the response. A dto field is a value, `Null` or `Unset`, because the
code treats them differently: `buildSemesterData` is what an update is validated with,
`Written` what `parseOptionalDateOnly` and Prisma leave of it for the row. A null year,
term, start or end thus writes back the value read before the lock, while a null deadline
leaves its column alone. `NoticesOf` is what is announced after the commit. The unique index on (year, semester) is a guard of
`Write`; the partial unique index that allows one active semester is left out on purpose,
so that `AtMostOneActive` is about the lock and the code under it.

### ReportJobs and the code

`create()` runs to its first `await` without interruption, so `Replay`, `Conflict`, `Busy`
and `Start` are its outcomes, each with the pruning it begins with. A job's id is the call
that created it. `Cleanup`, `WriteFile`, `Complete`, `FailRender` are the awaits of
`render` and `ReportStorage`; `Release` is the `finally` that frees the slot, `Answer` the
response to every call that awaited the promise. `Restart` empties the memory and keeps
the files; those left over go with the cleanup of a later export. `status()` and
`download()` change nothing.

### StudentEnrolment and the code

A person is an e-mail address with its account; `staff` are those whose account has another
role than student, from the start or by AdminUsersService (`createUser`). A role never
changes between student and another. A handler is `Read` (all its reads and
checks) followed by one write: `Put` (addStudent, update of a student), `Remove`,
`Delete` (of a student or a user), `Create` (likewise), `CreateForm`. An import is
`PreviewFile` (`Action` and `Bad` are the checks of each line; `preloadImportStudents` sees
only students that are not deleted, so `Action` takes everybody else for new), then `Look`, `Claim` and `Commit`. An
enrolment's id is the caller that inserted it, so that a handler which writes by id misses
a row removed and inserted again. Unique columns are guards (`CodeFree`, `Creatable`,
`Fits`); whatever they refuse is a `Fail`. `Mail` sends the passwords after the commit and
may lose any of them. The file's parsing, generated names and passwords, encryption of
previews and who may manage a class are left out.

## 3. Runs

| run | instance | what it shows |
|---|---|---|
| `OneForm` | 1 form, 1 semester, 2 requests in flight, 2 sections of 0 or 25 points, 2 criteria of at most 50 for which 0, 40 or 60 are asked, 1 direct score, 1 evidence row | snapshot coherence; signatures, scores, rank, sheet and totals agree with the status and stay on the scale; the student's work is frozen, a finalized form sealed, a loser stays out |
| `Batches` | 2 forms of one class and semester, 2 requests | batches are atomic, hand on only signed forms, implement the lifecycle; every return and hand-over stores a new notification |
| `TwoSemesters` | 2 semesters with a form in each, 2 requests | locks follow the semesters; a request never lands on a form locked after it was read; semesters change by atomic switches |
| `RowLocks` | 3 forms, 2 batches, the semester switch | batches never wait in a circle, take effect in one instant, and every transaction ends |
| `Keys` | 5 calls: a double click, the same key with another input, a colliding scope, a call without a key | at most one execution per key, replays, effects, and that every waiting call ends |
| `Semesters` | 2 semesters, 2 years, 2 terms, 2 days; an editor, a switcher, students creating forms | one semester open, no overlap, notices match the switches, a request is one atomic switch |
| `Reports` | 4 exports: a double click, the key reused for something else, one without key; capacity 2, lifetime 2 | registry, slot and files agree through failures and restarts; the registry comes to rest |
| `Enrolments` | 4 callers with any of 16 requests on 4 persons, 2 classes, 3 codes; a store for 1 preview | imports are claimed once and carried out exactly or not at all; a fresh plan fits for all but those the preview overlooks; no row is hit unread; mails are true |
| `LateForm`, `ClearedDeadline`, `UsedSemester`, `StaleClass` | the same modules, smaller | expected violations, see section 6 |

**Bounds.** `MaxVersion` limits the writes to one row. In `OneForm`, `Batches` and
`TwoSemesters` it is never reached: the `VIEW` replaces absolute versions by "does the
snapshot still match", a request with an outdated version by "stale" (all it can do is
fail) and a stored key by whether it names a version no write has claimed yet (a key whose
versions are all claimed can equal no later key), so the reachable views are finite and
the exploration is complete for any number of writes. Two requests in flight are the
least that race; a third adds nothing that two and the semester transactions do not do,
since a request meets others only through a row's version. Two forms are enough for a
batch that is partly out of date. Points of 25 let two sections reach
different totals and ranks, a direct score of 90 is another rank; of the points asked for,
40 is within a criterion's maximum of 50 and 60 is not, though both criteria together
stay within 100 only because each does.

`RowLocks` lets no transaction start on a form that was written once, so each form is
written by at most two, which is enough for a conflict, a wait and a circle of any two of
the three; the theorems have no such limit. `Semesters` has one editor: two editors can
make periods overlap (section 6), and one editor with one switcher is the least where
what a request read before the lock is stale under it. Two days order any pair of dates; the updates asked for
give a year, a term with a null year, a switch, or one end, moved or null. Deadlines, which
no property of `Semesters` looks at, are left to `ClearedDeadline`, where updates set or
clear one, alone or with the end.
`Reports` needs two lives of a key (`Lifetime` 2 within `MaxTime` 3), a registry that can
be full (2 of 4), and a file a tick older than its job's completion (`MaxWrite` 1).
`Enrolments` has one person in a class, one with an account only, one unknown and one of
another role, so every branch of `Action` occurs, and the unknown one may be created as a
student or a user and be deleted; the three files are a full import, one that must be
refused and one that names the user of another role;
four callers let two confirmations of one import cross a third handler.

`CHECK_DEADLOCK FALSE` is used in `Keys`, where all five calls end, and in `RowLocks`,
where no transaction may start on written forms. `Reports` and `Enrolments` end in states
where only a restart is possible. Symmetry is over interchangeable handlers, callers,
semesters, years and terms, and over forms of the same class and semester; the runs that check
liveness (`Keys`, `Reports`, `RowLocks`) have none. `OneForm` checks the type invariant of
its module; that of every other module is a theorem, and no run spends time on it.

**Fairness.** `EvaluationWorkflow`, `SemesterAdministration` and `StudentEnrolment` have
none and state no liveness: a request may fail for ever and a reviewer need not act.

* `IdempotentCommand`: weak fairness of an open transaction (it goes on or is ended:
  `$transaction` has a timeout of 30 s) and of granting a free lock. With finitely many
  calls this suffices for `EveryCallEnds`; an unbounded stream of calls of one scope would
  need PostgreSQL's lock queue.
* `ReportJobs`: weak fairness of the steps of a render, of releasing the slot, and of
  answering. Reading, rendering and writing end or throw; a settled promise runs its
  `finally` and its waiters.
* `RowLocks`: strong fairness of each transaction's next row, which is PostgreSQL's queue
  on a row; weak fairness of a commit that nothing stops and of the deadlock detector. With
  weak fairness of the rows, or without the detector, `TransactionsEnd` is violated: a
  batch is passed over for ever, or waits in a circle with the semester switch.

## 4. Properties and what could break them

| property | the question |
|---|---|
| `SnapshotCoherent` | is a matching version really proof that the row is unchanged, with bulk locking going around `writeEvaluation`? |
| `SignaturesMatchStage` | over both routes, returns and reopenings: is anyone skipped, does a signature outlive its round? |
| `ScoresMatchStage` | can `classScore ?? 0` ever turn a missing score into zero? is there a final score exactly when finalized? |
| `RankMatchesStage` | does the rank always belong to the score that counts at that status? |
| `ClassScoreIsSheetTotal` | does a criterion of an earlier round or of a losing request count? |
| `StudentTotalConsistent` | do two concurrent section saves leave a total of only one? |
| `TotalsOnScale` | each request's points are compared with one criterion's maximum: can several requests and two reviewers together leave the scale of the ranks? |
| `LoserStaysOut` | does any path (locking and unlocking, returning and resubmitting) bring back the version a loser holds? |
| `StudentWorkFrozen`, `FinalizedSealed` | does a save begun earlier land after submission, locking or finalization? |
| `OpenSemesterUnlocked` | can a switch leave students of the open semester locked out? |
| `ImplementsLifecycle` | is every commit, batches included, a step the form allowed at that moment? |
| `HandoverNotified` | does the dedupe key of an earlier round swallow a message? |
| `NoBatchCircle` | can overlapping batches deadlock, each holding what another needs? |
| `ImplementsAtomicWrites` | written row by row, can a batch take effect on some rows only, or on one that changed? |
| `TransactionsEnd` | is anyone left waiting for a row, behind whatever failure? |
| `LookStaysCurrent` | can another call of the scope commit between looking and committing? |
| `ReceiptForExecution`, `ImplementsOnce` | is work ever repeated, lost, or answered with somebody else's result? |
| `EffectsOfCommitted` | is anything announced that was rolled back? |
| `EveryCallEnds` | can a failure leave a scope, or another that shares its lock, blocked? |
| `ImplementsSwitch` | between a request's reads and its commit, can another switch come in, so that a semester stays open beside the new one or is closed unannounced? |
| `AtMostOneActive` | do two administrators who open different semesters at once both succeed? |
| `NoOverlap` | can creations and partial updates, each checked alone, lead to overlapping periods? |
| `NoticesMatchSwitches` | is anyone told of an opening that did not happen, or not told of one that did, when the row changed after it was read? |
| `SlotMatchesRender` | can the slot leak, or a job stay "processing" with nothing behind it? |
| `KeysMatchJobs` | does a key lead to a forgotten job, or two exports run under one key? |
| `AnswersOwnExport` | is a double click ever answered with another export? |
| `FileOutlivesOffer` | does cleanup, which goes by file time, take a file the registry still offers? |
| `RefusedWhenBusy` | do expired jobs block new ones? |
| `ComesToRest` | is a call left waiting when the export it shares fails? |
| `ClaimedOnce` | do two confirmations of one import both get its plan? |
| `ConfirmedPlanHolds` | does a stale plan go through partly, or over somebody else's row? |
| `FreshPlanFitsUnlessOverlooked` | do the preview's hand-written checks miss what a constraint will refuse, and for whom beside deleted students and users of other roles? |
| `ChangesRowItRead` | does a handler hit an enrolment made after the one it read? |
| `MailsTellThePassword` | is a password mailed for an account that was rolled back or is someone else's? |
| `LiveEnrolment` | can a live student be left with a deleted enrolment, which nothing revives? |

## 5. Proofs

The theorems of the eight modules hold for any sets of forms, requests, handlers, callers and
calls, under the assumptions declared in the modules, which TLC evaluates on every
instance. An invariant is proved from `Init => Inv` and `Inv /\ [Next]_vars => Inv'`, one
step per action.

**EvaluationWorkflow_proofs.** `Inv` is

    TypeOK, SnapshotCoherent,
    StageOK of every form (signed, scored, ranked and summed for its status),
    OpenSemesterUnlocked, and no form in a semester that does not exist.

No part is inductive alone. A write computes its effect from the snapshot, so what it does
to a row is known only because a fresh snapshot equals the row (`SnapshotCoherent`), and
the snapshot passed the checks of its operation. That in turn needs every write to raise
the version, semester locking included. Ranks need scores (the batch of the advisor
classifies a class score that must exist) and scores need signatures (the advisor's
signature implies a score). `OpenSemesterUnlocked` needs that no form belongs to an
absent semester, which is created already open. The invariants the runs check follow from
`Inv`; the action properties `WorkFrozen` and `Sealed` follow from `Inv` and one case
analysis of the step.

`TotalsConsistent` (`StudentTotalConsistent`) is proved by case analysis of the step: a
save computes its total from the snapshot's sections, which are the row's when it is
fresh. `ScaleKept` (`TotalsOnScale`) follows from the types of the columns, among which the
class score is a sum of points within their maxima (`SheetWithinMaxima`).
`LosersStayOut` (`LoserStaysOut`) rests on `FormsAdvance`: every step leaves a row as it
is or gives it a higher version. It also justifies the `VIEW` of the runs, which merges
requests that have lost. `SwitchRefined` and `AtomicWritesRefined` are the refinements of
`SemesterSwitch` and `AtomicWrites`; `ImplementsAtomicWrites` is a property of the run
`RowLocks` for the statements, and a theorem here for the requests. The contract lets a
transaction raise a version by more than one, because a confirmation that comes with
scores writes its row twice.

Assumptions: forms have a class and a semester; sections and criteria are finite sets and
their points natural numbers, a total given whole is in 0..100 (the DTOs: `@IsInt`,
`@Min(0)`, `@Max(100)`); the maxima of the criteria add up to at most 100 (the seed:
20, 25, 20, 25 and 10); `Null` is neither a number nor a rank. That all active criteria of a
database still add up to 100 is up to whoever edits that table; without it
`TotalsOnScale` is false.

**EvaluationDomain_proofs.** Totals are folds over finite sets. The induction they need is
done by smallest counterexample (`NatLessThanWellFounded`, `WFMin` applied to the
cardinalities of the sets for which a fact fails), since induction rules with an operator
parameter cannot be used: that a fold has a value (`SumExists`), how it changes with one
element (`SumRecursion`), its type and monotonicity. `MorePointsNeverWorse`: the
thresholds of `calculateClassification` are in order.

**EvaluationLifecycle_proofs.** `Notified` (`HandoverNotified`) adds `KeysReached` to the
invariant: a stored key names no version its forms have not reached. A hand-over stores
version + 1, so its key is new, and versions only grow. `Refinement`
(`ImplementsLifecycle`) maps each action: a creation to `Create`, a committed request to
`Work` (per form: a student's step, a review, an approval, a hand-over, a finalization, a
return, from the equality of snapshot and row and the meaning of its status), a
transaction of semester administration to `Switch`, whose promise that no form of an open
semester is locked is `OpenSemesterUnlocked` in the next state; reads and failures stutter.

**RowLocks_proofs.** `Inv` is TypeOK; only a transaction that is to write a row holds it
(`HoldsOwnRows`); what a batch holds is at the version it read (`WroteAsRead`); what it
holds comes before what it has yet to take (`InOrder`). `NoDeadlock`: in a circle of
batches take the one that waits for the highest form; the holder of that form
waits for a form beyond it, by `InOrder`. `Refinement`: at the commit a batch holds all its rows, so
by `WroteAsRead` all are as read, and no other commit can have been of a row it holds.
`SomeBatchMoves`: unless a semester switch is under way, some running batch waits for
nobody, or else all of them would be a circle. It is the safety half of
`TransactionsEnd`, for any number of forms and batches.

**IdempotentCommand_proofs.** `Invariance` strengthens the properties by: a call in its
transaction holds the lock of its scope (`HoldsLock`), a call that replays has an
execution of its own scope and input (`ReplayHasExecution`), and the ledger holds exactly
the executions that committed (`LedgerOfCommitted`). From it follow `LookIsCurrent`,
`ReceiptIsExecution`, `EffectsAreOfCommitted`, and `Refinement`: `Spec => ImplementsOnce`,
for any sharing of locks.

**SemesterAdministration_proofs.** `AtMostOneActive` needs that who is past the lock holds
it and that what it found open is still all that is open (`FoundIsActive`), and that a
request is well formed and, unless a creation, about a row that exists (`Grounded`),
without which `Closes` would say nothing. `NoticesMatch` is an action property from the same invariant,
`SwitchRefined` the refinement of `SemesterSwitch`: what a request found open is all that is
open, so its writes are one switch.

Dates have no lock, and two editors can make periods overlap. `NoOverlapInSequence` says
that this is the only way: as long as creations and updates come one at a time
(`OneEditAtATime`; any number of others may open and close semesters), `NoOverlap` holds
for any sequence of them. Its invariant is that the dates an editor is about to write,
merged with the row, fit among the other rows as they are (`EditsFit`), which survives
because only editors change dates. `NoOverlapOneEditor` is the case of one editor, the one
the run checks.

**ReportJobs_proofs.** To `SlotMatchesRender` and `KeysMatchJobs`, which need each other
(pruning keeps a key only if its job stays), come `Answered` (a waiting call has an
answer of its own key and intent), `NewIsUnknown` (an id is not reused) and `FilesInTime`
(a temporary file is at most `MaxWrite` old, a completed one at most that much older than
its job's lifetime). `FileOutlives` then compares the two clocks for any lifetime.

**StudentEnrolment_proofs.** The invariant says what a handler knows at each step
(`Handler`), that a preview belongs to its caller and lists enrolled persons with accounts
(`Store`), that enrolments are of students with accounts (`EnrolledAreStudents`), that staff
have accounts (`StaffExist`), and includes the checked invariants. The action
properties `RowsChangeAsRead`, `PlansHold` and `OnlyOverlookedMisfit` follow from it. The
last (`FreshPlanFitsUnlessOverlooked`) is an equivalence: beside the overlooked addresses
nothing makes a fresh plan fail, and every one of them does.

**What the findings come down to.** Four theorems say of each expected violation that the
sequence found is the only kind: the property holds of every behaviour without it.
`LocksMatchIfCreatedOpen`: if forms are created in open semesters only, `LockMatchesActive`
holds. `OrderUnlessCleared`: if no update clears a deadline and edits come one at a time,
`DatesOrdered` holds. `UsedKeptUnlessCrossed`: if no form is created between the two halves
of an update, `UsedSemesterKept` holds. `FieldKeptUnlessCrossed`: if nobody changes the
student's row between the two halves of an update, `OtherFieldKept` holds. Their hypotheses
are what a repair would have to provide.

**Only model-checked:** the liveness properties `EveryCallEnds`, `ComesToRest` and
`TransactionsEnd`: fairness is about `ENABLED`, which the provers do not handle. All
safety, action and refinement properties of the passing runs are theorems.

## 6. Findings

* `LateForm` (`LockMatchesActive`): `test/database-invariants.e2e-spec.ts:249-253` states
  that once a semester is active every form is locked exactly when it belongs to another
  one. `create()` accepts any semester and inserts unlocked forms, and switching locks
  only the forms of semesters active at that time. A form created in a closed semester is
  unlocked and stays so; only that semester's deadlines limit it.
* `ClearedDeadline` (`DatesOrdered`): a null deadline in an update passes the DTO, counts
  as "no deadline" in the validation, and is dropped before the UPDATE. The deadline stays,
  possibly after the new end date. No concurrency is needed.
* `UsedSemester` (`UsedSemesterKept`): whether a semester has forms is counted before the
  transaction; a form created in between lets its year, term and dates change.
* `StaleClass` (`OtherFieldKept`): an update of the student code alone writes back the
  class it read, undoing a move that happened meanwhile.

Observations that contradict no text of the repository, so no run: two editors at once can
make periods overlap, the check being outside the lock; creating a semester already open
announces nothing; the keys `semester-opened` and `semester-closed` hold only the semester,
so opening it again notifies nobody (`admin-semesters.service.ts:612`); a file that lists
the e-mail of a deleted student or of a user of another role gets a preview that promises
a new account, and its confirmation can never commit (the second half of
`FreshPlanFitsUnlessOverlooked`; `preloadImportStudents`,
`admin-classes.service.ts:1175-1180`); a null year, term, start or end in an update writes
back the value read before the lock; `addStudent` does not look at `deletedAt`, and a race can
enrol a deleted student; a failed confirmation has used up its preview; a crash between
the commit and the mails leaves accounts whose password nobody was told; files left by an
earlier process stay until the next export.

## 7. Not modelled, and the plan

Not modelled: HTTP, validation of DTOs, the sending of mail, read-only queries, rendering
and contents of reports, single-row writes without rules across rows (posts, profile,
faculties, majors), logging and metrics. Access, deadlines and expected versions appear
only as the possibility that a request fails.

Most of the repository is outside this: of some 65,000 counted lines, 38,000 are the
generated Prisma client, and most of the rest is controllers, DTOs, Swagger
descriptions, queries and response mapping. The modules cover the services that change
state under concurrency; the share of all lines is small for that reason, not for want of
detail where it matters.

Worth adding, in this order:

1. `DeadlineGuard` — a clock, the deadline asked before and again inside the transaction.
2. `Sessions` — rotation of the refresh token by compare-and-swap against logout, password
   change and a second login.
3. `ClassCatalog` — removals guarded by counts read outside the transaction; replacing the
   leaders of one class by two administrators; a removed class that keeps its assignments.
4. Reminders and their legacy lookup.
5. `ScoreCalculator` — the five section calculators against a reference and the limits of
   the database's CHECK constraints; `ExpectedVersions` as a checked pure operator.
6. `NotificationsGateway` — connection, expiry timer and periodic re-validation.
