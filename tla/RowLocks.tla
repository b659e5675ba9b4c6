------------------------------ MODULE RowLocks ------------------------------
(***************************************************************************)
(* The transactions that write evaluation forms, one SQL statement at a     *)
(* time, on PostgreSQL's row locks at READ COMMITTED.                       *)
(*                                                                          *)
(* A batch (or a single write: a batch of one) read its forms and writes    *)
(* them one by one in the order of their ids, each by an UPDATE that names  *)
(* the version read.  The UPDATE keeps the row's lock until the transaction *)
(* ends, and waits for a lock that another holds.  The semester switch, at  *)
(* most one at a time under its advisory lock, updates many rows in one     *)
(* statement, in whatever order the database visits them.                   *)
(*                                                                          *)
(* The other rows of such a transaction make nobody wait: criteria and      *)
(* evidence belong to a form it has locked, and a notification collides     *)
(* only with one about the same forms at the same versions.  The lock of an *)
(* idempotency key is taken before any row, so who waits for it holds none. *)
(*                                                                          *)
(* EvaluationWorkflow takes each of these transactions as one step; this    *)
(* module shows that it may.                                                *)
(***************************************************************************)
EXTENDS Integers, FiniteSets

CONSTANTS
    FormCount,        \* forms are numbered in the order of their ids
    Batches,          \* requests of the workflow
    Switcher,         \* the holder of the semester activation lock
    Nobody,
    MaxVersion        \* bound: no transaction starts on a form of this version

ASSUME CountAssumption == FormCount \in Nat
ASSUME BatchAssumption == /\ Switcher \notin Batches
                          /\ Nobody \notin Batches \cup {Switcher}
ASSUME BoundAssumption == MaxVersion \in Nat

VARIABLES
    version,          \* version column of each form, as committed
    rows,             \* the forms each transaction is to write, as it read them
    holder            \* the transaction that holds each row's lock

vars == <<version, rows, holder>>

Forms == 1..FormCount
Transactions == Batches \cup {Switcher}
NoRows == [f \in {} |-> 0]
IsSnapshot(r) == \E S \in SUBSET Forms : r \in [S -> Nat]

Running(t) == DOMAIN rows[t] # {}
Held(t) == {f \in Forms : holder[f] = t}
ToDo(t) == DOMAIN rows[t] \ Held(t)

Init ==
    /\ version = [f \in Forms |-> 0]
    /\ rows = [t \in Transactions |-> NoRows]
    /\ holder = [f \in Forms |-> Nobody]

\* A transaction's end gives all of its locks back.
Ended(t) ==
    /\ rows' = [rows EXCEPT ![t] = NoRows]
    /\ holder' = [f \in Forms |-> IF holder[f] = t THEN Nobody ELSE holder[f]]

-----------------------------------------------------------------------------
\* The SELECT of the forms, or the start of the bulk UPDATE.
Start(t) ==
    /\ ~Running(t)
    /\ \E S \in (SUBSET Forms) \ {{}} :
        /\ \A f \in S : version[f] < MaxVersion
        /\ rows' = [rows EXCEPT ![t] = [f \in S |-> version[f]]]
    /\ UNCHANGED <<version, holder>>

\* Mutant: the forms are written in the order in which the SELECT gave them.
NextRowUnsorted(t) == ToDo(t)

\* The rows whose turn it is: [...forms].sort((a, b) => a.id.localeCompare(b.id)),
\* but any of them for the bulk UPDATE.
NextRow(t) ==
    IF t = Switcher THEN ToDo(t)
    ELSE {f \in ToDo(t) : \A g \in ToDo(t) : f <= g}

\* Mutant: the version read is not in the WHERE clause.
UpdateAnyVersion(b) ==
    \E f \in NextRow(b) :
        /\ holder[f] = Nobody
        /\ holder' = [holder EXCEPT ![f] = b]
        /\ UNCHANGED <<version, rows>>

\* writeEvaluation: the row is unlocked and still at the version read.
Update(b) ==
    \E f \in NextRow(b) :
        /\ holder[f] = Nobody
        /\ version[f] = rows[b][f]
        /\ holder' = [holder EXCEPT ![f] = b]
        /\ UNCHANGED <<version, rows>>

\* Mutant: an UPDATE that matched no row is tried again.
ConflictRetried(b) ==
    /\ \E f \in NextRow(b) : version[f] # rows[b][f]
    /\ UNCHANGED vars

\* assertEvaluationUpdated: no row matched, before or after waiting for its
\* lock; the exception rolls the transaction back.
Conflict(b) ==
    /\ \E f \in NextRow(b) : version[f] # rows[b][f]
    /\ Ended(b)
    /\ UNCHANGED version

\* One row of the bulk UPDATE, whose version it increments whatever it is; that
\* it matches is still true then, since only the holder of the activation lock
\* changes is_locked.
Sweep ==
    /\ \E f \in NextRow(Switcher) :
        /\ holder[f] = Nobody
        /\ holder' = [holder EXCEPT ![f] = Switcher]
    /\ UNCHANGED <<version, rows>>

Commit(t) ==
    /\ Running(t)
    /\ ToDo(t) = {}
    /\ version' = [f \in Forms |-> IF f \in DOMAIN rows[t] THEN version[f] + 1
                                                           ELSE version[f]]
    /\ Ended(t)

\* A passed deadline, a revoked role, a timeout, a lost connection.
RollBack(t) ==
    /\ Running(t)
    /\ Ended(t)
    /\ UNCHANGED version

\* Transactions each of which waits for a row that another of them holds.
IsCircle(C) ==
    /\ C # {}
    /\ \A t \in C : /\ Running(t)
                    /\ \E f \in NextRow(t) : holder[f] \in C \ {t}

\* deadlock_timeout: PostgreSQL ends a transaction that is part of a circle.
DetectDeadlock(t) ==
    /\ \E C \in SUBSET Transactions : t \in C /\ IsCircle(C)
    /\ RollBack(t)

Next ==
    \/ \E b \in Batches : Update(b) \/ Conflict(b)
    \/ Sweep
    \/ \E t \in Transactions : Start(t) \/ Commit(t) \/ RollBack(t)

Spec == Init /\ [][Next]_vars

\* PostgreSQL queues the transactions that wait for a row, so none is passed
\* over for ever; and it breaks circles.
FairSpec ==
    /\ Spec
    /\ SF_vars(Sweep)
    /\ \A b \in Batches : SF_vars(Update(b) \/ Conflict(b))
    /\ \A t \in Transactions : WF_vars(Commit(t)) /\ WF_vars(DetectDeadlock(t))

-----------------------------------------------------------------------------
(* Properties.                                                              *)

TypeOK ==
    /\ version \in [Forms -> Nat]
    /\ rows = [t \in Transactions |-> rows[t]]
    /\ \A t \in Transactions : IsSnapshot(rows[t])
    /\ holder \in [Forms -> Transactions \cup {Nobody}]

\* Batches that overlap in any way never wait for one another in a circle:
\* every deadlock the database may have to break involves a semester switch.
NoBatchCircle == \A C \in SUBSET Batches : ~IsCircle(C)

Atomic == INSTANCE AtomicWrites WITH seen <- [b \in Batches |-> rows[b]]

\* Written row by row among other such transactions, a batch still takes
\* effect in one instant, on rows that are all as it read them, or not at all.
ImplementsAtomicWrites == Atomic!Spec

\* No transaction waits for ever, whoever else holds its rows or dies.
TransactionsEnd == \A t \in Transactions : Running(t) ~> ~Running(t)

=============================================================================
