------------------------- MODULE IdempotentCommand -------------------------
(***************************************************************************)
(* idempotentOperation: commands that carry an Idempotency-Key.             *)
(*                                                                          *)
(* A keyed call opens one READ COMMITTED transaction: it waits for an       *)
(* advisory lock derived from its scope, looks for a receipt, and either    *)
(* replays the receipt's answer or does the work and stores the receipt,    *)
(* all committed together.  Realtime effects wait until after the commit.   *)
(* A call without a key does its work in a transaction of its own.          *)
(*                                                                          *)
(* The work itself is opaque here (EvaluationWorkflow models it): it        *)
(* succeeds or throws.  A throw, the transaction's timeout, a refused       *)
(* replay, a lost connection and a crash of the process before the commit   *)
(* are all Fail; a crash after it is Lose.                                  *)
(***************************************************************************)

CONSTANTS
    Requests,           \* HTTP calls: first attempts, retries, double clicks
    Scopes, Inputs,     \* (actor, action, key) digests, input digests
    ScopeOf, InputOf,
    Locks, LockOf,      \* 64 bits of the scope's digest: scopes may share a lock
    NoKey, Null

ASSUME ScopeAssumption == /\ NoKey \notin Scopes
                          /\ ScopeOf \in [Requests -> Scopes \cup {NoKey}]
ASSUME InputAssumption == InputOf \in [Requests -> Inputs]
ASSUME LockAssumption  == LockOf \in [Scopes -> Locks]
ASSUME NullAssumption  == Null \notin Requests

VARIABLES
    phase,              \* how far each call has come
    holder,             \* the transaction holding each advisory lock
    seen,               \* what each call's SELECT of the receipt returned
    receipts,           \* operation_receipts, by scope
    ledger,             \* the executions of the work that committed
    emitted,            \* the calls whose realtime effects were emitted
    answer              \* the answer each call got: the execution it reports

vars == <<phase, holder, seen, receipts, ledger, emitted, answer>>

Keyed(r) == ScopeOf[r] # NoKey
Receipt == [input : Inputs, response : Requests]
NoReceipt == [input |-> Null, response |-> Null]
Execution(r) == [scope |-> ScopeOf[r], input |-> InputOf[r], by |-> r]

\* Phases in which a call's transaction is open and holds its lock.
InTransaction == {"locked", "looked", "worked"}
Ended == {"answered", "failed", "lost"}
Phases == {"new", "waiting", "committed", "replayed"} \cup InTransaction \cup Ended

Init ==
    /\ phase = [r \in Requests |-> "new"]
    /\ holder = [l \in Locks |-> Null]
    /\ seen = [r \in Requests |-> NoReceipt]
    /\ receipts = [s \in Scopes |-> NoReceipt]
    /\ ledger = {}
    /\ emitted = {}
    /\ answer = [r \in Requests |-> Null]

Move(r, from, to) == phase[r] = from /\ phase' = [phase EXCEPT ![r] = to]

-----------------------------------------------------------------------------
(* A call with a key.                                                       *)

\* $transaction is opened.
Begin(r) ==
    /\ Keyed(r)
    /\ Move(r, "new", "waiting")
    /\ UNCHANGED <<holder, seen, receipts, ledger, emitted, answer>>

\* Mutant: the lock does not exclude.
LockShared(r) ==
    /\ Move(r, "waiting", "locked")
    /\ holder' = [holder EXCEPT ![LockOf[ScopeOf[r]]] = r]
    /\ UNCHANGED <<seen, receipts, ledger, emitted, answer>>

\* pg_advisory_xact_lock: granted when nobody holds it.
Lock(r) ==
    /\ Move(r, "waiting", "locked")
    /\ holder[LockOf[ScopeOf[r]]] = Null
    /\ holder' = [holder EXCEPT ![LockOf[ScopeOf[r]]] = r]
    /\ UNCHANGED <<seen, receipts, ledger, emitted, answer>>

\* operationReceipt.findUnique: a statement's snapshot under READ COMMITTED.
Look(r) ==
    /\ Move(r, "locked", "looked")
    /\ seen' = [seen EXCEPT ![r] = receipts[ScopeOf[r]]]
    /\ UNCHANGED <<holder, receipts, ledger, emitted, answer>>

\* Mutant: a failed transaction keeps its lock.
EndKeepingLock(r) == UNCHANGED holder

\* A transaction-level advisory lock goes with its transaction, whether that
\* commits, rolls back or loses its connection.
EndTransaction(r) ==
    holder' = [l \in Locks |-> IF holder[l] = r THEN Null ELSE holder[l]]

\* Mutant: the input is not compared with the receipt's.
ReplayAnyInput(r) ==
    /\ Move(r, "looked", "replayed")
    /\ seen[r] # NoReceipt
    /\ EndTransaction(r)
    /\ UNCHANGED <<seen, receipts, ledger, emitted, answer>>

\* A receipt for the same input; another input is a conflict (Fail), as is a
\* replay that authorizeReplay refuses.
Replay(r) ==
    /\ Move(r, "looked", "replayed")
    /\ seen[r] # NoReceipt /\ seen[r].input = InputOf[r]
    /\ EndTransaction(r)
    /\ UNCHANGED <<seen, receipts, ledger, emitted, answer>>

\* Mutant: effects are emitted as the work registers them.
WorkEmitting(r) ==
    /\ Move(r, "looked", "worked")
    /\ seen[r] = NoReceipt
    /\ emitted' = emitted \cup {r}
    /\ UNCHANGED <<holder, seen, receipts, ledger, answer>>

\* work(database, afterCommit): its writes are not visible before the commit.
Work(r) ==
    /\ Move(r, "looked", "worked")
    /\ seen[r] = NoReceipt
    /\ UNCHANGED <<holder, seen, receipts, ledger, emitted, answer>>

\* Mutant: the work commits and the receipt is left out.
CommitNoReceipt(r) ==
    /\ Move(r, "worked", "committed")
    /\ ledger' = ledger \cup {Execution(r)}
    /\ EndTransaction(r)
    /\ UNCHANGED <<seen, receipts, emitted, answer>>

\* operationReceipt.create and COMMIT; scope is the primary key.
Commit(r) ==
    /\ Move(r, "worked", "committed")
    /\ receipts[ScopeOf[r]] = NoReceipt
    /\ receipts' = [receipts EXCEPT ![ScopeOf[r]] =
                       [input |-> InputOf[r], response |-> r]]
    /\ ledger' = ledger \cup {Execution(r)}
    /\ EndTransaction(r)
    /\ UNCHANGED <<seen, emitted, answer>>

-----------------------------------------------------------------------------
(* A call without a key, and the end of every call.                         *)

WorkUnkeyed(r) ==
    /\ ~Keyed(r)
    /\ Move(r, "new", "committed")
    /\ ledger' = ledger \cup {Execution(r)}
    /\ UNCHANGED <<holder, seen, receipts, emitted, answer>>

\* The effects loop (an effect that throws is swallowed) and the response.
Deliver(r) ==
    \/ /\ Move(r, "committed", "answered")
       /\ answer' = [answer EXCEPT ![r] = r]
       /\ \E done \in BOOLEAN : emitted' = IF done THEN emitted \cup {r} ELSE emitted
       /\ UNCHANGED <<holder, seen, receipts, ledger>>
    \/ /\ Move(r, "replayed", "answered")
       /\ answer' = [answer EXCEPT ![r] = seen[r].response]
       /\ UNCHANGED <<holder, seen, receipts, ledger, emitted>>

\* Before the commit: everything is rolled back.
Fail(r) ==
    /\ phase[r] \in {"new", "waiting"} \cup InTransaction
    /\ phase' = [phase EXCEPT ![r] = "failed"]
    /\ EndTransaction(r)
    /\ UNCHANGED <<seen, receipts, ledger, emitted, answer>>

\* After the commit: the process dies with effects unsent, or the client
\* never receives the response.
Lose(r) ==
    /\ phase[r] \in {"committed", "replayed"}
    /\ phase' = [phase EXCEPT ![r] = "lost"]
    /\ UNCHANGED <<holder, seen, receipts, ledger, emitted, answer>>

Step(r) ==
    \/ Begin(r) \/ Lock(r) \/ Look(r) \/ Replay(r) \/ Work(r) \/ Commit(r)
    \/ WorkUnkeyed(r) \/ Deliver(r)

Next == \E r \in Requests : Step(r) \/ Fail(r) \/ Lose(r)

Spec == Init /\ [][Next]_vars

\* An open transaction goes on or is ended: by the work, by an error, at the
\* latest by its timeout (30 s).  Only waiting for the lock is not one's own
\* doing, and that wait counts as progress only when the lock is free.
InProgress(r) == phase[r] \in InTransaction \cup {"committed", "replayed"}
Fairness == \A r \in Requests :
                /\ WF_vars(InProgress(r) /\ (Step(r) \/ Fail(r) \/ Lose(r)))
                /\ WF_vars(Lock(r))
FairSpec == Spec /\ Fairness

-----------------------------------------------------------------------------
TypeOK ==
    /\ phase \in [Requests -> Phases]
    /\ holder \in [Locks -> Requests \cup {Null}]
    /\ seen \in [Requests -> Receipt \cup {NoReceipt}]
    /\ receipts \in [Scopes -> Receipt \cup {NoReceipt}]
    /\ ledger \subseteq {Execution(r) : r \in Requests}
    /\ emitted \subseteq Requests
    /\ answer \in [Requests -> Requests \cup {Null}]

\* A call that has looked for a receipt still sees what is stored: nobody of
\* its scope commits between its SELECT and its own commit.  So the insert of
\* the receipt never violates the primary key, and a double click waits and is
\* replayed instead of failing after doing the work for nothing.
LookStaysCurrent ==
    \A r \in Requests :
        phase[r] \in {"looked", "worked"} => seen[r] = receipts[ScopeOf[r]]

\* A realtime effect is only ever that of a committed execution: never one of
\* a rolled-back transaction, and never again for a replay.
EffectsOfCommitted == emitted \subseteq {e.by : e \in ledger}

\* At most one execution per scope, and exactly one where there is a receipt.
\* The work and its receipt are one commit.
ReceiptForExecution ==
    \A s \in Scopes :
        {e \in ledger : e.scope = s} =
            IF receipts[s] = NoReceipt THEN {}
            ELSE {[scope |-> s, input |-> receipts[s].input,
                   by |-> receipts[s].response]}

\* The promise to the client, as a state machine without locks or receipts.
Once == INSTANCE OnceCommand
ImplementsOnce == Once!Spec

\* Every call that has its lock ends, so no scope is blocked for good: not by
\* a crash, a rollback or another scope that shares its lock.
EveryCallEnds ==
    \A r \in Requests : phase[r] = "waiting" ~> phase[r] \in Ended

=============================================================================
