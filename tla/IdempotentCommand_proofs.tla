---------------------- MODULE IdempotentCommand_proofs ----------------------
(***************************************************************************)
(* Proofs about IdempotentCommand for any calls, scopes, inputs and locks,  *)
(* locks shared between scopes included.                                    *)
(***************************************************************************)
EXTENDS IdempotentCommand, TLAPS

\* A transaction that is open holds its lock, and its call has a key.
HoldsLock ==
    \A r \in Requests :
        /\ phase[r] \in {"waiting", "replayed"} \cup InTransaction => Keyed(r)
        /\ phase[r] \in InTransaction => holder[LockOf[ScopeOf[r]]] = r

\* What is about to be replayed is an execution of the same scope and input.
ReplayHasExecution ==
    \A r \in Requests : phase[r] = "replayed" =>
        [scope |-> ScopeOf[r], input |-> InputOf[r], by |-> seen[r].response]
            \in ledger

\* The executions are those of the calls that committed.
LedgerOfCommitted ==
    \A r \in Requests :
        /\ phase[r] = "committed" => Execution(r) \in ledger
        /\ Execution(r) \in ledger => phase[r] \in {"committed", "answered", "lost"}

AnswerIsLast == \A r \in Requests : answer[r] # Null => phase[r] = "answered"

\* The inductive invariant.
Inv == /\ TypeOK /\ HoldsLock /\ LookStaysCurrent /\ ReceiptForExecution
       /\ ReplayHasExecution /\ LedgerOfCommitted /\ AnswerIsLast
       /\ EffectsOfCommitted

-----------------------------------------------------------------------------
\* The initial state satisfies the invariant.
LEMMA InvInit == Init => Inv
<1> SUFFICES ASSUME Init PROVE Inv
  OBVIOUS
<1> USE ScopeAssumption, InputAssumption, LockAssumption, NullAssumption DEF Init
<1>1. TypeOK
  BY DEF TypeOK, Phases
<1>2. ReceiptForExecution
  BY DEF ReceiptForExecution
<1>3. HoldsLock /\ LookStaysCurrent /\ ReplayHasExecution
  BY DEF HoldsLock, LookStaysCurrent, ReplayHasExecution, InTransaction
<1>4. LedgerOfCommitted /\ AnswerIsLast /\ EffectsOfCommitted
  BY DEF LedgerOfCommitted, AnswerIsLast, EffectsOfCommitted
<1> QED
  BY <1>1, <1>2, <1>3, <1>4 DEF Inv

\* Every step keeps the types.
LEMMA TypeStep ==
    ASSUME TypeOK, HoldsLock, NEW r \in Requests, Step(r) \/ Fail(r) \/ Lose(r)
    PROVE  TypeOK'
<1> USE ScopeAssumption, InputAssumption, LockAssumption, NullAssumption
        DEF TypeOK, Move, Phases, InTransaction, Ended, Keyed
<1>1. CASE Begin(r)
  BY <1>1 DEF Begin
<1>2. CASE Lock(r)
  BY <1>2 DEF Lock
<1>3. CASE Look(r)
  BY <1>3 DEF Look, HoldsLock
<1>4. CASE Replay(r)
  BY <1>4 DEF Replay, EndTransaction
<1>5. CASE Work(r)
  BY <1>5 DEF Work
<1>6. CASE Commit(r)
  BY <1>6 DEF Commit, EndTransaction, Receipt, HoldsLock
<1>7. CASE WorkUnkeyed(r)
  BY <1>7 DEF WorkUnkeyed
<1>8. CASE Deliver(r)
  BY <1>8 DEF Deliver, Receipt, NoReceipt
<1>9. CASE Fail(r)
  BY <1>9 DEF Fail, EndTransaction
<1>10. CASE Lose(r)
  BY <1>10 DEF Lose
<1> QED
  BY <1>1, <1>2, <1>3, <1>4, <1>5, <1>6, <1>7, <1>8, <1>9, <1>10 DEF Step

\* Only the call that takes a step changes its phase and what it saw, and only
\* its own lock: a lock it takes was free, a lock it leaves was its own.
LEMMA Frame ==
    ASSUME TypeOK, HoldsLock, NEW r \in Requests, Step(r) \/ Fail(r) \/ Lose(r),
           NEW q \in Requests, q # r
    PROVE  /\ phase'[q] = phase[q] /\ seen'[q] = seen[q] /\ answer'[q] = answer[q]
           /\ \A l \in Locks : holder[l] = q => holder'[l] = q
           /\ emitted' \subseteq emitted \cup {r}
           /\ ledger' \subseteq ledger \cup {Execution(r)}
           /\ ledger \subseteq ledger'
<1> USE LockAssumption, ScopeAssumption, NullAssumption
        DEF TypeOK, Move, EndTransaction, Keyed
<1>1. CASE Begin(r) \/ Look(r) \/ Work(r) \/ WorkUnkeyed(r) \/ Deliver(r) \/ Lose(r)
  BY <1>1 DEF Begin, Look, Work, WorkUnkeyed, Deliver, Lose
<1>2. CASE Lock(r)
  BY <1>2 DEF Lock
<1>3. CASE Replay(r) \/ Commit(r) \/ Fail(r)
  BY <1>3 DEF Replay, Commit, Fail
<1> QED
  BY <1>1, <1>2, <1>3 DEF Step

\* Locks follow their transactions.
LEMMA HoldsLockStep ==
    ASSUME TypeOK, HoldsLock, NEW r \in Requests, Step(r) \/ Fail(r) \/ Lose(r)
    PROVE  HoldsLock'
<1> SUFFICES ASSUME NEW q \in Requests
             PROVE  /\ phase'[q] \in {"waiting", "replayed"} \cup InTransaction => Keyed(q)
                    /\ phase'[q] \in InTransaction => holder'[LockOf[ScopeOf[q]]] = q
  BY DEF HoldsLock, Keyed
<1>1. CASE q # r
  <2>1. ScopeOf[q] # NoKey => LockOf[ScopeOf[q]] \in Locks
    BY ScopeAssumption, LockAssumption
  <2> QED
    BY <1>1, <2>1, Frame DEF HoldsLock, Keyed, InTransaction
<1>2. CASE q = r
  <2> USE <1>2, ScopeAssumption, LockAssumption
          DEF TypeOK, Move, HoldsLock, Keyed, InTransaction
  <2>1. CASE Begin(r)
    BY <2>1 DEF Begin
  <2>2. CASE Lock(r)
    BY <2>2 DEF Lock
  <2>3. CASE Look(r) \/ Work(r)
    BY <2>3 DEF Look, Work
  <2>4. CASE Replay(r) \/ Commit(r)
    BY <2>4 DEF Replay, Commit
  <2>5. CASE WorkUnkeyed(r) \/ Deliver(r) \/ Fail(r) \/ Lose(r)
    BY <2>5 DEF WorkUnkeyed, Deliver, Fail, Lose
  <2> QED
    BY <2>1, <2>2, <2>3, <2>4, <2>5 DEF Step
<1> QED
  BY <1>1, <1>2

\* Receipts only change in Commit.
LEMMA ReceiptsFrame ==
    ASSUME NEW r \in Requests, Step(r) \/ Fail(r) \/ Lose(r), ~Commit(r)
    PROVE  receipts' = receipts
BY DEF Step, Begin, Lock, Look, Replay, Work, WorkUnkeyed, Deliver, Fail, Lose

\* Nobody of the scope commits between a SELECT and its commit: two calls of
\* one scope would hold the same lock.
LEMMA LookStaysCurrentStep ==
    ASSUME TypeOK, HoldsLock, LookStaysCurrent,
           NEW r \in Requests, Step(r) \/ Fail(r) \/ Lose(r)
    PROVE  LookStaysCurrent'
<1> SUFFICES ASSUME NEW q \in Requests, phase'[q] \in {"looked", "worked"}
             PROVE  seen'[q] = receipts'[ScopeOf[q]]
  BY DEF LookStaysCurrent
<1> USE DEF TypeOK, LookStaysCurrent
<1>1. CASE q # r /\ ~Commit(r)
  BY <1>1, Frame, ReceiptsFrame
<1>2. CASE q # r /\ Commit(r)
  <2>1. phase[q] \in {"looked", "worked"} /\ seen'[q] = seen[q]
    BY <1>2, Frame
  <2>2. ScopeOf[q] # ScopeOf[r]
    BY <1>2, <2>1 DEF HoldsLock, InTransaction, Commit, Move
  <2>3. ScopeOf[r] \in Scopes /\ ScopeOf[q] \in Scopes
    BY <1>2, <2>1, ScopeAssumption DEF HoldsLock, InTransaction, Commit, Move, Keyed
  <2> QED
    BY <1>2, <2>1, <2>2, <2>3 DEF Commit
<1>3. CASE q = r
  <2>1. CASE Look(r)
    BY <1>3, <2>1 DEF Look, Move
  <2>2. CASE Work(r)
    BY <1>3, <2>2 DEF Work, Move
  <2>3. CASE ~Look(r) /\ ~Work(r)
    BY <1>3, <2>3 DEF Step, Begin, Lock, Replay, Commit, WorkUnkeyed, Deliver,
                      Fail, Lose, Move
  <2> QED
    BY <2>1, <2>2, <2>3
<1> QED
  BY <1>1, <1>2, <1>3

\* The ledger only changes in the two steps that commit work.
LEMMA LedgerFrame ==
    ASSUME NEW r \in Requests, Step(r) \/ Fail(r) \/ Lose(r),
           ~Commit(r), ~WorkUnkeyed(r)
    PROVE  ledger' = ledger
BY DEF Step, Begin, Lock, Look, Replay, Work, Deliver, Fail, Lose

\* The work and its receipt are one commit.
LEMMA ReceiptForExecutionStep ==
    ASSUME TypeOK, HoldsLock, ReceiptForExecution,
           NEW r \in Requests, Step(r) \/ Fail(r) \/ Lose(r)
    PROVE  ReceiptForExecution'
<1> SUFFICES ASSUME NEW s \in Scopes
             PROVE  {e \in ledger' : e.scope = s} =
                        IF receipts'[s] = NoReceipt THEN {}
                        ELSE {[scope |-> s, input |-> receipts'[s].input,
                               by |-> receipts'[s].response]}
  BY DEF ReceiptForExecution, NoReceipt
<1>1. CASE Commit(r)
  <2>1. ScopeOf[r] \in Scopes
    BY <1>1, ScopeAssumption DEF HoldsLock, Commit, Move, Keyed, InTransaction
  <2>2. CASE s = ScopeOf[r]
    <3>1. {e \in ledger : e.scope = s} = {}
      BY <1>1, <2>2 DEF Commit, ReceiptForExecution
    <3>2. {e \in ledger' : e.scope = s} = {Execution(r)}
      BY <1>1, <2>2, <3>1 DEF Commit, Execution
    <3>3. receipts'[s] = [input |-> InputOf[r], response |-> r]
      BY <1>1, <2>1, <2>2 DEF Commit, TypeOK
    <3>4. receipts'[s] # NoReceipt
      BY <3>3, NullAssumption DEF NoReceipt
    <3> QED
      BY <2>2, <3>2, <3>3, <3>4 DEF Execution
  <2>3. CASE s # ScopeOf[r]
    BY <1>1, <2>3 DEF Commit, Execution, TypeOK, ReceiptForExecution
  <2> QED
    BY <2>2, <2>3
<1>2. CASE WorkUnkeyed(r)
  BY <1>2, ScopeAssumption DEF WorkUnkeyed, Keyed, Execution, ReceiptForExecution
<1>3. CASE ~Commit(r) /\ ~WorkUnkeyed(r)
  BY <1>3, LedgerFrame, ReceiptsFrame DEF ReceiptForExecution
<1> QED
  BY <1>1, <1>2, <1>3

\* A receipt the call saw is that of an execution, and executions stay.
LEMMA ReplayHasExecutionStep ==
    ASSUME Inv, NEW r \in Requests, Step(r) \/ Fail(r) \/ Lose(r)
    PROVE  ReplayHasExecution'
<1> USE DEF Inv
<1> SUFFICES ASSUME NEW q \in Requests, phase'[q] = "replayed"
             PROVE  [scope |-> ScopeOf[q], input |-> InputOf[q],
                     by |-> seen'[q].response] \in ledger'
  BY DEF ReplayHasExecution
<1>1. CASE q # r
  BY <1>1, Frame DEF ReplayHasExecution
<1>2. CASE q = r
  <2>1. Replay(r)
    BY <1>2 DEF Step, Begin, Lock, Look, Work, Commit, WorkUnkeyed, Deliver, Fail,
                Lose, Move, TypeOK, Phases
  <2>2. ScopeOf[r] \in Scopes /\ phase[r] = "looked"
    BY <2>1, ScopeAssumption DEF HoldsLock, Replay, Move, Keyed, InTransaction
  <2>3. seen[r] = receipts[ScopeOf[r]] /\ seen[r] # NoReceipt /\ seen[r].input = InputOf[r]
    BY <2>1, <2>2 DEF Replay, LookStaysCurrent
  <2>4. [scope |-> ScopeOf[r], input |-> seen[r].input, by |-> seen[r].response]
          \in {e \in ledger : e.scope = ScopeOf[r]}
    BY <2>2, <2>3 DEF ReceiptForExecution
  <2> QED
    BY <1>2, <2>1, <2>3, <2>4 DEF Replay
<1> QED
  BY <1>1, <1>2

\* One execution per call, of a call that committed and did not fail.
LEMMA LedgerOfCommittedStep ==
    ASSUME Inv, NEW r \in Requests, Step(r) \/ Fail(r) \/ Lose(r)
    PROVE  LedgerOfCommitted'
<1> USE DEF Inv
<1> SUFFICES ASSUME NEW q \in Requests
             PROVE  /\ phase'[q] = "committed" => Execution(q) \in ledger'
                    /\ Execution(q) \in ledger'
                         => phase'[q] \in {"committed", "answered", "lost"}
  BY DEF LedgerOfCommitted, Execution
<1>1. CASE q # r
  BY <1>1, Frame DEF LedgerOfCommitted, Execution
<1>2. CASE q = r
  <2>1. CASE Commit(r) \/ WorkUnkeyed(r)
    BY <1>2, <2>1 DEF Commit, WorkUnkeyed, Move, TypeOK
  <2>2. CASE ~Commit(r) /\ ~WorkUnkeyed(r)
    BY <1>2, <2>2, LedgerFrame
       DEF LedgerOfCommitted, TypeOK, Step, Begin, Lock, Look, Replay, Work, Deliver,
           Fail, Lose, Move, InTransaction
  <2> QED
    BY <2>1, <2>2
<1> QED
  BY <1>1, <1>2

LEMMA AnswerIsLastStep ==
    ASSUME Inv, NEW r \in Requests, Step(r) \/ Fail(r) \/ Lose(r)
    PROVE  AnswerIsLast'
<1> USE DEF Inv, AnswerIsLast
<1> SUFFICES ASSUME NEW q \in Requests, answer'[q] # Null
             PROVE  phase'[q] = "answered"
  OBVIOUS
<1>1. CASE q # r
  BY <1>1, Frame
<1>2. CASE q = r
  BY <1>2 DEF TypeOK, Step, Begin, Lock, Look, Replay, Work, Commit, WorkUnkeyed,
              Deliver, Fail, Lose, Move, InTransaction
<1> QED
  BY <1>1, <1>2

\* Effects are emitted by the call that committed, after it did.
LEMMA EffectsOfCommittedStep ==
    ASSUME Inv, NEW r \in Requests, Step(r) \/ Fail(r) \/ Lose(r)
    PROVE  EffectsOfCommitted'
<1> USE DEF Inv, EffectsOfCommitted
<1>1. ledger \subseteq ledger'
  BY DEF Step, Begin, Lock, Look, Replay, Work, Commit, WorkUnkeyed, Deliver, Fail, Lose
<1>2. CASE Deliver(r) /\ phase[r] = "committed"
  <2>1. emitted' \subseteq emitted \cup {r}
    BY <1>2 DEF Deliver, Move
  <2>2. Execution(r) \in ledger' /\ Execution(r).by = r
    BY <1>1, <1>2 DEF LedgerOfCommitted, Execution
  <2> QED
    BY <1>1, <2>1, <2>2
<1>3. CASE ~(Deliver(r) /\ phase[r] = "committed")
  <2>1. emitted' = emitted
    BY <1>3 DEF Step, Begin, Lock, Look, Replay, Work, Commit, WorkUnkeyed, Deliver,
                Fail, Lose, Move
  <2> QED
    BY <1>1, <2>1
<1> QED
  BY <1>2, <1>3

LEMMA InvStep == Inv /\ [Next]_vars => Inv'
<1> SUFFICES ASSUME Inv, [Next]_vars PROVE Inv'
  OBVIOUS
<1>1. CASE UNCHANGED vars
  <2> USE <1>1 DEF vars, Inv
  <2>1. TypeOK' /\ HoldsLock' /\ LookStaysCurrent'
    BY DEF TypeOK, HoldsLock, LookStaysCurrent
  <2>2. ReceiptForExecution' /\ ReplayHasExecution'
    BY DEF ReceiptForExecution, ReplayHasExecution
  <2>3. LedgerOfCommitted' /\ AnswerIsLast' /\ EffectsOfCommitted'
    BY DEF LedgerOfCommitted, AnswerIsLast, EffectsOfCommitted
  <2> QED
    BY <2>1, <2>2, <2>3
<1>2. CASE Next
  <2>1. PICK r \in Requests : Step(r) \/ Fail(r) \/ Lose(r)
    BY <1>2 DEF Next
  <2>2. TypeOK' /\ HoldsLock' /\ LookStaysCurrent' /\ ReceiptForExecution'
    BY <2>1, TypeStep, HoldsLockStep, LookStaysCurrentStep, ReceiptForExecutionStep
       DEF Inv
  <2>3. ReplayHasExecution' /\ LedgerOfCommitted' /\ AnswerIsLast' /\ EffectsOfCommitted'
    BY <2>1, ReplayHasExecutionStep, LedgerOfCommittedStep, AnswerIsLastStep,
       EffectsOfCommittedStep
  <2> QED
    BY <2>2, <2>3 DEF Inv
<1> QED
  BY <1>1, <1>2

-----------------------------------------------------------------------------
(* What follows.                                                            *)

\* The invariant holds in every reachable state of idempotentOperation.
THEOREM Invariance == Spec => []Inv
  BY InvInit, InvStep, PTL DEF Spec

\* The reachable states are of the declared types.
THEOREM TypeCorrect == Spec => []TypeOK
<1>1. Inv => TypeOK
  BY DEF Inv
<1> QED
  BY <1>1, Invariance, PTL

\* A call that looked for a receipt still sees what is stored: the insert of
\* its own never violates the primary key.
THEOREM LookIsCurrent == Spec => []LookStaysCurrent
<1>1. Inv => LookStaysCurrent
  BY DEF Inv
<1> QED
  BY <1>1, Invariance, PTL

\* At most one execution per scope, exactly one where there is a receipt.
THEOREM ReceiptIsExecution == Spec => []ReceiptForExecution
<1>1. Inv => ReceiptForExecution
  BY DEF Inv
<1> QED
  BY <1>1, Invariance, PTL

\* Realtime effects are emitted only for committed executions.
THEOREM EffectsAreOfCommitted == Spec => []EffectsOfCommitted
<1>1. Inv => EffectsOfCommitted
  BY DEF Inv
<1> QED
  BY <1>1, Invariance, PTL

\* Every step of a call is one of the promised state machine, or invisible
\* to its client.
LEMMA OnceStep ==
    ASSUME Inv, [Next]_vars
    PROVE  [Once!Next]_<<ledger, answer>>
<1>1. CASE UNCHANGED vars
  BY <1>1 DEF vars
<1>2. CASE Next
  <2>1. PICK r \in Requests : Step(r) \/ Fail(r) \/ Lose(r)
    BY <1>2 DEF Next
  <2>2. CASE Commit(r)
    <3>1. ScopeOf[r] \in Scopes
      BY <2>2, ScopeAssumption DEF Inv, HoldsLock, Commit, Move, Keyed, InTransaction
    <3>2. {e \in ledger : e.scope = ScopeOf[r]} = {}
      BY <2>2, <3>1 DEF Commit, Inv, ReceiptForExecution
    <3>3. Once!Execute(r)
      BY <2>2, <3>1, <3>2, ScopeAssumption
         DEF Commit, Once!Execute, Once!Covers, Once!Execution, Execution
    <3> QED
      BY <3>3 DEF Once!Next
  <2>3. CASE WorkUnkeyed(r)
    <3>1. Execution(r) \notin ledger
      BY <2>3 DEF Inv, LedgerOfCommitted, WorkUnkeyed, Move
    <3>2. \A e \in ledger : e.by # r
      BY <3>1 DEF Inv, TypeOK, Execution
    <3>3. Once!Execute(r)
      BY <2>3, <3>2 DEF WorkUnkeyed, Keyed, Once!Execute, Once!Covers,
                        Once!Execution, Execution
    <3> QED
      BY <3>3 DEF Once!Next
  <2>4. CASE Deliver(r)
    <3>1. answer[r] = Null /\ ledger' = ledger
      BY <2>4 DEF Inv, AnswerIsLast, Deliver, Move
    <3>2. CASE phase[r] = "committed"
      <4>1. Execution(r) \in ledger /\ answer' = [answer EXCEPT ![r] = Execution(r).by]
        BY <2>4, <3>2 DEF Inv, LedgerOfCommitted, Deliver, Move, Execution
      <4>2. Once!Covers(Execution(r), r) /\ Execution(r).input = InputOf[r]
        BY DEF Once!Covers, Execution
      <4> QED
        BY <3>1, <4>1, <4>2 DEF Once!Next, Once!Answer
    <3>3. CASE phase[r] = "replayed"
      <4> DEFINE e == [scope |-> ScopeOf[r], input |-> InputOf[r],
                       by |-> seen[r].response]
      <4>1. e \in ledger /\ answer' = [answer EXCEPT ![r] = e.by]
        BY <2>4, <3>3 DEF Inv, ReplayHasExecution, Deliver, Move
      <4>2. Once!Covers(e, r) /\ e.input = InputOf[r]
        BY <3>3 DEF Once!Covers, Inv, HoldsLock, Keyed
      <4>3. \E x \in ledger : /\ Once!Covers(x, r) /\ x.input = InputOf[r]
                             /\ answer' = [answer EXCEPT ![r] = x.by]
        BY <4>1, <4>2
      <4> HIDE DEF e
      <4> QED
        BY <3>1, <4>3 DEF Once!Next, Once!Answer
    <3> QED
      BY <2>4, <3>2, <3>3 DEF Deliver, Move
  <2>5. CASE ~Commit(r) /\ ~WorkUnkeyed(r) /\ ~Deliver(r)
    BY <2>1, <2>5 DEF Step, Begin, Lock, Look, Replay, Work, Fail, Lose
  <2> QED
    BY <2>2, <2>3, <2>4, <2>5
<1> QED
  BY <1>1, <1>2

\* idempotentOperation keeps its promise, whatever the calls, scopes and locks:
\* at most one execution per key, and every answer is that execution's.
THEOREM Refinement == Spec => ImplementsOnce
<1>1. Init => Once!Init
  BY DEF Init, Once!Init
<1>2. Inv /\ [Next]_vars => [Once!Next]_<<ledger, answer>>
  BY OnceStep
<1> QED
  BY <1>1, <1>2, Invariance, PTL DEF Spec, ImplementsOnce, Once!Spec

=============================================================================
