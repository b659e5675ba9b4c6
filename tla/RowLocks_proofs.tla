-------------------------- MODULE RowLocks_proofs --------------------------
(***************************************************************************)
(* Proofs about RowLocks for any number of forms, any batches and any       *)
(* number of writes.                                                        *)
(***************************************************************************)
EXTENDS RowLocks, WellFoundedInduction, TLAPS

\* Only a transaction that is to write a row holds its lock.
HoldsOwnRows ==
    \A f \in Forms : holder[f] # Nobody => f \in DOMAIN rows[holder[f]]

\* A row that a batch has written is at the version the batch read.
WroteAsRead ==
    \A f \in Forms : holder[f] \in Batches => version[f] = rows[holder[f]][f]

\* The rows a batch has written come before those it has yet to write.
InOrder ==
    \A b \in Batches : \A f \in Held(b), g \in ToDo(b) : f < g

\* The inductive invariant.
Inv == TypeOK /\ HoldsOwnRows /\ WroteAsRead /\ InOrder

-----------------------------------------------------------------------------
(* Facts about the operators.                                               *)

LEMMA FormsAreNumbers == Forms \subseteq Nat
BY CountAssumption DEF Forms

LEMMA NoRowsFact == IsSnapshot(NoRows) /\ DOMAIN NoRows = {}
<1>1. NoRows \in [{} -> Nat]
  BY DEF NoRows
<1> QED
  BY <1>1 DEF IsSnapshot, NoRows

\* The rows a transaction is to write are forms, read at some version.
LEMMA SnapshotFact ==
    ASSUME NEW r, IsSnapshot(r)
    PROVE  DOMAIN r \in SUBSET Forms /\ r \in [DOMAIN r -> Nat]
BY DEF IsSnapshot

\* The end of a transaction keeps what the others hold and read.
LEMMA EndedFact ==
    ASSUME TypeOK, NEW t \in Transactions, Ended(t)
    PROVE  /\ rows' = [rows EXCEPT ![t] = NoRows]
           /\ rows' = [u \in Transactions |-> IF u = t THEN NoRows ELSE rows[u]]
           /\ \A u \in Transactions : IsSnapshot(rows'[u])
           /\ holder' \in [Forms -> Transactions \cup {Nobody}]
           /\ \A f \in Forms : /\ holder'[f] # t
                               /\ holder'[f] # Nobody => holder'[f] = holder[f]
           /\ \A u \in Transactions \ {t} : Held(u)' = Held(u) /\ ToDo(u)' = ToDo(u)
           /\ ToDo(t)' = {}
<1>1. t # Nobody
  BY BatchAssumption DEF Transactions
<1>2. rows' = [u \in Transactions |-> IF u = t THEN NoRows ELSE rows[u]]
  BY DEF TypeOK, Ended
<1>3. \A f \in Forms : /\ holder'[f] # t
                       /\ holder'[f] # Nobody => holder'[f] = holder[f]
                       /\ holder[f] # t => holder'[f] = holder[f]
  BY <1>1 DEF Ended
<1>4. \A u \in Transactions \ {t} : Held(u)' = Held(u) /\ ToDo(u)' = ToDo(u)
  <2> SUFFICES ASSUME NEW u \in Transactions \ {t}
               PROVE  Held(u)' = Held(u) /\ ToDo(u)' = ToDo(u)
    OBVIOUS
  <2>1. u # Nobody
    BY BatchAssumption DEF Transactions
  <2>2. Held(u)' = Held(u)
    BY <1>3, <2>1 DEF Held
  <2> QED
    BY <1>2, <2>2 DEF ToDo
<1>5. ToDo(t)' = {}
  BY <1>2, NoRowsFact DEF ToDo
<1>6. \A u \in Transactions : IsSnapshot(rows'[u])
  BY <1>2, NoRowsFact DEF TypeOK
<1>7. holder' \in [Forms -> Transactions \cup {Nobody}]
  BY DEF TypeOK, Ended
<1> QED
  BY <1>2, <1>3, <1>4, <1>5, <1>6, <1>7 DEF Ended

-----------------------------------------------------------------------------
\* The initial state satisfies the invariant.
LEMMA InvInit == Init => Inv
<1> SUFFICES ASSUME Init PROVE Inv
  OBVIOUS
<1>1. TypeOK
  BY NoRowsFact DEF Init, TypeOK
<1>2. \A f \in Forms : holder[f] = Nobody
  BY DEF Init
<1>3. HoldsOwnRows /\ WroteAsRead
  BY <1>2, BatchAssumption DEF HoldsOwnRows, WroteAsRead
<1>4. InOrder
  BY <1>2, BatchAssumption DEF InOrder, Held
<1> QED
  BY <1>1, <1>3, <1>4 DEF Inv

\* A transaction that starts holds no lock.
LEMMA StartStep ==
    ASSUME Inv, NEW t \in Transactions, Start(t)
    PROVE  Inv'
<1> USE DEF Inv
<1>1. PICK S \in (SUBSET Forms) \ {{}} :
          rows' = [rows EXCEPT ![t] = [f \in S |-> version[f]]]
  BY DEF Start
<1>2. UNCHANGED <<version, holder>>
  BY DEF Start
<1>3. rows' = [u \in Transactions |->
                   IF u = t THEN [f \in S |-> version[f]] ELSE rows[u]]
  BY <1>1 DEF TypeOK
<1>4. [f \in S |-> version[f]] \in [S -> Nat]
  BY DEF TypeOK
<1>5. TypeOK'
  <2>1. IsSnapshot([f \in S |-> version[f]])
    BY <1>4 DEF IsSnapshot
  <2>2. \A u \in Transactions : IsSnapshot(rows'[u])
    BY <1>3, <2>1 DEF TypeOK
  <2> QED
    BY <1>2, <1>3, <2>2 DEF TypeOK, IsSnapshot
<1>6. \A f \in Forms : holder[f] # t
  BY BatchAssumption DEF Start, Running, HoldsOwnRows, Transactions
<1>7. HoldsOwnRows' /\ WroteAsRead'
  BY <1>2, <1>3, <1>6, BatchAssumption
     DEF HoldsOwnRows, WroteAsRead, TypeOK, Transactions
<1>8. InOrder'
  <2> SUFFICES ASSUME NEW b \in Batches, NEW f \in Held(b)', NEW g \in ToDo(b)'
               PROVE  f < g
    BY DEF InOrder
  <2>1. f \in Held(b) /\ b # t
    BY <1>2, <1>6 DEF Held
  <2>2. g \in ToDo(b)
    BY <1>2, <1>3, <2>1 DEF ToDo, Held, Transactions
  <2> QED
    BY <2>1, <2>2 DEF InOrder
<1> QED
  BY <1>5, <1>7, <1>8

\* A row is locked by a transaction whose turn it is.
LEMMA TakesStep ==
    ASSUME Inv, NEW t \in Transactions, NEW f \in NextRow(t),
           holder[f] = Nobody,
           t \in Batches => version[f] = rows[t][f],
           holder' = [holder EXCEPT ![f] = t],
           UNCHANGED <<version, rows>>
    PROVE  Inv'
<1> USE DEF Inv
<1>1. f \in ToDo(t)
  BY DEF NextRow
<1>2. f \in Forms /\ f \in DOMAIN rows[t] /\ f \notin Held(t)
  BY <1>1, SnapshotFact DEF ToDo, TypeOK
<1>3. TypeOK'
  BY <1>2 DEF TypeOK, IsSnapshot
<1>4. HoldsOwnRows' /\ WroteAsRead'
  BY <1>2, BatchAssumption DEF HoldsOwnRows, WroteAsRead, TypeOK, Transactions
<1>5. InOrder'
  <2> SUFFICES ASSUME NEW b \in Batches, NEW g \in Held(b)', NEW h \in ToDo(b)'
               PROVE  g < h
    BY DEF InOrder
  <2>1. b # Nobody
    BY BatchAssumption
  <2>2. h \in ToDo(b) /\ (b = t => h # f)
    BY <1>2, <2>1 DEF ToDo, Held, TypeOK
  <2>3. CASE b = t /\ g = f
    <3>1. f <= h /\ h # f
      BY <2>2, <2>3, BatchAssumption DEF NextRow
    <3>2. h \in Forms
      BY <2>2, SnapshotFact DEF ToDo, TypeOK, Transactions
    <3> QED
      BY <1>2, <2>3, <3>1, <3>2, FormsAreNumbers
  <2>4. CASE ~(b = t /\ g = f)
    <3>1. g \in Held(b)
      BY <1>2, <2>4 DEF Held, TypeOK
    <3> QED
      BY <2>2, <3>1 DEF InOrder
  <2> QED
    BY <2>3, <2>4
<1> QED
  BY <1>3, <1>4, <1>5

\* A transaction ends without effect, or raises the rows it alone holds.
LEMMA EndStep ==
    ASSUME Inv, NEW t \in Transactions, Ended(t),
           \/ UNCHANGED version
           \/ /\ ToDo(t) = {}
              /\ version' = [f \in Forms |-> IF f \in DOMAIN rows[t]
                                             THEN version[f] + 1 ELSE version[f]]
    PROVE  Inv'
<1> USE DEF Inv
<1>1. version' \in [Forms -> Nat]
  BY DEF TypeOK
<1>2. \A f \in Forms : version'[f] # version[f] => holder[f] = t
  BY DEF ToDo, Held
<1>3. TypeOK'
  BY <1>1, EndedFact DEF TypeOK, IsSnapshot
<1>4. \A f \in Forms : holder'[f] # Nobody =>
          /\ holder'[f] = holder[f]
          /\ holder[f] \in Transactions \ {t}
          /\ rows'[holder[f]] = rows[holder[f]]
  BY EndedFact DEF TypeOK
<1>5. HoldsOwnRows'
  BY <1>4 DEF HoldsOwnRows
<1>6. WroteAsRead'
  BY <1>2, <1>4, BatchAssumption DEF WroteAsRead
<1>7. InOrder'
  <2> SUFFICES ASSUME NEW b \in Batches, NEW f \in Held(b)', NEW g \in ToDo(b)'
               PROVE  f < g
    BY DEF InOrder
  <2>1. b # t /\ b \in Transactions
    BY EndedFact DEF Transactions
  <2> QED
    BY <2>1, EndedFact DEF InOrder
<1> QED
  BY <1>3, <1>5, <1>6, <1>7

\* Every step preserves the invariant.
LEMMA InvStep == Inv /\ [Next]_vars => Inv'
<1> SUFFICES ASSUME Inv, [Next]_vars PROVE Inv'
  OBVIOUS
<1>1. ASSUME NEW b \in Batches, Update(b) PROVE Inv'
  BY <1>1, TakesStep DEF Update, Transactions
<1>2. ASSUME NEW b \in Batches, Conflict(b) PROVE Inv'
  BY <1>2, EndStep DEF Conflict, Transactions
<1>3. CASE Sweep
  BY <1>3, TakesStep, BatchAssumption DEF Sweep, Transactions
<1>4. ASSUME NEW t \in Transactions, Start(t) PROVE Inv'
  BY <1>4, StartStep
<1>5. ASSUME NEW t \in Transactions, Commit(t) PROVE Inv'
  BY <1>5, EndStep DEF Commit
<1>6. ASSUME NEW t \in Transactions, RollBack(t) PROVE Inv'
  BY <1>6, EndStep DEF RollBack
<1>7. CASE UNCHANGED vars
  BY <1>7 DEF vars, Inv, TypeOK, IsSnapshot, HoldsOwnRows, WroteAsRead, InOrder,
              Held, ToDo
<1> QED
  BY <1>1, <1>2, <1>3, <1>4, <1>5, <1>6, <1>7 DEF Next

\* Locks belong to those who write the rows, rows written are as read, and
\* each batch goes upwards.
THEOREM Invariance == Spec => []Inv
BY InvInit, InvStep, PTL DEF Spec

\* Versions, rows and locks have their types.
THEOREM TypeCorrect == Spec => []TypeOK
<1>1. Inv => TypeOK
  BY DEF Inv
<1> QED
  BY <1>1, Invariance, PTL

-----------------------------------------------------------------------------
(* No circle of batches.                                                    *)

\* Every set of forms but the empty one has a last form.
LEMMA LastForm ==
    ASSUME NEW T \in SUBSET Forms, T # {}
    PROVE  \E f \in T : \A g \in T : ~(f < g)
<1> DEFINE Less == {p \in Nat \X Nat : p[1] < p[2]}
           After == {FormCount - f : f \in T}
<1>1. IsWellFoundedOn(Less, Nat)
  BY NatLessThanWellFounded DEF OpToRel
<1>2. \A f \in T : f \in Nat /\ FormCount - f \in Nat
  BY CountAssumption DEF Forms
<1>3. After \subseteq Nat /\ After # {}
  BY <1>2
<1> HIDE DEF Less, After
<1>4. PICK x \in After : \A y \in After : <<y, x>> \notin Less
  BY <1>1, <1>3, WFMin
<1>5. PICK f \in T : x = FormCount - f
  BY <1>4 DEF After
<1>6. ASSUME NEW g \in T, f < g PROVE FALSE
  <2>1. FormCount - g \in After /\ FormCount - g \in Nat /\ x \in Nat
    BY <1>2, <1>3 DEF After
  <2>2. FormCount - g < x
    BY <1>2, <1>5, <1>6, CountAssumption
  <2>3. <<FormCount - g, x>> \in Less
    BY <2>1, <2>2 DEF Less
  <2> QED
    BY <1>4, <2>1, <2>3
<1> QED
  BY <1>6

\* A row that a batch of a circle waits for is followed by another such row:
\* the batch that holds it has rows to write, and those come later.
LEMMA WaitsUpward ==
    ASSUME Inv, NEW C \in SUBSET Batches, IsCircle(C),
           NEW f \in Forms, holder[f] \in C
    PROVE  \E u \in C : \E g \in NextRow(u) :
               g \in Forms /\ holder[g] \in C /\ f < g
<1>1. PICK u \in C : u = holder[f]
  OBVIOUS
<1>2. PICK g \in NextRow(u) : holder[g] \in C
  BY DEF IsCircle
<1>3. g \in ToDo(u) /\ u \in Transactions
  BY <1>2 DEF NextRow, Transactions
<1>4. g \in Forms
  BY <1>3, SnapshotFact DEF ToDo, Inv, TypeOK
<1>5. f < g
  BY <1>1, <1>3 DEF Inv, InOrder, Held
<1> QED
  BY <1>2, <1>4, <1>5

\* A circle would have a row after its last one.
LEMMA NoCircles == Inv => NoBatchCircle
<1>1. ASSUME Inv, NEW C \in SUBSET Batches, IsCircle(C) PROVE FALSE
  <2> DEFINE T == {f \in Forms : holder[f] \in C}
  <2>1. T # {}
    <3>1. PICK t \in C : \E f \in NextRow(t) : holder[f] \in C
      BY <1>1 DEF IsCircle
    <3>2. PICK f \in NextRow(t) : holder[f] \in C
      BY <3>1
    <3>3. f \in Forms
      BY <1>1, <3>2, SnapshotFact DEF NextRow, ToDo, Inv, TypeOK, Transactions
    <3> QED
      BY <3>2, <3>3
  <2>2. PICK f \in T : \A g \in T : ~(f < g)
    <3> HIDE DEF T
    <3>1. T \in SUBSET Forms
      BY DEF T
    <3> QED
      BY <2>1, <3>1, LastForm
  <2> QED
    BY <1>1, <2>2, WaitsUpward
<1> QED
  BY <1>1 DEF NoBatchCircle

\* Since batches write in the order of the ids, they never wait for one
\* another in a circle.
THEOREM NoDeadlock == Spec => []NoBatchCircle
BY NoCircles, Invariance, PTL

\* A batch that waits for nobody: its next row is free to be updated or found
\* changed, or it has none left and may commit.
MayMove(b) == Running(b) /\ \A f \in NextRow(b) : holder[f] = Nobody

\* So, whenever no semester switch is under way, some batch of those that are
\* can go on, however their rows overlap: the database has nothing to break.
THEOREM SomeBatchMoves ==
    Spec => [](~Running(Switcher) /\ (\E b \in Batches : Running(b)) =>
                   \E b \in Batches : MayMove(b))
<1>1. ASSUME Inv, ~Running(Switcher), NEW c \in Batches, Running(c),
             \A b \in Batches : ~MayMove(b)
      PROVE  FALSE
  <2> DEFINE C == {b \in Batches : Running(b)}
  <2>1. ASSUME NEW t \in C PROVE \E f \in NextRow(t) : holder[f] \in C \ {t}
    <3>1. PICK f \in NextRow(t) : holder[f] # Nobody
      BY <1>1 DEF MayMove
    <3>2. f \in ToDo(t) /\ t \in Transactions
      BY <3>1 DEF NextRow, Transactions
    <3>3. f \in Forms /\ holder[f] # t
      BY <1>1, <3>2, SnapshotFact DEF ToDo, Held, Inv, TypeOK
    <3>4. holder[f] \in Transactions /\ Running(holder[f])
      BY <1>1, <3>1, <3>3 DEF Inv, TypeOK, HoldsOwnRows, Running
    <3>5. holder[f] \in C
      BY <1>1, <3>4 DEF Transactions
    <3> QED
      BY <3>1, <3>3, <3>5
  <2>2. \A t \in C : Running(t)
    OBVIOUS
  <2>3. C \in SUBSET Batches /\ C # {}
    BY <1>1
  <2> HIDE DEF C
  <2>4. IsCircle(C)
    BY <2>1, <2>2, <2>3 DEF IsCircle
  <2> QED
    BY <1>1, <2>3, <2>4, NoCircles DEF NoBatchCircle
<1>2. Inv => (~Running(Switcher) /\ (\E b \in Batches : Running(b)) =>
                  \E b \in Batches : MayMove(b))
  BY <1>1
<1> QED
  BY <1>2, Invariance, PTL

-----------------------------------------------------------------------------
(* Row by row is in one instant.                                            *)

\* A step that leaves versions and the rows of batches alone is no step of
\* AtomicWrites.
LEMMA Unseen ==
    ASSUME UNCHANGED version, \A b \in Batches : rows'[b] = rows[b]
    PROVE  UNCHANGED <<version, [b \in Batches |-> rows[b]]>>
OBVIOUS

\* The start of a batch is its read.
LEMMA StartReads ==
    ASSUME TypeOK, NEW b \in Batches, Start(b)
    PROVE  Atomic!Read(b)
<1>1. PICK S \in (SUBSET Forms) \ {{}} :
          rows' = [rows EXCEPT ![b] = [f \in S |-> version[f]]]
  BY DEF Start
<1>2. [c \in Batches |-> rows'[c]] =
          [[c \in Batches |-> rows[c]] EXCEPT ![b] = [f \in S |-> version[f]]]
  BY <1>1 DEF TypeOK, Transactions
<1> QED
  BY <1>2 DEF Atomic!Read, Start

\* The end of a batch forgets what it read.
LEMMA EndForgets ==
    ASSUME TypeOK, NEW b \in Batches, Ended(b)
    PROVE  [c \in Batches |-> rows'[c]] =
               [[c \in Batches |-> rows[c]] EXCEPT ![b] = Atomic!Nothing]
BY DEF TypeOK, Ended, Transactions, NoRows, Atomic!Nothing

\* The commit of a batch is its write: its rows are locked, hence as read.
LEMMA CommitWrites ==
    ASSUME Inv, NEW b \in Batches, Commit(b)
    PROVE  Atomic!Write(b)
<1> DEFINE seen == [c \in Batches |-> rows[c]]
<1>1. DOMAIN rows[b] # {} /\ DOMAIN rows[b] \subseteq Held(b)
  BY DEF Commit, Running, ToDo
<1>2. \A f \in DOMAIN rows[b] : version[f] = rows[b][f]
  BY <1>1 DEF Inv, WroteAsRead, Held
<1>3. version' \in Atomic!Raised(DOMAIN rows[b])
  BY DEF Commit, Atomic!Raised, Inv, TypeOK
<1>4. [c \in Batches |-> rows'[c]] = [seen EXCEPT ![b] = Atomic!Nothing]
  BY EndForgets DEF Inv, Commit
<1> QED
  BY <1>1, <1>2, <1>3, <1>4 DEF Atomic!Write

\* Every step is a step of AtomicWrites or changes nothing there.
LEMMA AtomicStep ==
    Inv /\ [Next]_vars => [Atomic!Next]_<<version, [b \in Batches |-> rows[b]]>>
<1> SUFFICES ASSUME Inv, [Next]_vars
             PROVE  \/ Atomic!Next
                    \/ UNCHANGED <<version, [b \in Batches |-> rows[b]]>>
  OBVIOUS
<1> USE DEF Inv
<1>1. ASSUME NEW b \in Batches, Update(b)
      PROVE  UNCHANGED <<version, [c \in Batches |-> rows[c]]>>
  BY <1>1 DEF Update
<1>2. ASSUME NEW b \in Batches, Conflict(b) PROVE Atomic!GiveUp(b)
  BY <1>2, EndForgets DEF Conflict, Atomic!GiveUp
<1>3. ASSUME Sweep PROVE UNCHANGED <<version, [c \in Batches |-> rows[c]]>>
  BY <1>3 DEF Sweep
<1>4. ASSUME NEW b \in Batches, Start(b) PROVE Atomic!Read(b)
  BY <1>4, StartReads
<1>5. ASSUME NEW b \in Batches, Commit(b) PROVE Atomic!Write(b)
  BY <1>5, CommitWrites
<1>6. ASSUME NEW b \in Batches, RollBack(b) PROVE Atomic!GiveUp(b)
  BY <1>6, EndForgets DEF RollBack, Atomic!GiveUp
<1>7. ASSUME Start(Switcher) \/ RollBack(Switcher)
      PROVE  UNCHANGED <<version, [c \in Batches |-> rows[c]]>>
  <2>1. UNCHANGED version /\ \A c \in Batches : rows'[c] = rows[c]
    BY <1>7, BatchAssumption DEF Start, RollBack, Ended, TypeOK, Transactions
  <2> QED
    BY <2>1, Unseen
<1>8. ASSUME Commit(Switcher) PROVE Atomic!Switch
  <2>1. DOMAIN rows[Switcher] \in SUBSET Forms
    BY SnapshotFact DEF TypeOK, Transactions
  <2>2. version' \in Atomic!Raised(DOMAIN rows[Switcher])
    BY <1>8 DEF Commit, Atomic!Raised, TypeOK
  <2>3. \A c \in Batches : rows'[c] = rows[c]
    BY <1>8, BatchAssumption DEF Commit, Ended, TypeOK, Transactions
  <2> QED
    BY <2>1, <2>2, <2>3 DEF Atomic!Switch
<1>9. CASE UNCHANGED vars
  BY <1>9 DEF vars
<1> QED
  BY <1>1, <1>2, <1>3, <1>4, <1>5, <1>6, <1>7, <1>8, <1>9
     DEF Next, Transactions, Atomic!Next

\* A transaction that writes its rows one by one, each at the version read,
\* takes effect in one instant or not at all.
THEOREM Refinement == Spec => ImplementsAtomicWrites
<1>1. Init => Atomic!Init
  BY DEF Init, Atomic!Init, Transactions, NoRows, Atomic!Nothing
<1>2. Inv /\ [Next]_vars => [Atomic!Next]_<<version, [b \in Batches |-> rows[b]]>>
  BY AtomicStep
<1> QED
  BY <1>1, <1>2, Invariance, PTL DEF Spec, ImplementsAtomicWrites, Atomic!Spec
=============================================================================
