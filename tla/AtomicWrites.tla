---------------------------- MODULE AtomicWrites ----------------------------
(***************************************************************************)
(* What a request that writes evaluation forms may rely on: it reads some   *)
(* forms, and later either all of them are still at the versions it read    *)
(* and it writes all of them in one instant, or it writes none.             *)
(***************************************************************************)
EXTENDS Integers

CONSTANTS Forms, Batches

VARIABLES version,    \* of the committed row of each form
          seen        \* the forms each request read, and their versions then

Nothing == [f \in {} |-> 0]

Init == version = [f \in Forms |-> 0] /\ seen = [b \in Batches |-> Nothing]

\* After a transaction that writes the rows of S, each of them once or more.
Raised(S) == {v \in [Forms -> Nat] :
                 \A f \in Forms : IF f \in S THEN v[f] > version[f]
                                             ELSE v[f] = version[f]}

Read(b) ==
    \E S \in (SUBSET Forms) \ {{}} :
        seen' = [seen EXCEPT ![b] = [f \in S |-> version[f]]]
    /\ UNCHANGED version

Write(b) ==
    /\ DOMAIN seen[b] # {}
    /\ \A f \in DOMAIN seen[b] : version[f] = seen[b][f]
    /\ version' \in Raised(DOMAIN seen[b])
    /\ seen' = [seen EXCEPT ![b] = Nothing]

GiveUp(b) ==
    /\ seen' = [seen EXCEPT ![b] = Nothing]
    /\ UNCHANGED version

\* Semester administration writes forms it did not read.
Switch ==
    /\ \E S \in SUBSET Forms : version' \in Raised(S)
    /\ UNCHANGED seen

Next == Switch \/ \E b \in Batches : Read(b) \/ Write(b) \/ GiveUp(b)

Spec == Init /\ [][Next]_<<version, seen>>

=============================================================================
