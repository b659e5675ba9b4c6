------------------------ MODULE MCIdempotentCommand ------------------------
(* Instances of IdempotentCommand for TLC. *)
EXTENDS IdempotentCommand, TLC

CONSTANTS r1, r2, r3, r4, r5, s1, s2, i1, i2, l1

\* A command and its double click or retry; the same key with another input;
\* another scope whose lock collides; a call without a key.
Scope == r1 :> s1 @@ r2 :> s1 @@ r3 :> s1 @@ r4 :> s2 @@ r5 :> NoKey
Input == r1 :> i1 @@ r2 :> i1 @@ r3 :> i2 @@ r4 :> i1 @@ r5 :> i1
OneLock == [s \in Scopes |-> l1]
=============================================================================
