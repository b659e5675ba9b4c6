---------------------------- MODULE OnceCommand ----------------------------
(***************************************************************************)
(* What an Idempotency-Key promises its client: however often the command   *)
(* is sent, it is carried out at most once, and whoever gets an answer gets *)
(* that of the one execution, for the very input it sent.                   *)
(***************************************************************************)
CONSTANTS
    Requests,           \* HTTP calls: first attempts, retries, double clicks
    ScopeOf, InputOf,   \* a call's (actor, action, key), and its input
    NoKey, Null

VARIABLES
    ledger,             \* the executions that took effect
    answer              \* for each call, the execution it was told of

Execution(r) == [scope |-> ScopeOf[r], input |-> InputOf[r], by |-> r]

Init == ledger = {} /\ answer = [r \in Requests |-> Null]

\* A call without a key stands for itself.
Covers(e, r) == IF ScopeOf[r] = NoKey THEN e.by = r ELSE e.scope = ScopeOf[r]

Execute(r) ==
    /\ \A e \in ledger : ~Covers(e, r)
    /\ ledger' = ledger \cup {Execution(r)}
    /\ UNCHANGED answer

Answer(r) ==
    /\ answer[r] = Null
    /\ \E e \in ledger : /\ Covers(e, r) /\ e.input = InputOf[r]
                         /\ answer' = [answer EXCEPT ![r] = e.by]
    /\ UNCHANGED ledger

Next == \E r \in Requests : Execute(r) \/ Answer(r)

Spec == Init /\ [][Next]_<<ledger, answer>>

=============================================================================
