\* Two batches over three forms, and the semester switch; a form is written by at
\* most two transactions, since none starts on it after the first has committed.
SPECIFICATION FairSpec
CONSTANTS
    FormCount = 3
    b1 = b1  b2 = b2
    Batches = {b1, b2}
    Switcher = sw
    Nobody = nobody
    MaxVersion = 1
INVARIANTS
    NoBatchCircle
PROPERTIES
    ImplementsAtomicWrites
    TransactionsEnd
CHECK_DEADLOCK FALSE
