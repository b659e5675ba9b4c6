\* Five calls: three of one scope, one of them with another input, and one of a
\* scope that shares the lock, and one without a key.
SPECIFICATION FairSpec
CONSTANTS
    NoKey = NoKey  Null = Null
    r1 = r1  r2 = r2  r3 = r3  r4 = r4  r5 = r5
    s1 = s1  s2 = s2  i1 = i1  i2 = i2  l1 = l1
    Requests = {r1, r2, r3, r4, r5}
    Scopes = {s1, s2}
    Inputs = {i1, i2}
    Locks = {l1}
    ScopeOf <- Scope
    InputOf <- Input
    LockOf <- OneLock
INVARIANTS
    LookStaysCurrent
    EffectsOfCommitted
    ReceiptForExecution
PROPERTIES
    ImplementsOnce
    EveryCallEnds
CHECK_DEADLOCK FALSE
