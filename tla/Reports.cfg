\* Four exports with restarts, failures and time passing.  When all calls have
\* ended and the clock has reached its bound only restarts are left.
SPECIFICATION FairSpec
CONSTANTS
    NoKey = NoKey  Null = Null
    c1 = c1  c2 = c2  c3 = c3  c4 = c4  k1 = k1  i1 = i1  i2 = i2
    Calls = {c1, c2, c3, c4}
    Keys = {k1}
    Intents = {i1, i2}
    KeyOf <- Key
    IntentOf <- Intent
    Capacity = 2
    Lifetime = 2
    MaxWrite = 1
    MaxTime = 3
INVARIANTS
    SlotMatchesRender
    KeysMatchJobs
    AnswersOwnExport
    FileOutlivesOffer
PROPERTIES
    RefusedWhenBusy
    ComesToRest
