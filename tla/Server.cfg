\* Three clients, so that callbacks about two nest in one about the third.
CONSTANTS
    c1 = c1
    c2 = c2
    c3 = c3
    Clients = {c1, c2, c3}
    MaxPanics = 2
    MaxForeach = 1
SPECIFICATION LiveSpec
CHECK_DEADLOCK FALSE
INVARIANTS
    TypeOK
    ReferencesAreOwned
    TableIsCurrent
    ForeachIsSafe
PROPERTIES
    KeepsPromise
    LossIsAnnounced
    LostIsFreed
