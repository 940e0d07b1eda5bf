SPECIFICATION CFairSpec
CONSTANTS
    Consumer = {c1}
    Program = {p1, p2}
    None = None
    OwnRun = TRUE
    MaxTasks = 3
INVARIANTS
    InOrder
    CancelIsFinal
PROPERTY
    CancelReturns
CHECK_DEADLOCK FALSE
