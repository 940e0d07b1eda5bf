SPECIFICATION FairSpec
CONSTANTS
    Consumer = {c1, c2}
    Program = {p1}
    None = None
    OwnRun = FALSE
    MaxTasks = 3
INVARIANTS
    NoSleeperOnWork
    EachTaskOnce
PROPERTIES
    StopEndsLoops
    ImplementsTaskQueue
CHECK_DEADLOCK FALSE
