SPECIFICATION FairSpec
CONSTANTS
    s1 = s1
    s2 = s2
    e1 = e1
    e2 = e2
    Strand = {s1, s2}
    Event = {e1}
    StrandOf <- AllFirst
    reactor_threads = 0
    DefaultThreads = 1
    Main = Main
    None = None
INVARIANTS
    AloneInDestructor
    DroppedByStopOnly
    AllReclaimed
PROPERTIES
    NoWriteToClosedPipe
    StopEndsRun
    DestroyedIsGiven
CHECK_DEADLOCK FALSE
