SPECIFICATION FairSpec
CONSTANTS
    s1 = s1
    s2 = s2
    e1 = e1
    e2 = e2
    Strand = {s1, s2}
    Event = {e1}
    StrandOf <- AllFirst
    reactor_threads = 2
    DefaultThreads = 2
    Main = Main
    None = None
PROPERTY
    DestroyedIsGiven
CHECK_DEADLOCK FALSE
