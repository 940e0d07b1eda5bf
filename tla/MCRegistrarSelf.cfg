SPECIFICATION FairSpec
CONSTANTS
    Object = {x1, x2, x3}
    Strand = {s1, s2}
    Main = Main
    None = None
    Captures <- SelfCaptures
INVARIANTS
    NoSelfDeadlock
    OwnedOnce
    NothingLeftToClear
PROPERTY
    Reclaimed
CHECK_DEADLOCK FALSE
