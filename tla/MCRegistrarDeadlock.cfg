SPECIFICATION Spec
CONSTANTS
    Object = {x1, x2}
    Strand = {s1}
    Main = Main
    None = None
    Captures <- AnyCaptures
INVARIANT
    NoSelfDeadlock
CHECK_DEADLOCK FALSE
