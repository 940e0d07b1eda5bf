SPECIFICATION Spec
CONSTANTS
    a = a
    c = c
    s1 = s1
    s2 = s2
    Handle = {a, c, s1, s2}
    Kind <- Program
    Desc = {1, 2, 3, 4}
    None = None
    FreshPeer = TRUE
INVARIANTS
    TypeOK
    SoleOwner
    Usable
    ReactorFindsEvents
    Accounted
