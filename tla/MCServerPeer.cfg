SPECIFICATION Spec
CONSTANTS
    a = a
    c = c
    s1 = s1
    s2 = s2
    Handle = {a, s1, s2}
    Kind <- Server
    Desc = {1, 2}
    None = None
    FreshPeer = FALSE
INVARIANTS
    PeerExists
