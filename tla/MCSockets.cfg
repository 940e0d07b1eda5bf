SPECIFICATION Spec
CONSTANTS
    e1 = e1
    e2 = e2
    a = a
    o1 = o1
    o2 = o2
    o3 = o3
    there4 = there4
    there6 = there6
    V4 = {there4}
    V6 = {there6}
    Zero = Zero
    Junk = Junk
    Ports = {258}
    Holder = {e1, e2, a, o1, o2, o3}
    Class <- Classes
    Texts <- SomeTexts
    MaxMade = 4
    None = None
    Socket = {1}
    File = {1, 2, 3}
    Invalid = Invalid
    Remote <- Far
    Timeouts = {0, 1500}
    MaxBacklog = 1
SYMMETRY Endpoints
INVARIANTS
    EndpointsAgree
    SocketsKnowPeer
    OKIsDone
    FilesAccounted
CHECK_DEADLOCK FALSE
