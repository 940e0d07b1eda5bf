SPECIFICATION FairSpec
CONSTANTS
    d1 = d1
    d2 = d2
    s1 = s1
    s2 = s2
    Desc = {d1}
    Kind <- TcpKind
    Strand = {s1}
    StrandOf <- OnS1
    Worker = {w1, w2}
    Main = Main
    None = None
    MayUse <- AnyThread
    MayDestroy <- AnyThread
    FullDuplex = FALSE
    ArmMayFail = FALSE
    HangUps = {d1}
    BareHangUps = {}
    MaxOps = 2
INVARIANTS
    TypeOK
    NoDangling
    NoEmptyCall
    FinalAfterReports
    NoLostWakeup
    ConveyorInv
PROPERTIES
    ScopeEndsOutsideCallbacks
    ReportedIsDelivered
    DestroyedIsReclaimed
    DestructorReturns
    ImplementsAsyncIo
