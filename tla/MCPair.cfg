SPECIFICATION Spec
CONSTANTS
    d1 = d1
    d2 = d2
    s1 = s1
    s2 = s2
    Desc = {d1, d2}
    Kind <- PairKind
    Strand = {s1, s2}
    StrandOf <- OnOwnStrand
    Worker = {w1}
    Main = Main
    None = None
    MayUse <- AnyThread
    MayDestroy <- AnyThread
    FullDuplex = FALSE
    ArmMayFail = TRUE
    HangUps = {d1}
    BareHangUps = {d1}
    MaxOps = 1
INVARIANTS
    NoLostOperation
    LockHeld
PROPERTIES
    CallbackOnce
