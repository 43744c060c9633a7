SPECIFICATION Spec
CONSTANTS
    u0 = u0
    u1 = u1
    u2 = u2
    NPages = 24
    PgSize = 2
    PTN = 6
    PDN = 2
    TLBN = 2
    USERBASE = 1
    UStackPages = 2
    UStackInit = 1
    Procs = {u0, u1, u2}
    initproc = u0
    Programs <- MCPrograms
    Accesses <- MCAccesses
    Args = {12, 20}
    Buffers = {7, 20}
    Written = 99
    ArgByte = 77
    KSTACKPAGE = 2
    MaxCalls = 4
SYMMETRY MemorySymmetry
INVARIANT FramesExact
PROPERTY SpacesSpec
CHECK_DEADLOCK FALSE
