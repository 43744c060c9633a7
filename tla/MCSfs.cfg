SPECIFICATION Spec
CONSTANTS
    NBlocks = 15
    BlkSize = 2
    NDirect = 2
    NEntry = 3
    MaxFileSize = 10
    Writable = TRUE
    DentrySize = 1
    BlkBits = 32
    p0 = p0
    p1 = p1
    p2 = p2
    Procs = {p0, p1}
    initproc = p0
    NFd = 2
    IobufSize = 2
    Hosts <- SfsHosts
    Opens <- SfsOpens
    Programs = {"a"}
    Lengths = {3}
    Seeks <- SfsSeeks
    MaxOpen = 3
    MaxLeak = 1
INVARIANTS
    BlocksOwnedOnce
    ReadsExact
    CleanIsStored
    CleanupStores
PROPERTY
    StoreSpec
CHECK_DEADLOCK FALSE
