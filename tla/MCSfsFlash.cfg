SPECIFICATION Spec
CONSTANTS
    NBlocks = 14
    BlkSize = 2
    NDirect = 2
    NEntry = 2
    MaxFileSize = 7
    Writable = FALSE
    DentrySize = 1
    BlkBits = 32
    p0 = p0
    p1 = p1
    p2 = p2
    Procs = {p0, p1}
    initproc = p0
    NFd = 2
    IobufSize = 2
    Hosts <- SfsHosts
    Opens <- FlashOpens
    Programs = {"a"}
    Lengths = {3}
    Seeks <- SfsSeeks
    MaxOpen = 3
    MaxLeak = 1
INVARIANT AssertionsHold
CHECK_DEADLOCK FALSE
