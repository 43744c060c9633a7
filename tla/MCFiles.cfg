SPECIFICATION Spec
CONSTANTS
    NBlocks = 19
    BlkSize = 1
    NDirect = 7
    NEntry = 1
    MaxFileSize = 9
    Writable = TRUE
    DentrySize = 1
    BlkBits = 32
    p0 = p0
    p1 = p1
    p2 = p2
    Procs = {p0, p1, p2}
    initproc = p0
    NFd = 3
    IobufSize = 1
    Hosts <- FilesHosts
    Opens <- FilesOpens
    Programs = {"sh"}
    Lengths = {1}
    Seeks <- FilesSeeks
    MaxOpen = 3
    MaxLeak = 1
SYMMETRY FilesSymmetry
INVARIANTS
    RefsExact
    AssertionsHold
    ClosedIsClean
CHECK_DEADLOCK FALSE
