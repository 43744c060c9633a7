SPECIFICATION FairSpec
CONSTANTS
    N = 4
    TIMES = 1
INVARIANTS
    NeighboursExclude
    RightToEat
    MonitorExclusion
PROPERTY AllQuit
CHECK_DEADLOCK FALSE
