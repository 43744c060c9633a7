SPECIFICATION FairSpec
CONSTANTS
    Procs = {p1, p2, p3, p4}
    InitValue = 1
INVARIANTS
    Exclusion
    SleeperIsQueued
    DownNotInterrupted
PROPERTY DownReturns
