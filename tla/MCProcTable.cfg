SPECIFICATION TableFairSpec
CONSTANTS
    MAX_PROCESS = 5
    Procs = {idle, init, p1, p2, p3}
    idleproc = idle
    initproc = init
    NULL = NULL
INVARIANTS
    WalkMeetsChildren
    YptrExact
    CountsAgree
PROPERTIES
    PidIsUnique
    WalkEnds
