SPECIFICATION Spec
CONSTANTS
    Procs = {idle, init, u1, u2, u3}
    idleproc = idle
    initproc = init
    NULL = NULL
    MAX_TIME_SLICE = 1
    MaxSleep = 1
SYMMETRY UserSymmetry
INVARIANTS
    TypeOK
    RunQueueExact
    NoLostChildExit
    TimerOwnerInSleep
    ParentCanReap
    InitEndClean
PROPERTY ZombieStaysDead
