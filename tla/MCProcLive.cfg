SPECIFICATION FairSpec
CONSTANTS
    Procs = {idle, init, u1, u2}
    idleproc = idle
    initproc = init
    NULL = NULL
    MAX_TIME_SLICE = 1
    MaxSleep = 1
PROPERTIES
    NoStarvation
    KilledExitsOrWaits
    SleepEnds
