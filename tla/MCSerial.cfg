SPECIFICATION FairSpec
CONSTANTS
    r1 = r1
    r2 = r2
    Readers <- TwoReaders
    COM_SIZE = 3
    CONSBUFSIZE = 3
    STDIN_BUFSIZE = 2
    ReadLen = 2
    MaxInput = 3
INVARIANTS
    TypeOK
    SleeperMissesNothing
    InOrder
PROPERTY InputWakesReader
CHECK_DEADLOCK FALSE
