SPECIFICATION Spec
CONSTANTS
    NPages = 5
    SLOB_UNIT = 8
    PageUnits = 4
    BigBytes = 12
    INT_MAX = 127
    Sizes = {0, 1, 16, 24, 40, 65, 129}
    MaxLive = 3
INVARIANT HeapExact
INVARIANT PagesExact
CHECK_DEADLOCK FALSE
