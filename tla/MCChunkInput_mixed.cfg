SPECIFICATION Spec
CONSTANTS
    Streams = {2, 3}
    Wide = {3}
    Sizes = {2}
    DefaultSize = 1
    Lengths = {0, 3}
    MaxMessages = 4
    MaxWire = 5
    NULL = NULL
CHECK_DEADLOCK FALSE
INVARIANTS
    Intact
    NothingHeld
    PoolsAlive
    
