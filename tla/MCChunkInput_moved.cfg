SPECIFICATION Spec
CONSTANTS
    Streams = {2, 3}
    Wide = {3}
    Sizes = {2}
    DefaultSize = 2
    Lengths = {8}
    MaxMessages = 2
    MaxWire = 4
    NULL = NULL
CHECK_DEADLOCK FALSE
INVARIANTS
    Intact
