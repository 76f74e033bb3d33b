SPECIFICATION NotifySpec
CONSTANTS
    Sessions = {s1, s2}
    Names = {n1}
    Calls = {k1, k2}
    Hls = {}
    FromRelay = {}
    IdleStreams = {n1}
    IdleTimeout = FALSE
    Asks = {"publish", "play"}
    UpdateStrict = FALSE
    UpdateIgnore = FALSE
    NULL = NULL
SYMMETRY MCSymmetry
INVARIANTS NothingOutlives
PROPERTY ImplementsLive
