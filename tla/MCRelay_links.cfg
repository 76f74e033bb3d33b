SPECIFICATION RelaySpec
CONSTANTS
    Sessions = {c1, c2, r1, r2}
    Names = {n1}
    Hls = {}
    FromRelay = {r1, r2}
    Relays = {r1, r2}
    Ways = {"pull"}
    IdleStreams = {n1}
    IdleTimeout = FALSE
    Push = TRUE
    Refuses = TRUE
    Replays = FALSE
    NULL = NULL
SYMMETRY MCSymmetry
CHECK_DEADLOCK FALSE
INVARIANTS RelayLists RelayTimers
