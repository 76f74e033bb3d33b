SPECIFICATION RelaySpec
CONSTANTS
    Sessions = {c1, c2, h1, r1}
    Names = {n1}
    Hls = {h1}
    FromRelay = {r1}
    Relays = {r1}
    Ways = {"local", "redirect"}
    IdleStreams = {n1}
    IdleTimeout = FALSE
    Push = FALSE
    Refuses = TRUE
    Replays = TRUE
    NULL = NULL
SYMMETRY MCSymmetry
INVARIANTS RelayLists RelayHash 
