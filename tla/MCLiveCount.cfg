SPECIFICATION CountSpec
CONSTANTS
    Sessions = {s1, s2, h1}
    Names = {n1, n2}
    Hls = {h1}
    FromRelay = {s1}
    IdleStreams = {n1}
    IdleTimeout = TRUE
    MaxCount = 2
    NULL = NULL
INVARIANTS Registry TimersSound PlayersNotMissed
