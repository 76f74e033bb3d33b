SPECIFICATION Spec
CONSTANTS
    Confs <- MCConfs
    Fds = {1}
    MaxFaults = 1
    MaxCuts = 1
    Players = {a, b}
    MaxForkFails = 1
    Calls = {c, d}
    MaxRefused = 1
INVARIANTS
    Playable OwnFile  LimitsKept
    Decodable ClockExact
    PlaylistSound StartsWithKey
    NothingLeft CommandsOwed
    FilesTidy SendOwed VodClock
 
