SPECIFICATION Spec
CONSTANTS
    N = 2
    MaxProcesses = 4
    KillAfter = 50
    Signals = {"HUP", "QUIT", "TERM", "WINCH", "USR2"}
    MaxEvents = 2
    MaxCrashes = 1
    MaxHangs = 1
    MaxFatals = 1
    MaxReloads = 1
    MaxPublishes = 1
    MaxDrops = 1
CHECK_DEADLOCK FALSE
INVARIANTS NoForgotten NoOrphan TablesComplete
PROPERTIES WorkersRestored ReloadEnds ShutdownEnds PushedEverywhere
