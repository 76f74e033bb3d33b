SPECIFICATION Spec
CONSTANTS
    Workers = {w1, w2, w3}
    Master = master
    Sessions = {s1, s2, s3}
    MaxConn = 1
    MaxAccepts = 3
    MaxDeaths = 1
    NULL = NULL
SYMMETRY MCSymmetry
CHECK_DEADLOCK FALSE
INVARIANTS NoLostWakeup CounterExact
