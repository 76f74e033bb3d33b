SPECIFICATION Spec
CONSTANTS
    c1 = c1
    c2 = c2
    m1 = m1
    m2 = m2
    s1 = s1
    s2 = s2
    Sessions = {s1, s2}
    Chains = {c1, c2}
    Messages = {m1}
    OutQueue = 4
    OutCork = 2
    OutBuffer = TRUE
    SizeMod <- MCSizeMod
    Units = 1
    NULL = NULL
SYMMETRY MCSymmetry
CHECK_DEADLOCK FALSE
INVARIANT RefExact
