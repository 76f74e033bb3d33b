SPECIFICATION FairSpec
CONSTANTS
    c1 = c1
    c2 = c2
    m1 = m1
    m2 = m2
    s1 = s1
    s2 = s2
    Sessions = {s1}
    Chains = {c1, c2}
    Messages = {m1, m2}
    OutQueue = 4
    OutCork = 2
    OutBuffer = TRUE
    SizeMod <- MCSizeMod
    Units = 2
    NULL = NULL
CHECK_DEADLOCK FALSE
PROPERTIES
    ImplementsFifo
    HeadLeaves
