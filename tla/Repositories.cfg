SPECIFICATION Spec
CONSTANTS
    k1 = k1
    k2 = k2
    c1 = c1
    c2 = c2
    s1 = s1
    s2 = s2
    r1 = r1
    r2 = r2
    i1 = i1
    i2 = i2
    i3 = i3
    None = None
    Config <- MCConfig
    Session <- MCSession
    Caller <- MCCaller
    State <- MCState
    Rest <- MCRest
    Id <- MCId
SYMMETRY Symmetry
INVARIANTS
    TypeOK
    SingleDocument
    ReadsLastWrite
CHECK_DEADLOCK FALSE
