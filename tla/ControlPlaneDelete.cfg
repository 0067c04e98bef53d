SPECIFICATION Spec
CONSTANTS
    b1 = b1
    c1 = c1
    c2 = c2
    c3 = c3
    s1 = s1
    s2 = s2
    Omit = Omit
    None = None
    Bot <- MCBot
    Call <- MCCall3
    Setting <- MCSetting
    MaxRestarts = 1
SYMMETRY MCSymmetry
PROPERTY DeletedBotIsGone
CHECK_DEADLOCK FALSE
