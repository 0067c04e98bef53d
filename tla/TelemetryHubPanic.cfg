SPECIFICATION Spec
CONSTANTS
    b1 = b1
    b2 = b2
    s1 = s1
    s2 = s2
    Bot <- MCBot
    Stream <- MCStream
    filter <- MCFilter
    InboundCap = 1
    SubCap = 1
    MaxEvents = 2
INVARIANT NeverPanics
CHECK_DEADLOCK FALSE
