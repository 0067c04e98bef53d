SPECIFICATION Spec
CONSTANTS
    b1 = b1
    b2 = b2
    f1 = f1
    None = None
    Bot <- TwoBots
    Fill <- MCFill
    botOf <- MCBotOf
    Minute = 3
    Day = 6
    FireMinute = 1
    Week = 2
    Mondays <- MCMondays
    Firsts <- MCFirsts
    MaxLate = 1
    MinTime = 17
    MaxTime = 32
    MaxFaults = 1
    MaxStarts = 2
INVARIANTS
    TypeOK
    CountedOnce
    NothingFallsBetween
    LongPeriodsCoverDays
    DueIsServed
PROPERTIES
    ImplementsLedger
CHECK_DEADLOCK FALSE
