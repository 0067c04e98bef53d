SPECIFICATION FairSpec
CONSTANTS
    b1 = b1
    b2 = b2
    NoJob = NoJob
    Bot <- MCBot
    Drawdown <- MCDrawdown
    Limit <- MCLimit
    Batch = 2
    MaxChanges = 2
    MaxFaults = 1
INVARIANTS
    TypeOK
    VerdictIsOfThisCycle
    CycleSettles
PROPERTIES
    RightVerdictStays
    RiskStateSettles
