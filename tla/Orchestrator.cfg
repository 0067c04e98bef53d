SPECIFICATION FairSpec
CONSTANTS
    b1 = b1
    b2 = b2
    b3 = b3
    w1 = w1
    w2 = w2
    c1 = c1
    c2 = c2
    Bot <- MCBot
    Worker <- MCWorker
    Caller <- MCCaller
    NumShards = 2
    bucket <- SharedShard
    NoWorker = NoWorker
    NoBot = NoBot
    NoCaller = NoCaller
INVARIANTS
    TypeOK
    StopAllSweeps
    ListingIsWeakSnapshot
PROPERTIES
    NoOverwrite
    PauseHoldsUntilResume
    ImplementsLifecycle
    EveryCallReturns
