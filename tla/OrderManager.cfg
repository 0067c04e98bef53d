SPECIFICATION FairSpec
CONSTANTS
    o1 = o1
    o2 = o2
    o3 = o3
    o4 = o4
    Order <- MCOrder
    NoId = NoId
    One = 1000
    Digit = 10
    MinSpread = 3
    MaxSpread = 10
    MaxLayers = 1
    Adapters = {"mexc", "gate", "bybit", "kraken", "mock"}
INVARIANTS
    TypeOK
    NoOrderIsLost
    PlacesWholePlan
    CancelAllCancelsIfStatusRead
PROPERTIES
    ImplementsRounds
    FilledOrderWedges
    QuotesAgainIfIdempotent
