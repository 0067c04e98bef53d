SPECIFICATION FairSpec
CONSTANTS
    b1 = b1
    b2 = b2
    s1 = s1
    s2 = s2
    Bot <- MCBot
    Stream <- MCStream
    filter <- MCFilter
    InboundCap = 2
    SubCap = 1
    MaxEvents = 3
INVARIANTS
    TypeOK
    DeliveryInOrder
    NoSilentLoss
PROPERTIES
    ImplementsFeed
    EventsAreDispatched
CHECK_DEADLOCK FALSE
