SPECIFICATION FairSpec
CONSTANTS
    p1 = p1
    p2 = p2
    c1 = c1
    c2 = c2
    c3 = c3
    Producers = {p1, p2}
    Consumers = {c1, c2, c3}
    MaxSize = 2
    MaxOffers = 3
INVARIANTS
    TypeOK
    Capacity
    FifoOrder
    NoLostWakeup
PROPERTY
    EverythingArrives
