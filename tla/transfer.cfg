\* Two transfers at a time between two nodes, one failure.
SPECIFICATION FairSpec
CONSTANTS
    t1 = t1
    t2 = t2
    Id = {t1, t2}
    Size <- ShortTails
    Path <- OwnName
    ChunkSize = 2
    None = None
    MaxQueue = 2
    MaxProgress = 1
    MaxFaults = 1
INVARIANTS
    TypeOK
    ReceivedWhole
    StreamOnlyAccepted
PROPERTIES
    OfferResolves
    DeliveredIfOpen
CHECK_DEADLOCK FALSE
