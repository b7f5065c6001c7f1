SPECIFICATION FairDelivery
CONSTANTS
    MaxSeq = 3
    MaxBatch = 2
    ReadMayFail = TRUE
    MaxDrops = 1
    MaxFailures = 1
    MayFail = {"snapshot", "replay"}
    ReplayLimit = 2
    MaxRetries = 1
INVARIANTS
    DeliveryTypeOK
    SentInOrder
    StoreIsPrefix
    GapIsRemembered
PROPERTIES
    ObservedIsApplied
    ReconnectCatchesUp
CHECK_DEADLOCK FALSE
