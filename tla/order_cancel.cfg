\* order-service/README.md:19 claims this; a payment that overtakes a cancellation breaks it.
SPECIFICATION FairSpec
CONSTANTS
    r1 = r1
    r2 = r2
    r3 = r3
    k1 = k1
    NoKey = NoKey
    Requests <- ThreeRequests
    Keys <- NoKeys
    Amounts <- PositiveAmount
    Kinds <- Routes
    DbOutcomes <- Reliable
    CacheOutcomes <- Reliable
    Environment <- Calm
PROPERTY OnlyPendingIsCancelled
CHECK_DEADLOCK FALSE
