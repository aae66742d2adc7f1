\* order_usecase.go:29-31 claims this; a read that overlaps an update breaks it.
SPECIFICATION Spec
CONSTANTS
    r1 = r1
    r2 = r2
    r3 = r3
    k1 = k1
    NoKey = NoKey
    Requests <- ThreeRequests
    Keys <- NoKeys
    Amounts <- PositiveAmount
    Kinds <- Routes
    DbOutcomes <- Reliable
    CacheOutcomes <- Reliable
    Environment <- Calm
INVARIANT NoStaleEntryAfterUpdate
CHECK_DEADLOCK FALSE
