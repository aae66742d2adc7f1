\* Three requests, timeouts of the gateway, a failing Redis and the death of the process.
SPECIFICATION FairSpec
CONSTANTS
    r1 = r1
    r2 = r2
    r3 = r3
    k1 = k1
    NoKey = NoKey
    Requests <- ThreeRequests
    Keys <- NoKeys
    Amounts <- PositiveAmount
    Kinds <- Routes
    DbOutcomes <- Reliable
    CacheOutcomes <- Unreliable
    Environment <- Crashing
INVARIANT IndInv
PROPERTIES
    CacheConverges
    NoOrderStaysPending
CHECK_DEADLOCK FALSE
