\* Requests of two users over two minutes and a failing Redis.
SPECIFICATION Spec
CONSTANTS
    r1 = r1
    r2 = r2
    r3 = r3
    a = a
    b = b
    Requests <- ThreeRequests
    Identities <- TwoIdentities
    Limit = 1
    Window = 2
    Horizon = 3
    MaxRetries = 2
    RedisOutcomes <- Unreliable
    Environment <- Crashing
SYMMETRY Symmetry
INVARIANTS
    LimitPerWindow
    RefusedForOwnRequests
    CountersExpire
CHECK_DEADLOCK FALSE
