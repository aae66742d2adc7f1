\* Two requests, a retry with the same key included, over both services.
SPECIFICATION Spec
CONSTANTS
    r1 = r1
    r2 = r2
    k1 = k1
    NoKey = NoKey
    Nobody = Nobody
    Main = Main
    NoOrder = NoOrder
    Requests <- TwoRequests
    Keys <- OneKey
    Amounts <- AmountsAround
    MaxPaymentAmount <- Limit
    Kinds <- CreateAndCancel
    OrderDb <- Failing
    CacheOutcomes <- Reliable
    OrderEnvironment <- Crashing
    PaymentDb <- Undecided
    PaymentEnvironment <- Faults
SYMMETRY Symmetry
INVARIANTS
    OutcomesFollowPayments
    ChargedOrdersAreOwned
PROPERTY ImplementsPurchase
CHECK_DEADLOCK FALSE
