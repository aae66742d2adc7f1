\* Two calls against everything that can fail around the service.
SPECIFICATION FairSpec
CONSTANTS
    c1 = c1
    c2 = c2
    c3 = c3
    o1 = o1
    Nobody = Nobody
    Main = Main
    NoOrder = NoOrder
    Calls <- TwoCalls
    Orders <- OneOrder
    Amounts <- BoundaryAmounts
    MaxPaymentAmount <- Limit
    Kinds <- AllKinds
    DbOutcomes <- Unreliable
    Environment <- Everything
INVARIANTS
    TypeOK
    EventsAreAuthorizedPayments
    RepliesMatchPayments
    PublisherIsExclusive
PROPERTIES
    CallsEnd
    ShutdownCompletes
CHECK_DEADLOCK FALSE
