\* Three calls with the broker up: shutdown, crashes and clients that leave.
SPECIFICATION Spec
CONSTANTS
    c1 = c1
    c2 = c2
    c3 = c3
    o1 = o1
    Nobody = Nobody
    Main = Main
    NoOrder = NoOrder
    Calls <- ThreeCalls
    Orders <- OneOrder
    Amounts <- BoundaryAmounts
    MaxPaymentAmount <- Limit
    Kinds <- ChargesAndReads
    DbOutcomes <- Reliable
    Environment <- BrokerUp
SYMMETRY Symmetry
INVARIANTS
    NoRpcPanics
    AuthorizedIsAnnounced
PROPERTY ReadsFollowReplies
CHECK_DEADLOCK FALSE
