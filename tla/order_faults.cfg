\* Every call may be lost or applied without its reply; clients leave; MarkPaid included.
SPECIFICATION Spec
CONSTANTS
    r1 = r1
    r2 = r2
    r3 = r3
    k1 = k1
    NoKey = NoKey
    Requests <- ThreeRequests
    Keys <- OneKey
    Amounts <- SomeAmounts
    Kinds <- AllKinds
    DbOutcomes <- Unreliable
    CacheOutcomes <- Unreliable
    Environment <- Leaving
SYMMETRY Symmetry
INVARIANTS
    OutcomesShownHold
    OneChargePerKey
    IdempotentReplies
    RowAgreesWithGateway
PROPERTIES
    OutcomeIsFinal
    ImplementsLifecycle
CHECK_DEADLOCK FALSE
