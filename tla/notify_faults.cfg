\* Duplicate events against crashes, signals, lost connections and an unreliable Redis.
SPECIFICATION FairSpec
CONSTANTS
    m1 = m1
    m2 = m2
    m3 = m3
    p1 = p1
    p2 = p2
    w1 = w1
    w2 = w2
    NoPayment = NoPayment
    Nothing = Nothing
    Messages <- ThreeMessages
    Payments <- TwoPayments
    PaymentOf <- Duplicates
    Workers <- TwoWorkers
    MaxAttempts = 2
    SendOutcomes <- Simulated
    SetOutcomes <- Unreliable
    DelOutcomes <- Unreliable
    MaxRetries = 1
    Environment <- Everything
INVARIANTS
    TypeOK
    AtMostOneEmail
    OneWorkerPerPayment
PROPERTIES
    DrainEnds
    ImplementsOnce
CHECK_DEADLOCK FALSE
