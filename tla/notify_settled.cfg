\* Every event is settled and none is lost while the process is only ever stopped.
SPECIFICATION FairSpec
CONSTANTS
    m1 = m1
    m2 = m2
    m3 = m3
    p1 = p1
    p2 = p2
    w1 = w1
    w2 = w2
    NoPayment = NoPayment
    Nothing = Nothing
    Messages <- ThreeMessages
    Payments <- OnePayment
    PaymentOf <- ValidAndInvalid
    Workers <- TwoWorkers
    MaxAttempts = 2
    SendOutcomes <- Simulated
    SetOutcomes <- AnsweredLate
    DelOutcomes <- SentAgain
    MaxRetries = 3
    Environment <- Stopping
INVARIANTS
    NothingIsLost
    DeliveriesFitThePool
PROPERTIES
    EveryEventIsSettled
    FailedAttemptsFreeTheKey
CHECK_DEADLOCK FALSE
