\* idempotency.go:44-46 claims this; a crash between SETNX and the e-mail breaks it.
SPECIFICATION Spec
CONSTANTS
    m1 = m1
    m2 = m2
    m3 = m3
    p1 = p1
    p2 = p2
    w1 = w1
    w2 = w2
    NoPayment = NoPayment
    Nothing = Nothing
    Messages <- TwoMessages
    Payments <- OnePayment
    PaymentOf <- OneEvent
    Workers <- TwoWorkers
    MaxAttempts = 2
    SendOutcomes <- Simulated
    SetOutcomes <- Reliable
    DelOutcomes <- Reliable
    MaxRetries = 0
    Environment <- Crashing
INVARIANT NothingIsLost
CHECK_DEADLOCK FALSE
