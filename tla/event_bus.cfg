\* Two streams and two updates of two orders, reconnects and shutdown.
SPECIFICATION FairSpec
CONSTANTS
    s1 = s1
    s2 = s2
    o1 = o1
    o2 = o2
    NoOrder = NoOrder
    Nothing = Nothing
    Reconnected = Reconnected
    Streams <- TwoStreams
    Orders <- TwoOrders
    MaxUpdates <- TwoAndOne
    MaxReconnects = 1
    Capacity = 1
    Environment <- Everything
INVARIANTS
    TypeOK
    NoSendOnClosed
    NoLeakedSubscriber
    UpdatesInOrder
    OnlyOverflowLoses
PROPERTIES
    ListenKeepsUp
    ShutdownNeedsClientsOnly
CHECK_DEADLOCK FALSE
