SPECIFICATION EchoSpec
CONSTANTS
    Packets <- AllPackets
    QueueLen = 1
    Word = 5
    HaveKernTS = TRUE
    MaxArrivals = 6
INVARIANTS
    RepliesAreNumbered
    EveryRequestAccounted
CHECK_DEADLOCK FALSE
