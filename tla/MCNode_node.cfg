SPECIFICATION FairNode
CONSTANTS
    Txs = {"t1"}
    Mineable = {"t1"}
    Automining = TRUE
CHECK_DEADLOCK FALSE
PROPERTIES
    PendingIsAnswered
    CancelledCallReturns
    ShutdownEnds
    QuietAfterShutdown
