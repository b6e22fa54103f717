SPECIFICATION Spec
CONSTANTS
    Block <- LineBlock
    Genesis = "g"
    NoBlock = "none"
    Height <- LineHeight
    Path <- LinePath
    Root <- LineRoot
    StagedSeq <- LineSeq
    Pruning = TRUE
    CommitInterval = 2
    StateHistory = 1
    RootReferencedOnUpdate = TRUE
    AcceptorQueueLimit = 1
    IndexBatchSize = 8
    Equivocation = FALSE
INVARIANTS
    BootSucceeds
