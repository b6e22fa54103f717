SPECIFICATION FairSpec
CONSTANTS
    Block <- ForkBlock
    Genesis = "g"
    NoBlock = "none"
    Height <- ForkHeight
    Path <- ForkPath
    Root <- ForkRoot
    StagedSeq <- ForkSeq
    Pruning = TRUE
    CommitInterval = 2
    StateHistory = 1
    RootReferencedOnUpdate = TRUE
    AcceptorQueueLimit = 1
    IndexBatchSize = 8
    Equivocation = FALSE
INVARIANTS
    CanonicalMatchesHead
    EngineCallsSucceed
    StagedAppliedOnce
PROPERTIES
    ImplementsFinalityLog
    AcceptedIsProcessed
