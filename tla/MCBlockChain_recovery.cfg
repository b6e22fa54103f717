SPECIFICATION Spec
CONSTANTS
    Block <- DeepBlock
    Genesis = "g"
    NoBlock = "none"
    Height <- DeepHeight
    Path <- DeepPath
    Root <- DeepRoot
    StagedSeq <- DeepSeq
    Pruning = TRUE
    CommitInterval = 2
    StateHistory = 2
    RootReferencedOnUpdate = TRUE
    AcceptorQueueLimit = 1
    IndexBatchSize = 8
    Equivocation = FALSE
INVARIANTS
    RecoveryIsSound
    Inv
PROPERTIES
    StopCommitsHead
