SPECIFICATION MCSpec
CONSTANTS
    Blocks <- MCBlocks
    Genesis <- MCGenesis
    Parent <- MCParent
    NumKeys <- MCNumKeys
    Owner <- MCOwner
    State <- MCState
    Destructs <- MCDestructs
    NoBuild = {FALSE}
    MaxCrashes = 1
    Roots <- MCRoots
    EmptyRoot = "e"
    Nodes <- MCNodes
    Steps <- MCSteps
    RootPath = 1
    SyncRoots = {"g"}
    MaxDiffLayers = 2
    BufferSizes = {2}
    MaxLayers = 6
    MaxStarts = 2
INVARIANTS
    SnapshotIsFaithful
    
PROPERTIES
    AbortReturns
CHECK_DEADLOCK FALSE
