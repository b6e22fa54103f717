SPECIFICATION Spec
CONSTANTS
    MainRoots = {1, 2}
    StorageRoots = {11, 12}
    Leafs <- MCLeafs
    KeySpace = 8
    Workers = {w1, w2}
    CodeWorkers = {c1}
    RequestSize = 1
    NumMainSegments = 2
    NumStorageSegments = 2
    SegmentThreshold = 2
    MaxCodes = 1
    CodesPerRequest = 2
    Height <- MCHeight
    MinBlocks = 2
    ParentsToGet = 2
    MaxStops = 1
INVARIANTS
    
    
    OnlyRaceHurts
    
    
SYMMETRY MCSymmetry
CHECK_DEADLOCK FALSE
