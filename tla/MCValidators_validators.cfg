SPECIFICATION Spec
CONSTANTS
    Nodes = {"n1", "n2"}
    ValidationIDs = {"v1", "v2"}
    PaddedID <- Padded
    Weights = {1}
    StartTimes = {0}
    MaxTime = 1
    None = None
INVARIANTS
    UptimeExact
    VInv
PROPERTIES
    UptimeNeverShrinks
