SPECIFICATION Spec
CONSTANTS
    WindowLen = 2
    MaxUint64 = 15
    a1 = a1
    a2 = a2
    Accounts = {a1, a2}
    DurangoTime = 1
    ChainFeeConfig <- MCChainFee
    AllowFeeRecipients = FALSE
    Nodes = {n1, n2}
    Schedules <- MCSchedules
    GenesisTime = 0
    MaxTime = 3
    MaxNumber = 3
    MaxFaults = 1
    Gas = {2}
    Tips = {0, 2}
    Calls <- MCCalls
    Etherbase = a1
INVARIANTS
    
    UpgradesMatchSchedule
    RejectedIsUndercharged
PROPERTIES
    OnlyAdminsPromote
SYMMETRY MCSymmetry
CHECK_DEADLOCK FALSE
