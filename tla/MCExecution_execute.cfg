SPECIFICATION Spec
CONSTANTS
    a = a
    b = b
    c = c
    Accounts = {a, b, c}
    TxGas = 1
    InitCodeGas = 1
    ListGas = 1
    PredicateGas = 2
    DurangoTime = 1
    PredicateTime = 2
    AllowListTime = 2
    Pendings <- MCPendings
    Parent <- MCParent
    ParentTime = 0
    MaxTime = 2
    BaseFee = 1
    BlockGasCost <- MCBlockGasCost
    GasLimit = 7
    TargetTxsSize = 3
    MaxResults = 1
    Coinbase = c
    MaxElsewhere = 1
INVARIANTS
    BooksBalance
    ReplayAgrees
PROPERTIES
    EveryBlockIsJudged
CHECK_DEADLOCK FALSE
