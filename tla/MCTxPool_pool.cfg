SPECIFICATION Spec
CONSTANTS
    Accounts = {"a", "b"}
    Txs <- MCTxs
    Blocks <- MCBlocks
    Genesis = "g"
    Parent <- MCParent
    BlockTxs <- MCBlockTxs
    Balance <- MCBalance
    MinFee <- MCMinFee
    Allowed <- MCAllowed
    AccountSlots = 1
    GlobalSlots = 2
    AccountQueue = 1
    GlobalQueue = 1
    PriceBump = 10
    ReorgDepth = 1
    Tips = {2}
    LocalSenders = {"b"}
INVARIANTS
    PoolIsConsistent
    
PROPERTIES
    RunRestoresLimits
