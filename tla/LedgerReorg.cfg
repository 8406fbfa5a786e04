CONSTANTS
    Block <- QBlock
    Genesis <- MCGenesis
    Prev <- QPrev
    Height <- QHeight
    Tx <- QTx
    TxIns <- QTxIns
    TxOuts <- QTxOuts
    Coinbase <- MCCoinbase
    BlockTxs <- QBlockTxs
    Addr <- MCAddr
    Owner <- MCOwner
    CreditBatch = 2
    InitialWallets <- W12
    ImportRange = 1
    MaxMemPoolExpire = 2
    MaxWaitingTaskNum = 3
    Gap = 1
    Relayed <- QRelayed
    Bounds <- Moves3Requests0
    MaxCrash = 1
    CoinbaseMaturity = 2
    FrozenPeriod = 1
    RewardStart = 1
    Uint64 = 65536
    BindingLocked = 2
    MinConfs <- MCMinConfs
SPECIFICATION Spec
INVARIANTS
    QueriesAgree
    BucketsConsistent
    UnminedFollowsChain
CHECK_DEADLOCK FALSE
