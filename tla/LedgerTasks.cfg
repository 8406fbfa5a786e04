CONSTANTS
    Block <- LongBlock
    Genesis <- MCGenesis
    Prev <- LongPrev
    Height <- LongHeight
    Tx <- GiftTx
    TxIns <- GiftTxIns
    TxOuts <- GiftTxOuts
    Coinbase <- MCCoinbase
    BlockTxs <- LongBlockTxs
    Addr <- MCAddr
    Owner <- MCOwner
    CreditBatch = 2
    InitialWallets <- W1
    ImportRange = 1
    MaxMemPoolExpire = 2
    MaxWaitingTaskNum = 3
    Gap = 1
    Relayed <- RelayConflict
    Bounds <- ReturnOrGrow
    MaxCrash = 1
SPECIFICATION FairSpec
INVARIANTS
    LedgerFollowsChain
    RemovedLeavesNothing
PROPERTIES
    ImportsFinish
    RemovalsFinish
CHECK_DEADLOCK FALSE
