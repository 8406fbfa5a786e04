CONSTANTS
    Block <- MCOneFork
    Genesis <- MCGenesis
    Prev <- OneForkPrev
    Height <- OneForkHeight
    Tx <- MCTx
    TxIns <- MCTxIns
    TxOuts <- MCTxOuts
    Coinbase <- MCCoinbase
    BlockTxs <- MCBlockTxs
    Addr <- MCAddr
    Owner <- MCOwner
    CreditBatch = 2
    InitialWallets <- W1
    ImportRange = 1
    MaxMemPoolExpire = 2
    MaxWaitingTaskNum = 3
    Gap = 1
    Relayed <- RelayNone
    Bounds <- Moves2Requests1
    MaxCrash = 0
SPECIFICATION FairSpec
PROPERTIES
    TasksFinish
CHECK_DEADLOCK FALSE
