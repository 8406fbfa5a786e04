CONSTANTS
    Block <- MCOneFork
    Genesis <- MCGenesis
    Prev <- OneForkPrev
    Height <- OneForkHeight
    Tx <- MCTx
    TxIns <- MCTxIns
    TxOuts <- MCTxOuts
    Coinbase <- MCCoinbase
    BlockTxs <- MCBlockTxs
    Addr <- MCAddr
    Owner <- MCOwner
    CreditBatch = 2
    InitialWallets <- W12
    ImportRange = 1
    MaxMemPoolExpire = 2
    MaxWaitingTaskNum = 3
    Gap = 1
    Relayed <- RelayNone
    Bounds <- Moves3Requests1
    MaxCrash = 1
SPECIFICATION FairSpec
PROPERTIES
    StartsAgain
CHECK_DEADLOCK FALSE
