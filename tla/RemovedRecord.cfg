CONSTANTS
    Block <- MCOneFork
    Genesis <- MCGenesis
    Prev <- OneForkPrev
    Height <- OneForkHeight
    Tx <- GiftTx
    TxIns <- GiftTxIns
    TxOuts <- GiftTxOuts
    Coinbase <- MCCoinbase
    BlockTxs <- GiftBlockTxs
    Addr <- MCAddr
    Owner <- MCOwner
    CreditBatch = 2
    InitialWallets <- W12
    ImportRange = 1
    MaxMemPoolExpire = 2
    MaxWaitingTaskNum = 3
    Gap = 1
    Relayed <- RelayNone
    Bounds <- Moves2Requests1
    MaxCrash = 0
SPECIFICATION Spec
INVARIANTS
    UnspentMatchesChain
CHECK_DEADLOCK FALSE
