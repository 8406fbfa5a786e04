CONSTANTS
    Block <- MCBlock
    Genesis <- MCGenesis
    Prev <- MCPrev
    Height <- MCHeight
    Tx <- MCTx
    TxIns <- MCTxIns
    TxOuts <- MCTxOuts
    Coinbase <- MCCoinbase
    BlockTxs <- ChildBlockTxs
    Addr <- MCAddr
    Owner <- MCOwner
    CreditBatch = 2
    InitialWallets <- W12
    ImportRange = 1
    MaxMemPoolExpire = 2
    MaxWaitingTaskNum = 3
    Gap = 1
    Relayed <- RelayNone
    Bounds <- Moves3Requests0
    MaxCrash = 1
SPECIFICATION Spec
INVARIANTS
    UnspentMatchesChain
CHECK_DEADLOCK FALSE
