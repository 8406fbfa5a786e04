CONSTANTS
    Wallet <- MCWallet
    MaxWaitingTaskNum = 1
    MaxRequest = 2
    MaxInterrupts = 3
    Client = {"c1", "c2"}
    Target = {"t1", "t2", "t3"}
    PoolKey = {"p1"}
    Disk <- MCDisk
    Price <- MCPrice
    BatchSize = 2
    MaxRetry = 1
    Fee = 1
    Coins <- MCCoins
    MaxRuns = 3
    Contested = {"t2"}
SPECIFICATION MCSpec
INVARIANTS
    MutualExclusion
    TasksCovered
PROPERTIES
    WorkerGetsTurn
    ShutdownOrderly
    BatchEndsCounted
CHECK_DEADLOCK FALSE
