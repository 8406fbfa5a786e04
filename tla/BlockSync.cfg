CONSTANTS
    Block <- MCBlock
    Genesis <- MCGenesis
    Prev <- MCPrev
    Height <- MCHeight
    Gap = 1
    QueueCap = 2
    MaxSwitch = 3
    MaxCrash = 1
    MaxFail = 1
SPECIFICATION FairSpec
INVARIANTS
    SyncRowsContiguous
    SyncRowsLinked
    BestIsSyncedTo
PROPERTIES
    RefinesSyncedChain
    ReachesTip
CHECK_DEADLOCK FALSE
