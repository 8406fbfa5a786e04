CONSTANTS
    Path <- MCPath
    Key <- MCKey
    Value <- MCValue
    InitialTrees <- MCTrees
    MaxOps = 2
    MaxTxs = 2
    Byte = 16
    HashLen = 2
    HeightLen = 2
    IndexLen = 1
    AmountLen = 2
    WidLen = 1
    Hash <- MCHash
    RowTx = {"t1", "t2", "t3"}
    Ins <- MCIns
    Outs <- MCOuts
    RowBlock <- MCRowBlock
    BaseBlock = "b0"
    Loc <- MCLoc
SPECIFICATION MCSpec
INVARIANTS
    DriversAgree
    ReadsWhatCommits
    ScansMatchTree
    IteratorShowsLive
    RowsFaithful
PROPERTIES
    RefinesBucketStore
CHECK_DEADLOCK FALSE
