SPECIFICATION MCSpec
CONSTANTS
    c1 = c1
    c2 = c2
    g = g
    Coin = {c1, c2, g}
    Request = {r1, r2}
    Amount <- MCAmount
    Class <- MCClass
    Maturity <- MCMaturity
    InitialCoins = {c1, g}
    AutoOuts <- MCAutoOuts
    ManualIns <- MCManualIns
    MaxTxFee = 4
    MaxHeight = 3
    MaxRestart = 1
    K = 3
    MinRelayTxFee = 2
    InputSize = 8
    OutputSize = 4
    BaseSize = 1
    FeeUnit = 10
    DustLimit = 3
    Wallets <- MCWallets
    Payments <- MCPayments
    UserFees = {0, 4}
    BlockBatch = 3
    Related <- MCRelated
    Wanted = {1, 2, 3, 5, 8}
    Decimals = 2
    MaxMass = 12
    Strings <- MCStrings
    Rankings <- MCRankings
    RewardScripts <- MCRewardScripts
    RewardValues = {0, 9, 120, 1300}
    StakedAmount <- MCStakedAmount
    Purse <- MCPurse
    Own <- MCOwn
    Addresses <- MCAddresses
    Recipients <- MCRecipients
    InputLists <- MCInputLists
    AmountStrings <- MCAmountStrings
    FeeStrings <- MCFeeStrings
    FrozenPeriods = {1, 2}
    LockTimes = {0, 1, 9}
    MaxLockTime = 8
    MinStaking = 4
    MinFrozen = 2
    WarmUpHeight = 5
    BindingLockedPeriod = 6
    MaxSequence = 20
    FeeLimit <- MCFeeLimit
    PoolPkFee = 5
    PoolPkValue = 3
    TransactionMaturity = 2
    MaxConfirmations = 2
INVARIANTS
    PickedMature
    PromisedOnce
    SelectionOptimal
    CreatedBalanced
    HistoryNewest
    RequestHonoured
    AmountsFaithful
PROPERTIES
    CreationEnds
CHECK_DEADLOCK FALSE
