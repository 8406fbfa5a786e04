CONSTANTS
    Wallet <- MCOneWallet
    MaxWaitingTaskNum = 1
    MaxRequest = 1
SPECIFICATION FairSpec
PROPERTIES
    StopCompletes
CHECK_DEADLOCK FALSE
