SPECIFICATION MCSpec
CONSTANTS
    w1 = w1
    w2 = w2
    Wallet = {w1, w2}
    Signer = {s1, s2}
    None = None
    AddressGapLimit = 2
    ExternalIndexes = {0}
    InternalIndexes = {0, 1}
    Payees <- MCPayees
    MaxIndex = 4
    MaxFault = 1
    Base = 4
    WordBits = 3
    ByteBits = 2
    Units = {1, 2}
    wordList <- MCWordList
    Entropy <- MCEntropy
    Sha256 <- MCSha256
    KeySize = 2
    CurveN = 13
    ChainCode = {0, 1}
    Hmac512 <- MCHmac512
    HardenedKeyStart = 2
    Purpose = 1
    Coin = 0
    Account = 1
    Passphrase = {"p", "q", "pub"}
    ValidPassphrase = {"p", "q", "pub"}
    Secret = {"s1"}
    Remark = {"", "remark"}
    FirstPub = "pub"
    MaxCalls = 5
    MaxPub = 2
SYMMETRY Symmetry
INVARIANTS
    CacheMatchesStore
    HandedOutKept
    RestoreFindsUsed
    LockedHoldsNoKey
    MnemonicRestores
    SigningKeyOfAddress
    EnvelopeOpens
    ExportRestores
