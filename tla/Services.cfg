CONSTANTS
    Width = 13
    Digits = 3
    Decimals = 2
    Chars = {1, 8, Dot, Other}
    MaxLen = 4
    Dot = Dot
    Other = Other
    Endpoints = 2
    Contents <- MCContents
    Indices = {0, 1, 2}
    MaxBlock = 3
    MaxForks = 2
    None = None
    Bobs = 3
    Receipts <- MCReceipts
    Queries <- MCQueries
    NoReceipt = NoReceipt
    Shares <- MCShares
    Capacity = 8
    SizeModulus = 10
    Radix = 3
    Computors = 2
    IndexBytes = 2
    Block = 8
    Base = 16
    WordBytes = 2
    Source <- MCSource
    Halves <- MCHalves
    Salsa <- MCSalsa
    XorHalf <- MCXorHalf
    IntegerOf <- MCIntegerOf
    Rounds = 4
SPECIFICATION MCSpec
CHECK_DEADLOCK FALSE
INVARIANTS
    OneSteadyEndpointSuffices
    FinalIsAnswered
    OneHonestBobSuffices
    KnownIsAnswered
    MeanIsExact
    JudgedByItsBlock
    RefusedIfTooLarge
    NothingLostInPieces
    DigestIsPadded
PROPERTIES
    ImplementsROMix
