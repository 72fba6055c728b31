CONSTANTS
    QueryIds = {q1}
    Interfaces = {i1, i2, i3}
    Payloads = {p1, p2}
    ErrorFlags = {0, 1}
    NoEntry = NoEntry
    Configs <- MCConfigs
    MaxTime = 4
    MaxLookups = 2
SPECIFICATION Spec
SYMMETRY MCSymmetry
INVARIANTS TypeOK HitIsLatestFreshReply SizeBounded LookupsBoundStaleness
PROPERTIES ValidLeavesOnlyWhenFull ImplementsReplyCache
