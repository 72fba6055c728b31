CONSTANTS
    Threads = {t1, t2}
    Symbols = {s1}
    OracleIds <- MCOracleIds
    Providers <- MCProviders
    Sources <- MCSources
    Minute = 2
    Delay = 1
    CacheTtl = 2
    Timestamps = {0, 6}
    LastAsk = 4
    MaxTime = 7
    None = None
SPECIFICATION FairSpec
CHECK_DEADLOCK FALSE
INVARIANTS
    PricesMatchQuery
    UnfinishedOnlyIfAskedEarly
PROPERTIES
    RequestsSpaced
    QueryReplied
