CONSTANTS
    Callers = {t1, t2}
    QueryIds = {q1, q2}
    Timeouts = {1}
    MAX_SEND_RETRIES = 1
    ErrorFlags = {0, 1}
    MaxQueries = 2
    None = None
    Interfaces = {i1, i2}
    Served = i1
SPECIFICATION NodeSpec
SYMMETRY MCSymmetry
CHECK_DEADLOCK FALSE
INVARIANTS
    TypeOK
    NoLostRequest
    LagBoundedByTimeouts
    AlignedReply
    CacheHoldsOwnReplies
PROPERTIES
    ImplementsQueryService
