CONSTANTS
    Callers = {t1}
    QueryIds = {q1}
    Timeouts = {0}
    MAX_SEND_RETRIES = 1
    ErrorFlags = {0}
    MaxQueries = 1
    None = None
SPECIFICATION FairSpec
CHECK_DEADLOCK FALSE
PROPERTIES
    StopAlwaysReturns
