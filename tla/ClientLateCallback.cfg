CONSTANTS
    Callers = {t1}
    QueryIds = {q1}
    Timeouts = {1}
    MAX_SEND_RETRIES = 1
    ErrorFlags = {0}
    MaxQueries = 1
    None = None
SPECIFICATION Spec
CHECK_DEADLOCK FALSE
INVARIANTS
    CallbackSignalsItsQuery
