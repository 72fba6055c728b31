CONSTANTS
    Callers = {t1, t2}
    QueryIds = {q1}
    Timeouts = {0}
    MAX_SEND_RETRIES = 0
    ErrorFlags = {0}
    MaxQueries = 2
    None = None
    Interfaces = {i1}
    Served = i1
SPECIFICATION NodeFairSpec
CHECK_DEADLOCK FALSE
PROPERTIES
    HandlerReturns
    MachineStops
