CONSTANTS
    FDs = {f1, f2, f3}
    Tids = {t1, t2, t3}
    NoFD = NoFD
SPECIFICATION FairSpec
INVARIANTS
    ListedFDsAreLive
    CleanupWaitsForFinishedOnly
    StoppedIsClean
PROPERTIES
    StopReturns
