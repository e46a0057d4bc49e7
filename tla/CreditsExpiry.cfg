SPECIFICATION FairSpec
CONSTANTS
    Procs = {p1, p2}
    Holds = {h1}
    None = None
    Amounts = {2}
    Costs = {1}
    LockRetry = 2
    MaxOps = 3
    MayExpire = TRUE
INVARIANTS Accounted OverlapNeedsOverrun
PROPERTY EveryRequestReturns
