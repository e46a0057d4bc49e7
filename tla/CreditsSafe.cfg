SPECIFICATION Spec
CONSTANTS
    Procs = {p1, p2}
    Holds = {h1, h2}
    None = None
    Amounts = {2}
    Costs = {1, 3}
    LockRetry = 2
    MaxOps = 4
    MayExpire = FALSE
SYMMETRY Symmetric
INVARIANT FrozenBacked
PROPERTY ImplementsLedger
