SPECIFICATION FairSpec
CONSTANTS
    Commands = {u1, u2}
    Restarters = {a1}
    Children = {p1, p2}
    None = None
    MaxRestarts = 1
    MaxOps = 2
INVARIANTS StopHolds RuntimeKept RunningIsBacked
PROPERTY EveryCallReturns
CHECK_DEADLOCK FALSE
