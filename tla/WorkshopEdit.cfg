SPECIFICATION Spec
CONSTANTS
    Executors = {e1}
    Users = {u1}
    Ops = {"create", "cancel", "advance", "retry", "render"}
    Overlapping = {}
    Modes <- AnyMode
    NSteps = 3
    DraftStep = 1
    MaxRetries = 1
    Funds = 6
    MaxOps = 4
    MaxCrashes = 1
    Holds = {h1, h2, h3}
    Amounts = {2}
    Costs = {2}
    Outcomes = {"ok", "refused"}
    None = None
CHECK_DEADLOCK FALSE
INVARIANTS DeliveredIsPaid DoneIsWhole
