SPECIFICATION FairSpec
CONSTANTS
    Executors = {e1}
    Users = {u1, u2}
    Ops = {"create", "cancel", "advance", "retry"}
    Overlapping = {"create", "cancel"}
    Modes <- AutoOrManualDraft
    NSteps = 2
    DraftStep = 1
    MaxRetries = 1
    Funds = 6
    MaxOps = 3
    MaxCrashes = 0
    Holds = {h1, h2, h3}
    Amounts = {2}
    Costs = {2}
    Outcomes = {"ok"}
    None = None
CHECK_DEADLOCK FALSE
INVARIANTS TypeOK NoStepStranded OpenHoldNamed
PROPERTY JobEnds
