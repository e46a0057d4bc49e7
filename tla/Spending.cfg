SPECIFICATION SpendingSpec
CONSTANTS
    Holds = {r1, r2, r3}
    Amounts = {2}
    Costs = {0, 3}
    Outcomes = {"ok", "refused"}
    Budget = 6
    Quota = {0, 3}
    Tokens = {2}
    Threshold = 2
    MaxEdits = 1
    MaxKills = 1
    NotRead = NotRead
INVARIANTS SpendingTypeOK OpenHoldIsWatched ServedAsBilled PaidOnce KeyAddsUp
CHECK_DEADLOCK FALSE
