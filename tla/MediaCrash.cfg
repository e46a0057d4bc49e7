SPECIFICATION HangSpec
CONSTANTS
    Holds = {i1, v1}
    Videos = {v1}
    Amounts = {2}
    Costs = {2}
    Funds = 5
    Outcomes = {"ok", "refused"}
    MaxCrashes = 2
    MaxPolls = 4
    None = None
INVARIANT ImagesBilledRight
PROPERTIES ProcessingEnds EveryHoldCloses
CHECK_DEADLOCK FALSE
