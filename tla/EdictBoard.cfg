SPECIFICATION FairSpec
CONSTANTS
    MaxVeto = 1
    MaxLoops = 8
    MaxStallRetries = 1
    MaxEscalations = 1
    Columns = {"Next", "Done", "Cancelled"}
    MaxOps = 2
    MaxFaults = 1
INVARIANTS NothingUnapproved DoneWasExecuted
PROPERTY TaskEnds
CHECK_DEADLOCK FALSE
