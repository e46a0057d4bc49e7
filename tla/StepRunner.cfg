SPECIFICATION RunnerFairSpec
CONSTANTS
    MaxNodes = 2
    MaxRetries = 2
    MaxRuns = 2
    MaxFaults = 2
    MaxQuits = 1
INVARIANTS CompletedIsApproved StopIsHeeded
PROPERTY RunEnds
CHECK_DEADLOCK FALSE
