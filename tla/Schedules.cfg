SPECIFICATION FairSpec
CONSTANTS
    Clients = {c1, c2}
    Period = 3
    Lease = 2
    MaxEdits = 1
    MaxFaults = 1
    MaxCrashes = 1
INVARIANTS RunsOnce DoneWasRun
PROPERTY DueIsServed
