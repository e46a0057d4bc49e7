SPECIFICATION BriefFairSpec
CONSTANTS
    Requests = {r1, r2, r3, r4}
    Kinds = {"update", "confirm", "redispatch", "cancel"}
    Overlapping = {"cancel"}
    Failures = {"answer", "throw", "save"}
    MaxCrashes = 1
INVARIANTS DoneHasTasks TasksOnce
PROPERTY DispatchEnds
CHECK_DEADLOCK FALSE
