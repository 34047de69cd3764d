SPECIFICATION FairSpec
CONSTANTS
    Requests = {r1}
    Operators = {sony}
    Modes = {"PRE_SESSION", "LIVE"}
    AntiParalysis = 1
    MaxClock = 3
    MaxWindows = 2
    MaxEpoch = 1
INVARIANTS
    TimeoutAfterDeadline
    TimeoutOncePerEpoch
PROPERTY
    PendingWindowResolves
CHECK_DEADLOCK FALSE
