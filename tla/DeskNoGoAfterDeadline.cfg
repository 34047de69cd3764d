SPECIFICATION Spec
CONSTANTS
    Requests = {r1, r2}
    Operators = {sony}
    Modes = {"PRE_SESSION", "LIVE"}
    AntiParalysis = 1
    MaxClock = 3
    MaxWindows = 2
    MaxEpoch = 0
INVARIANT NoGoAfterDeadline
CHECK_DEADLOCK FALSE
