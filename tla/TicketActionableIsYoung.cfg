SPECIFICATION Spec
CONSTANTS
    Browsers = {b1}
    Keys = {sweep}
    Rearm = 1
    TTL = 1
    Skew = 1
    QueueSize = 2
    WireSize = 1
    MaxNow = 3
    MaxManifests = 1
    MaxRestarts = 0
    MaxFaults = 0
INVARIANTS
    ActionableIsYoung
CHECK_DEADLOCK FALSE
