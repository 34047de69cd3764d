SPECIFICATION FairSpec
CONSTANTS
    Browsers = {b1}
    Keys = {ask, bid}
    Rearm = 1
    TTL = 1
    Skew = 1
    QueueSize = 2
    WireSize = 1
    MaxNow = 2
    MaxManifests = 2
    MaxRestarts = 1
    MaxFaults = 1
INVARIANTS
    TypeOK
    OneManifestPerEvent
    AckInTime
PROPERTIES
    ContractHolds
    BlocksNeverGoBack
    EveryAlertEnds
    LinkRecovers
CHECK_DEADLOCK FALSE
