SPECIFICATION FairSpec
CONSTANTS
    Evals = {loop}
    Outcomes = {o1, o2}
    Sweeps = {1}
    MaxAge = 1
    AccountMaxAge = 1
    CbTimeout = 1
    Cooldown = 1
    MaxClock = 2
    MaxCrashes = 1
INVARIANTS
    TypeOK
    NoDuplicateTicket
    MemoryNeverAheadOfDisk
    RecordedLossKept
PROPERTY
    OutcomeGetsItsTurn
CHECK_DEADLOCK FALSE
