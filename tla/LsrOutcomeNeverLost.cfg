SPECIFICATION Spec
CONSTANTS
    Evals = {loop}
    Outcomes = {o1, o2}
    Sweeps = {1}
    MaxAge = 1
    AccountMaxAge = 1
    CbTimeout = 1
    Cooldown = 1
    MaxClock = 3
    MaxCrashes = 1
INVARIANT OutcomeNeverLost
CHECK_DEADLOCK FALSE
