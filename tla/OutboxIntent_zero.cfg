SPECIFICATION FairSpec

CHECK_DEADLOCK FALSE
CONSTANTS
    Intents = {i1}
    ZeroTarget = {i1}
    Malformed = {}
    Unusable = {}
    Workers = {w1}
    MsgIds = {1, 2, 3}
    MaxAge = 1
    Backoff = 1
    MaxAttempts = 2
    EarlyEntries = FALSE
    MaxTime = 3
    MaxAccepts = 1
    MaxFaults = 1
    MaxCrashes = 0
PROPERTIES
    ZeroTargetSettles
