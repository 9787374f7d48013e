SPECIFICATION FairSpec

CHECK_DEADLOCK FALSE
CONSTANTS
    Jobs = {j1}
    Workers = {w1}
    MsgIds = {1, 2, 3, 4}
    Tokens = {1, 2, 3}
    NoToken = NoToken
    Residence = 1
    ClaimTtl = 1
    RateDelay = 1
    Backoff = 1
    MaxAttempts = 2
    MaxDefers = 1
    LegacyDelays = TRUE
    MaxTime = 3
    MaxAccepts = 1
    MaxFaults = 1
    MaxCrashes = 1
PROPERTIES
    EveryJobSettles
    QueuesDrain
