SPECIFICATION Spec
SYMMETRY Symmetry

CHECK_DEADLOCK FALSE
CONSTANTS
    Jobs = {j1}
    Workers = {w1, w2}
    MsgIds = {1, 2}
    Tokens = {1, 2, 3}
    NoToken = NoToken
    Residence = 1
    ClaimTtl = 1
    RateDelay = 1
    Backoff = 1
    MaxAttempts = 2
    MaxDefers = 1
    LegacyDelays = FALSE
    MaxTime = 3
    MaxAccepts = 1
    MaxFaults = 0
    MaxCrashes = 1
INVARIANTS
    LeaseExclusive
    DuplicateOnlyAfterLostProof
PROPERTIES
    PromiseKept
