SPECIFICATION Spec
SYMMETRY Symmetry
CONSTRAINT TwoTroubles

CHECK_DEADLOCK FALSE
CONSTANTS
    Intents = {i1}
    ZeroTarget = {}
    Malformed = {}
    Unusable = {}
    Workers = {w1, w2}
    MsgIds = {1, 2, 3}
    MaxAge = 1
    Backoff = 1
    MaxAttempts = 2
    EarlyEntries = TRUE
    MaxTime = 3
    MaxAccepts = 2
    MaxFaults = 2
    MaxCrashes = 1
INVARIANTS
    IntentInv
    NoLostIntent
    FanOutOnce
    LoggedBeforeFanOut
    SecondRecordOnlyIfRaced
PROPERTIES
    NoFanOutPastAge
