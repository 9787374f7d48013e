SPECIFICATION PipelineSpec

CHECK_DEADLOCK FALSE
CONSTANTS
    Intents = {i1, i2, i3, i4}
    ZeroTarget = {i2}
    Malformed = {i3}
    Unusable = {i4}
    Workers = {w1}
    MsgIds = {1, 2, 3}
    MaxAge = 1
    Backoff = 1
    MaxAttempts = 2
    EarlyEntries = TRUE
    MaxTime = 3
    MaxAccepts = 1
    MaxFaults = 1
    MaxCrashes = 1
    Inboxes = {a, b}
INVARIANTS
    CompletedMeansHandedOn
PROPERTIES
    EveryInboxServed
