SPECIFICATION FairSpec

CHECK_DEADLOCK FALSE
CONSTANTS
    Acts = {flag1, event, note1, relay, anon, boost1, boost2}
    IdOf <- MCIdOf
    Notes = {note1, relay}
    Flags = {flag1}
    Provided = {event}
    Bypassed = {relay}
    Anonymous = {anon}
    Boosts = {boost1, boost2}
    Workers = {w1}
    MsgIds = {1, 2, 3, 4, 5}
    MaxAttempts = 1
    Backoff = 1
    MaxTime = 1
    MaxDeliveries = 2
    Mixes = {{flag1}, {event}, {note1, relay}, {anon}, {boost1, boost2}}
    MaxMishaps = 1
PROPERTIES
    Decided
