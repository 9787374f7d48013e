SPECIFICATION Spec

CHECK_DEADLOCK FALSE
CONSTANTS
    Acts = {note}
    IdOf <- MCIdOf
    Notes = {note}
    Flags = {}
    Provided = {}
    Bypassed = {}
    Anonymous = {}
    Boosts = {}
    Workers = {w1}
    MsgIds = {1, 2, 3}
    MaxAttempts = 1
    Backoff = 1
    MaxTime = 1
    MaxDeliveries = 1
    Mixes = {{note}}
    MaxMishaps = 0
INVARIANTS
    AtLeastOnce
