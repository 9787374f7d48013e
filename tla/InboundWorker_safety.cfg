SPECIFICATION Spec
SYMMETRY Symmetry

CHECK_DEADLOCK FALSE
CONSTANTS
    Acts = {flag1, flag2, event, note1, note2, relay, anon, boost1, boost2}
    IdOf <- MCIdOf
    Notes = {note1, note2, relay}
    Flags = {flag1, flag2}
    Provided = {event}
    Bypassed = {relay}
    Anonymous = {anon}
    Boosts = {boost1, boost2}
    Workers = {w1, w2}
    MsgIds = {1, 2, 3}
    MaxAttempts = 1
    Backoff = 1
    MaxTime = 1
    MaxDeliveries = 2
    Mixes = {{flag1, flag2}, {event}, {note1, note2, relay}, {anon}, {boost1, boost2}}
    MaxMishaps = 1
INVARIANTS
    TypeOK
    KeptUntilClaimed
    ReportsSurviveCrashes
    EffectsOnce
    BoostOnce
    SecondCaseOnlyIfRaced
