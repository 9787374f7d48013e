SPECIFICATION Spec
SYMMETRY Symmetry
CONSTRAINT OneTrouble

CHECK_DEADLOCK FALSE
CONSTANTS
    Versions = {v1, v2}
    Marked = {v2}
    Workers = {w1, w2}
    MsgIds = {1, 2}
    Window = 1
    Delays = {0, 1}
    MaxAttempts = 2
    MaxUnchanged = 2
    MaxTime = 1
    MaxWindows = 2
    MaxEdits = 1
    MaxMishaps = 1
INVARIANTS
    TypeOK
    EachVersionOnce
    EndsOnPurpose
    ComparesWithLocal
    SingleFlight
    PollsBounded
