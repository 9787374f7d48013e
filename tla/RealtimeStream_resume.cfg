SPECIFICATION Spec
SYMMETRY Symmetry
CONSTRAINT InOrder

CHECK_DEADLOCK FALSE
CONSTANTS
    Processes = {p1, p2}
    Topics = {{1, 2, 3}, {4}}
    Private = {4}
    First = {{1, 2, 3}}
    MaxReplay = 2
    Batch = 1
    MaxIndex = 2
    MaxBuffer = 1
    MaxTopics = 2
    MaxSessions = 2
    MaxRequests = 2
    MaxControls = 1
    MaxExtras = 1
INVARIANTS
    TypeOK
    NoSilentGap
    TicketUsedOnce
    RevokedIsClosed
    TopicsFollow
