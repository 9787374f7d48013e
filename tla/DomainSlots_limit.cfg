SPECIFICATION FairSpec

CHECK_DEADLOCK FALSE
CONSTANTS
    Handlers = {w1, w2, w3, w4}
    MaxConcurrent = 2
    SlotTtl = 2
    MaxFaults = 2
    MaxCrashes = 1
INVARIANTS
    Accounted
    BoundedByForgotten
PROPERTIES
    DomainReopens
