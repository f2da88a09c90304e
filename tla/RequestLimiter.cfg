SPECIFICATION LimiterSpec
CONSTANTS
    r1 = r1
    r2 = r2
    i1 = i1
    i2 = i2
    Requests = {r1, r2}
    Instances = {i1, i2}
    MaxRequests = 2
    Window = 3
    BlockDuration = 2
    MaxDelay = 2
    MaxOutages = 2
    MaxTime = 8
SYMMETRY RequestSymmetry
INVARIANTS OverLimitIsBlocked AdmissionsBounded
PROPERTY BlockIsStable
CHECK_DEADLOCK FALSE
