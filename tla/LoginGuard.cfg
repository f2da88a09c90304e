SPECIFICATION GuardSpec
CONSTANTS
    l1 = l1
    l2 = l2
    i1 = i1
    i2 = i2
    Logins = {l1, l2}
    Instances = {i1, i2}
    MaxAttempts = 2
    Window = 2
    Lockout = 4
    MaxDelay = 2
    MaxOutages = 2
    MaxTime = 6
SYMMETRY LoginSymmetry
INVARIANTS FailuresPerWindowBounded BlockHasEvidence
PROPERTY CheckDecidesNothing
CHECK_DEADLOCK FALSE
