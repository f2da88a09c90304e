SPECIFICATION GuardSpec
CONSTANTS
    l1 = l1
    l2 = l2
    i1 = i1
    i2 = i2
    Logins = {l1}
    Instances = {i1}
    MaxAttempts = 2
    Window = 2
    Lockout = 4
    MaxDelay = 1
    MaxOutages = 0
    MaxTime = 4
SYMMETRY LoginSymmetry
PROPERTY LockoutLasts
CHECK_DEADLOCK FALSE
