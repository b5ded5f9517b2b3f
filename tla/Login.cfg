SPECIFICATION Spec
CONSTANTS
    Users = {ann, bob}
    Secrets = {k1, k2}
    Codes = {c1, c2}
    Pendings = {p1, p2, p3}
    Slots = {s1, s2}
    None = none
    CodesPerUser = 2
    MaxAttempts = 2
    Restarts = TRUE
INVARIANTS
    PendingOpensOneSession
    CodesAreComplete
    CodesUsedOnceUnlessTogether
    LockoutBoundsTries
PROPERTY EnrolmentIsFinal
SYMMETRY Interchangeable
CHECK_DEADLOCK FALSE
