SPECIFICATION Spec
CONSTANTS
    Requests = {r1, r2, r3}
    Original = original
    Timeouts <- KilledOnly
    Restarts = TRUE
INVARIANT OneHelperAtATime
PROPERTY ImplementsSerialApplies
SYMMETRY Interchangeable
CHECK_DEADLOCK FALSE
