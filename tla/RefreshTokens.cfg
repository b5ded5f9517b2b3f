SPECIFICATION Spec
CONSTANTS
    Users = {ann, bob}
    Tokens = {t1, t2, t3, t4}
    Families = {f1, f2, f3}
    None = none
INVARIANTS
    OneLiveTokenPerFamily
    RotationIsAChain
    ReuseEndsFamily
PROPERTY ImplementsRegistry
SYMMETRY Interchangeable
CHECK_DEADLOCK FALSE
