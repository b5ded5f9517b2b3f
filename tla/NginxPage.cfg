SPECIFICATION Spec
CONSTANTS
    Sites = {s1, s2}
    MaxChecks = 2
    None = None
INVARIANTS
    EditorHoldsTheSite
    LoadingMeansLoad
    CachedCheckIsCurrent
    CheckViewIsFilled
SYMMETRY Interchangeable
CHECK_DEADLOCK FALSE
