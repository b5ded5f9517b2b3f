SPECIFICATION Spec
CONSTANTS
    Sites = {a, b}
    good1 = good1
    good2 = good2
    bad = bad
    Contents <- AllContents
    Bad <- BadOnes
    Absent = absent
    Seconds = 2
INVARIANTS
    NothingIsLost
    RestoreBringsBack
PROPERTY ImplementsSiteTransactions
SYMMETRY Interchangeable
CHECK_DEADLOCK FALSE
