SPECIFICATION ConfSpec
CONSTANTS
    PeerNames = {a, b}
    PublicKeys = {k1, k2}
    PrivateKeys = {p1}
    Ranges = {r1, r2}
    RawTexts <- SomeTexts
    Mangled = Mangled
    FirstPeers = 2
    MaxPeers = 3
    Nil = Nil
    Mixed = Mixed
INVARIANTS
    PrivateKeyIsKept
    KernelFollowsTheFile
    NoSuchPeerIsTrue
PROPERTIES
    OnlyTheNamedPeerChanges
    TidyStays
SYMMETRY Interchangeable
CHECK_DEADLOCK FALSE
