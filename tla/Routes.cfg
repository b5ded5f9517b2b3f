SPECIFICATION Spec
CONSTANTS
    Hosts = {h1, h2}
    Names <- Files
    FileOf <- Generated
    MaxRoutes = 2
    MaxQueue = 1
    None = None
INVARIANTS
    RowTellsTheSite
    NamesFollowHosts
PROPERTY NoRouteOverwritesAnother
SYMMETRY Interchangeable
CHECK_DEADLOCK FALSE
