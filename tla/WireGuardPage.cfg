SPECIFICATION Spec
CONSTANTS
    w0 = w0
    w1 = w1
    a = a
    b = b
    k1 = k1
    k2 = k2
    Tunnels = {w0, w1}
    Names = {a, b}
    Keys = {k1, k2}
    First <- Start
    Home <- Homes
    Requests <- Asked
    Callbacks <- NamesOrNone
    Applies = {c1}
    MaxStray = 1
    MaxReused = 1
    MaxPolls = 2
    None = None
SYMMETRY Interchangeable
INVARIANT ConfirmedIsClicked
PROPERTY ActsOnThePeerShown
