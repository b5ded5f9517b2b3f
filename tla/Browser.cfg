SPECIFICATION BrowserSpec
CONSTANTS
    Users = {ann}
    Tokens = {j1, j2, j3}
    Families = {f1, f2}
    None = none
    Tabs = {t1, t2}
    Slots = {s1, s2}
    user = ann
    Reloads = TRUE
INVARIANTS
    BrowserTypeOK
    TabRacesOnlyWhenLoggingOut
    ReuseHasACause
    CookieIsCurrent
    NoStrandedSession
    LogoutEndsSession
SYMMETRY Interchangeable
CHECK_DEADLOCK FALSE
