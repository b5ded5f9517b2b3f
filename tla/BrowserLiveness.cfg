SPECIFICATION FairSpec
CONSTANTS
    Users = {ann}
    Tokens = {j1, j2}
    Families = {f1, f2}
    None = none
    Tabs = {t1}
    Slots = {s1, s2}
    user = ann
    Reloads = TRUE
PROPERTY RefreshSettles
CHECK_DEADLOCK FALSE
