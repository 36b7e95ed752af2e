SPECIFICATION Spec
CONSTANTS
    k1 = k1
    k2 = k2
    off = off
    on = on
    p1 = p1
    p2 = p2
    p3 = p3
    a1 = a1
    a2 = a2
    h1 = h1
    h2 = h2
    Projects = {p1, p2}
    Authorities = {a1, a2}
    Keys = {k1, k2}
    Values = {off, on}
    Default <- AllOff
    Handlers = {h1, h2}
    RecentLimit = 2
    MaxRequests = 4
PROPERTIES
    SettingsAreKept
CHECK_DEADLOCK FALSE
