SPECIFICATION Spec
CHECK_DEADLOCK FALSE
CONSTANTS
    i1 = i1
    i2 = i2
    i3 = i3
    i4 = i4
    p1 = p1
    p2 = p2
    c1 = c1
    c2 = c2
    None = None
    Items = {i1, i2, i3, i4}
    Start <- TwoItems
    Pages = {p1, p2}
    Calls = {c1, c2}
    MaxEdits = 2
    MaxFaults = 1
INVARIANTS
    TypeOK
    PagesShowTheirWork
PROPERTIES
    OrdersAreKept
    PlayersKeepUp
