SPECIFICATION Spec
CONSTANTS
    d1 = d1
    d2 = d2
    Tiles = {d1, d2}
    On = {d1}
    MaxSyncs = 2
    MaxEvents = 2
    MaxQueue = 2
INVARIANTS
    TypeOK
    RoomsKeepTime
PROPERTIES
    TilesAgree
