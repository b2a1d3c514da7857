SPECIFICATION Spec
CONSTANTS
    d1 = d1
    d2 = d2
    Tiles = {d1, d2}
    On = {d1}
    MaxSyncs = 1
    MaxEvents = 1
    MaxQueue = 1
PROPERTIES
    TilesStart
