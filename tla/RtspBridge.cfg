SPECIFICATION BridgeSpec
CHECK_DEADLOCK FALSE
CONSTANTS
    e1 = e1
    e2 = e2
    a = a
    b = b
    None = None
    Elements = {e1, e2}
    Cameras = {a, b}
    MaxCalls = 2
    MaxMishaps = 2
INVARIANTS
    BridgeTypeOK
PROPERTIES
    StopsAreComplete
    CamerasAreServed
