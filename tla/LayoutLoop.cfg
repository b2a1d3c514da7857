SPECIFICATION LayoutSpec
CONSTANTS
    main = main
    ticker = ticker
    a = a
    b = b
    c = c
    Zones = {main}
    AssetZones = {}
    Playlists <- Loops
    Transition = "fade"
    Cycle = 2
    MaxRevisions = 2
    MaxFaults = 1
PROPERTIES
    LoopsGoOn
