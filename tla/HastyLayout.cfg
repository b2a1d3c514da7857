SPECIFICATION LayoutSpec
CONSTANTS
    main = main
    ticker = ticker
    a = a
    b = b
    c = c
    Zones = {main, ticker}
    AssetZones = {ticker}
    Playlists <- Loops
    Transition = "none"
    Cycle = 2
    MaxRevisions = 4
    MaxFaults = 0
PROPERTIES
    ConfirmedAfterLoading
