SPECIFICATION FairSpec
CONSTANTS
    x = x
    y = y
    a = a
    b = b
    Playlists = {x}
    Assets = {a}
    SlideCount = 2
    Polls = {1}
    Beats = {1}
    None = None
    MaxChanges = 2
    MaxFaults = 1
INVARIANTS
    TypeOK
    SyncedIsHonest
PROPERTIES
    SlideshowsArePlayed
