SPECIFICATION Spec
CONSTANTS
    c1 = c1
    c2 = c2
    l1 = l1
    l2 = l2
    None = None
    Commands = {c1, c2}
    Channels = {"clear_cache", "open_url", "wol"}
    Loops = {l1, l2}
    BATCH = 2
    MaxAnswers = 2
    MaxFaults = 1
INVARIANTS
    TypeOK
    CommandsRunInTurn
PROPERTIES
    ResultsStand
    CommandsAreAnswered
