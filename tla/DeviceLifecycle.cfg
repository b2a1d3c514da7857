SPECIFICATION Spec
CONSTANTS
    p1 = p1
    c1 = c1
    c2 = c2
    Players = {p1}
    Calls = {c1, c2}
    MaxDevices = 1
    TrialPlayers = 0
    LicencePlayers = 1
    MaxCodes = 3
    MaxTokens = 3
    MaxEvents = 1
INVARIANTS
    TypeOK
    LimitsAreRespected
    RevokedStaysRevoked
PROPERTIES
    SessionsEnd
