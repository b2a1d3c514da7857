SPECIFICATION FairSpec
CONSTANTS
    a = a
    b = b
    Contents = {a, b}
    Walls = {b}
    c1 = c1
    c2 = c2
    r1 = r1
    Campaigns = {c1}
    Rules = {r1}
    Ranks = {1}
    Statuses = {"draft", "active"}
    q1 = q1
    q2 = q2
    Requests = {q1, q2}
    None = None
    Deleted = Deleted
    NotHere = NotHere
    Broken = Broken
    MaxEdits = 3
INVARIANTS
    TypeOK
    BaselineIsCmsContent
    OverridesAreOwned
    PublicationIsRestorePoint
PROPERTIES
    OverridesConverge
