SPECIFICATION FairSpec
CONSTANTS
    a = a
    b = b
    Contents = {a}
    Walls = {}
    c1 = c1
    c2 = c2
    r1 = r1
    Campaigns = {c1}
    Rules = {}
    Ranks = {1}
    Statuses = {"draft", "active"}
    q1 = q1
    q2 = q2
    Requests = {q1}
    None = None
    Deleted = Deleted
    NotHere = NotHere
    Broken = Broken
    MaxEdits = 3
PROPERTIES
    CampaignItemsAreRestored
