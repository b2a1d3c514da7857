SPECIFICATION AlertsSpec
CONSTANTS
    e1 = e1
    e2 = e2
    e3 = e3
    Calls = {e1, e2}
    MaxChanges = 2
    MaxFailures = 1
INVARIANTS
    AlertsTypeOK
    OfflineKindsExclude
PROPERTIES
    AlertsConverge
