SPECIFICATION Spec
CONSTANTS
    d = d
    e = e
    a = a
    None = None
    Devices = {d}
    Contents = {a}
    MAX_QUEUE_SIZE = 1
    FLUSH_BATCH_SIZE = 1
    MaxEvents = 3
    MaxFaults = 1
INVARIANTS
    TypeOK
    EventsAreAccountedFor
    OnlySurplusIsCut
PROPERTIES
    QueueDrains
    ImplementsDelivery
