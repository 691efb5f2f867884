SPECIFICATION InboxSpec
CONSTANTS
    GracePeriod = 1
    Instances = {i1, i2}
    Sessions = {s1, s2}
    Worker = worker
    DueAt <- MCDueNow
    Offered <- ApproveOnly
    MaxBatch = 2
    MaxTime = 1
    MaxElapsed = 1
PROPERTIES
    ImplementsAwardLedger
    RequestsEnd
