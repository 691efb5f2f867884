SPECIFICATION Spec
CONSTANTS
    GracePeriod = 1
    Instances = {i1, i2}
    Sessions = {s1, s2}
    Worker = worker
    DueAt <- MCDueAt
    Offered <- ReviewOps
    MaxBatch = 2
    MaxTime = 0
    MaxElapsed = 1
PROPERTY BadItemFailsAlone
