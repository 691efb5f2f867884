SPECIFICATION Spec
CONSTANTS
    GracePeriod = 1
    Instances = {i1}
    Sessions = {s1, s2}
    Worker = worker
    DueAt <- MCDueAt
    Offered <- AllOps
    MaxBatch = 1
    MaxTime = 2
    MaxElapsed = 1
INVARIANT OpenClockRuns
