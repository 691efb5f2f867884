\* The system stops when the time bound is reached and the task is settled.
CHECK_DEADLOCK FALSE
SPECIFICATION Spec
CONSTANTS
    GracePeriod <- MCGracePeriod
    Due <- MCDue
    Value <- MCValue
    MaxTime <- MCMaxTime
INVARIANTS
    TypeOK
    GraceNeverExtended
PROPERTIES
    KeepsPromise
    ExpiredIsClosed
