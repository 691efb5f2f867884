SPECIFICATION Spec
CHECK_DEADLOCK FALSE
CONSTANTS
    k1 = k1
    k2 = k2
    k3 = k3
    NoKey = NoKey
    Keys = {k1, k2}
    OpOf <- CompleteApprove
    Sessions = {s1, s2}
    MaxFailures = 1
INVARIANTS
    TypeOK
    CommittedIsAnswered
    OkIsApplied
PROPERTIES
    ClientAnswered
