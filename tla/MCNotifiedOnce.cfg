SPECIFICATION Spec
CHECK_DEADLOCK FALSE
CONSTANTS
    k1 = k1
    k2 = k2
    k3 = k3
    NoKey = NoKey
    Keys = {k1}
    OpOf <- ExcuseOnly
    Sessions = {s1, s2}
    MaxFailures = 0
INVARIANTS
    NotifiedOnce
