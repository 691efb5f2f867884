CHECK_DEADLOCK FALSE
SPECIFICATION Spec
SYMMETRY Symmetric
CONSTANTS
    Members = {m1, m2, m3}
    Emails = {e1, e2}
    Names = {n1}
    Codes = {c1, c2}
    None = None
    Sessions = {s1, s2}
    MaxFailures = 1
INVARIANTS
    TypeOK
    UniqueSubject
    LinkedCanSignIn
    OneCode
PROPERTIES
    IdentityKept
