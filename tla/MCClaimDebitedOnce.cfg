SPECIFICATION WalletSpec
CHECK_DEADLOCK FALSE
CONSTANTS
    t1 = t1
    t2 = t2
    Sessions = {s1}
    Tasks = {t1, t2}
    PointValue <- TwoValues
    Claims = {c1}
    Price <- EachCostsTwo
    Deltas = {}
    Bonuses = {5}
    Window = window
    NoRef = NoRef
    MaxEntries = 5
INVARIANTS
    ClaimDebitedOnce
