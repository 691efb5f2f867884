\* Once the bound on entries is reached nothing can begin.
SPECIFICATION WalletSpec
SYMMETRY SymmetricSessions
CHECK_DEADLOCK FALSE
CONSTANTS
    t1 = t1
    t2 = t2
    Sessions = {s1, s2}
    Tasks = {t1, t2}
    PointValue <- TwoValues
    Claims = {c1}
    Price <- EachCostsTwo
    Deltas = {3}
    Bonuses = {5}
    Window = window
    NoRef = NoRef
    MaxEntries = 4
INVARIANTS
    WalletTypeOK
    BalanceAfterExact
    ClaimDebits
    BonusWithWindow
