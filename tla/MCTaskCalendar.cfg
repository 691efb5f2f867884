SPECIFICATION Spec
CHECK_DEADLOCK FALSE
CONSTANTS
    h1 = h1
    h2 = h2
    d1 = d1
    Households = {h1, h2}
    Definitions = {d1}
    HouseOf <- InFirst
    Forms <- SomeForms
    SlotsPerDay = 2
    West = 1
    Horizon = 2
    GracePeriod = 1
    MaxTime = 2
    MaxEdits = 1
    MaxFailures = 1
INVARIANTS
    TypeOK
    OneADay
    HorizonFilled
PROPERTIES
    PastDueIsSwept
