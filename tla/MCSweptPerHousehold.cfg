SPECIFICATION Spec
CHECK_DEADLOCK FALSE
CONSTANTS
    h1 = h1
    h2 = h2
    d1 = d1
    Households = {h1, h2}
    Definitions = {d1}
    HouseOf <- InFirst
    Forms <- SomeForms
    SlotsPerDay = 2
    West = 0
    Horizon = 1
    GracePeriod = 1
    MaxTime = 2
    MaxEdits = 1
    MaxFailures = 1
PROPERTY
    SweptPerHousehold
