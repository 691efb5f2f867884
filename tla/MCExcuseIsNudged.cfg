SPECIFICATION Spec
CHECK_DEADLOCK FALSE
CONSTANTS
    i1 = i1
    i2 = i2
    Instances = {i2}
    Due <- DueOne
    Lead = 1
    NudgeAfter = 1
    Sessions = {s1}
    Runs = {r1}
    Zones <- SomeZones
    WeekLength = 3
    Weeks = 2
    MaxTime = 3
    MaxFailures = 1
PROPERTIES
    ExcuseIsNudged
