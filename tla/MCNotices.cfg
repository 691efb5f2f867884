SPECIFICATION Spec
CHECK_DEADLOCK FALSE
CONSTANTS
    i1 = i1
    i2 = i2
    Instances = {i1, i2}
    Due <- DueInTurn
    Lead = 1
    NudgeAfter = 1
    Sessions = {s1}
    Runs = {r1, r2}
    Zones <- SomeZones
    WeekLength = 2
    Weeks = 2
    MaxTime = 2
    MaxFailures = 1
INVARIANTS
    TypeOK
    InboxHasTimes
    RemindedOnce
    ReportExact
PROPERTIES
    ReviewIsNudged
