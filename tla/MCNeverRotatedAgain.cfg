SPECIFICATION Spec
CHECK_DEADLOCK FALSE
CONSTANTS
    address = address
    email = email
    Keys = {address, email}
    Limit <- Limits
    Checks <- LoginChecks
    Logins <- LoginChecks
    Tokens = {t1, t2}
    NoToken = NoToken
    Sessions = {s1, s2}
    MaxFailures = 1
INVARIANT
    NeverRotatedAgain
