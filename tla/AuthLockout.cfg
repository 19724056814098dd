SPECIFICATION Spec
CONSTANTS
    Users = {u1}
    Sessions = {s1, s2}
    ResetTokens = {t1}
    Requests = {r1, r2}
    None = None
    Operations <- Failures
    MaxLoginAttempts = 2
    MaxCrashes = 0
PROPERTIES LockoutHolds
