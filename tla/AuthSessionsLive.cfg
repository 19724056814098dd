SPECIFICATION FairSpec
CONSTANTS
    Users = {u1}
    Sessions = {s1, s2}
    ResetTokens = {t1}
    Requests = {r1, r2}
    None = None
    Operations <- OneByOne
    MaxLoginAttempts = 2
    MaxCrashes = 1
INVARIANTS KeysMatchRows
PROPERTIES EveryRequestEnds
