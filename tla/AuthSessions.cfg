SPECIFICATION Spec
CONSTANTS
    Users = {u1}
    Sessions = {s1, s2}
    ResetTokens = {t1}
    Requests = {r1, r2}
    None = None
    Operations <- AllOperations
    MaxLoginAttempts = 1
    MaxCrashes = 1
SYMMETRY Symmetry
INVARIANTS TypeOK RotationRevokesParent HandedOutHasRow
PROPERTIES SweepEndsWhatItSaw NewPasswordEndsEarlierLogins ImplementsLifecycle
