SPECIFICATION Spec
CONSTANTS
    Users = {u1, u2}
    Owner = u1
    Assigned = {}
    Managers = {u1}
    Requests = {r1, r2, r3}
    Ids <- AllIds
    Suites <- Sharing
    None = None
    Entries = {e1}
    Shares = {s1, s2}
    Notifications = {n1, n2}
    Values = {x, y}
    LabelIds = {l1, l2}
    Names = {x, y}
    MemoIds = {m1}
    VersionIds = {w1, w2, w3, w4}
    Contents = {x, y}
    ProjectIds = {p1}
    AssignmentIds = {a1, a2, a3}
    TaskIds = {task1, task2}
    Statuses = {x, y}
    EventIds = {event}
    Times <- TimesOfDays
    DayLength = 2
    PermissionNames = {"read", "write"}
    RoleNames = {"admin", "other"}
    Defaults <- DefaultNames
    DefaultGrants <- GrantsOfDefaults
    Addresses = {mail1}
    Uids = {i1, i2}
    Links = {t1, t2}
    Profiles = {x, y}
INVARIANTS KeysAreUnique
