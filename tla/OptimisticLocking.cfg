SPECIFICATION Spec
CONSTANTS
    Users = {u1}
    Managers = {u1}
    Requests = {r1, r2}
    Ids = {p1, a1}
    Suites = {{"create_project", "update_project"}}
    None = None
    ProjectIds = {p1}
    AssignmentIds = {a1}
    TaskIds = {}
    Statuses = {x, y, z}
    MaxVersion = 3
PROPERTIES OptimisticLocking
