------------------------------ MODULE MCWorkspace ------------------------------
\* The instance of Workspace that TLC checks.
EXTENDS Workspace, TLC

AllIds == Entries \cup Shares \cup Notifications \cup LabelIds \cup MemoIds \cup VersionIds
          \cup ProjectIds \cup AssignmentIds \cup TaskIds \cup EventIds \cup PermissionNames
          \cup RoleNames \cup Addresses

\* One part each.
Parts == {VaultRoutes, {"create_entry", "share_entry"} \cup NotificationRoutes,
          CategoryRoutes, FolderRoutes, VaultTagRoutes, MemoTagRoutes, ProjectTagRoutes,
          MemoRoutes \cup {"pin_memo", "unpin_memo"}, {"create_memo"} \cup FlagRoutes,
          ProjectRoutes \cup {"remove_assignee"}, {"create_project"} \cup AssigneeRoutes,
          {"create_project", "delete_project"} \cup TaskRoutes,
          EventRoutes, {"seed", "create_permission", "delete_permission"},
          {"seed", "create_role", "delete_role"}, {"seed", "update_role"},
          AccountRoutes}
Sharing == {{"create_entry", "share_entry"}}

DefaultNames == <<"read", "write", "admin">>
GrantsOfDefaults == [n \in {"admin"} |-> {"read", "write"}]
TimesOfDays == 1..3

Symmetry == Permutations(Requests) \cup Permutations(Values)
=============================================================================
