----------------------------- MODULE RoleCatalog -----------------------------
(***************************************************************************)
(* The permissions and the roles, app/permissions, and their seeding when  *)
(* a worker starts, app/core/application.py.  Assignments of roles to      *)
(* users are in Memberships.                                               *)
(*                                                                         *)
(* Names are unique over all rows, those of deleted ones included, so that *)
(* a name stands for its row.  Lookups see rows that are not deleted.      *)
(* Wildcards in the names of a call stand for some permissions and are     *)
(* left out; so are descriptions.                                          *)
(***************************************************************************)
EXTENDS Repository

CONSTANTS
    PermissionNames, RoleNames,
    Defaults,           \* DEFAULT_PERMISSIONS, then DEFAULT_ROLES
    DefaultGrants       \* default role -> its permissions

ASSUME DefaultsAssumption ==
    /\ Defaults \in Seq(PermissionNames \cup DOMAIN DefaultGrants)
    /\ DOMAIN DefaultGrants \subseteq RoleNames
    /\ \A n \in DOMAIN DefaultGrants :
          DefaultGrants[n] \subseteq {Defaults[i] : i \in 1..Len(Defaults)} \cap PermissionNames

Permission == [deleted : BOOLEAN]
Role == [system : BOOLEAN, grants : SUBSET PermissionNames, deleted : BOOLEAN]

CatalogRoutes == {"create_permission", "delete_permission", "create_role", "update_role",
                  "delete_role"}

\* Somebody has role:manage: a seed has been committed.
Seeded == \E n \in RoleNames : row[n] # None /\ row[n].system

-----------------------------------------------------------------------------
CreatePermission(r, u, n) ==
    /\ u \in Managers /\ Seeded
    /\ ~Live(n)
    /\ Begin(r, [Idle EXCEPT !.pc = "insert", !.op = "create_permission", !.user = u,
                             !.names = <<<<n, [deleted |-> FALSE]>>>>])

\* get returns a deleted one too.
DeletePermission(r, u, n) ==
    /\ u \in Managers /\ Seeded
    /\ row[n] # None
    /\ DeleteSoft(r, "delete_permission", u, n)

CreateRole(r, u, n, granted) ==
    /\ u \in Managers /\ Seeded
    /\ ~Live(n) /\ \A p \in granted : Live(p)
    /\ Begin(r, [Idle EXCEPT !.pc = "insert", !.op = "create_role", !.user = u,
                             !.names = <<<<n, [system |-> FALSE, grants |-> granted,
                                               deleted |-> FALSE]>>>>])

\* The session sends what differs from the collection it has read.
UpdateRole(r, u, n, granted) ==
    /\ u \in Managers /\ Seeded
    /\ Live(n) /\ \A p \in granted : Live(p)
    /\ Begin(r, [Idle EXCEPT !.pc = "links", !.op = "update_role", !.user = u,
                             !.links = [of |-> n, add |-> granted \ row[n].grants,
                                        remove |-> row[n].grants \ granted]])

DeleteRole(r, u, n) ==
    /\ u \in Managers /\ Seeded
    /\ row[n] # None /\ ~row[n].system
    /\ DeleteSoft(r, "delete_role", u, n)

DefaultRow(n) ==
    IF n \in PermissionNames THEN [deleted |-> FALSE]
    ELSE [system |-> TRUE, grants |-> DefaultGrants[n], deleted |-> FALSE]

\* A worker starts.
Seed(r) ==
    Begin(r, [Idle EXCEPT !.pc = "lookup", !.op = "seed", !.next = "lookup",
                          !.names = [i \in DOMAIN Defaults |-> <<Defaults[i], DefaultRow(Defaults[i])>>]])

-----------------------------------------------------------------------------
\* seed_defaults: get_by_name for the next of the defaults.
LookUpName(r) ==
    LET names == req[r].names
    IN  /\ At(r, "lookup")
        /\ Continue(r, CASE names = <<>> -> [req[r] EXCEPT !.pc = "done"]
                         [] names # <<>> /\ Live(Head(names)[1]) -> [req[r] EXCEPT !.names = Tail(@)]
                         [] OTHER -> [req[r] EXCEPT !.pc = "insert"])

\* DELETEs and INSERTs of role_permissions, taken together: they wait for another request
\* that has written one of the same rows; a row that is gone, or there, makes them fail.
ChangeLinks(r) ==
    LET mine == req[r].links
    IN  /\ At(r, "links")
        /\ \A q \in Requests \ {r} :
              At(q, "done") /\ req[q].links.of = mine.of =>
                 (mine.add \cup mine.remove) \cap (req[q].links.add \cup req[q].links.remove) = {}
        /\ IF mine.remove \subseteq row[mine.of].grants /\ mine.add \cap row[mine.of].grants = {}
           THEN Continue(r, [req[r] EXCEPT !.pc = "done"])
           ELSE Abort(r)

CatalogCall(r, u) ==
    \/ \E n \in PermissionNames : CreatePermission(r, u, n) \/ DeletePermission(r, u, n)
    \/ \E n \in RoleNames :
          \/ DeleteRole(r, u, n)
          \/ \E granted \in SUBSET PermissionNames :
                CreateRole(r, u, n, granted) \/ UpdateRole(r, u, n, granted)
=============================================================================
