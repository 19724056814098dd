----------------------------- MODULE Memberships -----------------------------
(***************************************************************************)
(* Organizations, invitations, teams and the role assignments that make a  *)
(* user a member of them: app/organizations, app/teams, app/permissions.   *)
(*                                                                         *)
(* A request is one transaction at READ COMMITTED.  A call is modelled     *)
(* with its first SELECT, the check of a permission or the reading of an   *)
(* invitation; each later SELECT that decides something, each UPDATE or    *)
(* DELETE of a row and the INSERT of an assignment is a step of its own.   *)
(* What a transaction has written stays in its record until Commit         *)
(* publishes it.  An UPDATE or DELETE waits for the transaction that has   *)
(* written its row.  Requests that wait in a circle end by Cancel.         *)
(*                                                                         *)
(* Names, slugs, e-mail and timestamps are left out; an invitation names   *)
(* the user who has its address.  An expired invitation makes accept       *)
(* raise, as if it had not been called.                                    *)
(***************************************************************************)
EXTENDS Naturals, FiniteSets

CONSTANTS
    Users,
    Root,                   \* the administrator that the migrations insert
    Orgs, Teams, Invitations, Rows,     \* ids; Rows: those of user_roles
    Requests,               \* requests the server works on at the same time
    Members,                \* users that calls name
    Roles,                  \* roles that calls name
    Scopes,                 \* scopes that assign_role and remove_role name
    Operations,             \* the routes that are called
    None                    \* SQL NULL, "no such row", "not set"

RoleNames == {"super_admin", "organization_admin", "team_admin", "member"}
OrgRoutes == {"update_organization", "delete_organization", "invite_member",
              "update_member_role", "remove_member", "create_team"}
TeamRoutes == {"update_team", "delete_team", "add_team_member", "remove_team_member"}
RoleRoutes == {"assign_role", "remove_role"}
InvitationRoutes == {"accept_invitation", "revoke_invitation"}
Routes == {"create_organization"} \cup OrgRoutes \cup TeamRoutes \cup RoleRoutes
          \cup InvitationRoutes

Objects == Orgs \cup Teams \cup Invitations \cup Rows

Organization == [owner : Users, deleted : BOOLEAN]
Team == [org : Orgs, deleted : BOOLEAN]
Invitation == [org : Orgs, user : Users, role : Roles,
               status : {"pending", "accepted", "revoked"}]
\* via: the invitation an assignment came from; not a column.
UserRole == [user : Users, role : RoleNames, org : Orgs \cup {None}, team : Teams \cup {None},
             deleted : BOOLEAN, via : Invitations \cup {None}]

ASSUME RootAssumption == Root \in Users
ASSUME NoneAssumption ==
    None \notin Users \cup Objects \cup Routes \cup RoleNames \cup Organization \cup Team
                \cup Invitation \cup UserRole
ASSUME IdsAssumption ==
    /\ Orgs \cap (Teams \cup Invitations \cup Rows) = {}
    /\ Teams \cap (Invitations \cup Rows) = {} /\ Invitations \cap Rows = {}
ASSUME OperationsAssumption ==
    Operations \subseteq Routes /\ Members \subseteq Users /\ Roles \subseteq RoleNames
ASSUME ScopesAssumption == Scopes \subseteq (Orgs \cup {None}) \X (Teams \cup {None})

VARIABLES
    org,    \* organizations, as committed; None: no row
    team,   \* teams, as committed
    inv,    \* organization_invitations, as committed
    asg,    \* user_roles, as committed; a row deleted for good is None again
    req     \* the requests at work

tables == <<org, team, inv, asg>>
vars == <<tables, req>>

\* user: who calls, where a later step needs it; org, team, member, role: the scope and
\* the assignment that the request is about;
\* todo: rows still to update or delete; hold: those written; new: row inserted.
Idle == [pc |-> "idle", op |-> None, user |-> None, org |-> None, team |-> None, inv |-> None,
         member |-> None, role |-> None, todo |-> {}, hold |-> {}, new |-> None]

Live(a) == asg[a] # None /\ ~asg[a].deleted

-----------------------------------------------------------------------------
(***************************************************************************)
(* Permissions                                                             *)
(***************************************************************************)
\* DEFAULT_ROLES, for the permissions that these routes ask for.
Permissions == {"organization:update", "organization:delete", "user:manage", "team:create",
                "team:update", "team:delete", "role:manage"}
Grants(role) ==
    CASE role = "super_admin" -> Permissions
      [] role = "organization_admin" -> Permissions \ {"role:manage"}
      [] role = "team_admin" -> {"team:update"}
      [] OTHER -> {}

Needs(op) ==
    CASE op = "update_organization" -> "organization:update"
      [] op = "delete_organization" -> "organization:delete"
      [] op \in {"invite_member", "update_member_role", "remove_member", "revoke_invitation"} ->
             "user:manage"
      [] op = "create_team" -> "team:create"
      [] op = "delete_team" -> "team:delete"
      [] op \in {"update_team", "add_team_member", "remove_team_member"} -> "team:update"
      [] OTHER -> "role:manage"

\* list_by_user_and_scope: with a team, its own roles and all those without a team; with
\* an organization, its own and the global ones; else all.
InScope(a, o, t) ==
    CASE t # None -> asg[a].team \in {t, None}
      [] t = None /\ o # None -> asg[a].org \in {o, None} /\ asg[a].team = None
      [] OTHER -> TRUE

Permitted(u, op, o, t) ==
    \E a \in Rows : /\ Live(a) /\ asg[a].user = u
                    /\ Needs(op) \in Grants(asg[a].role)
                    /\ InScope(a, o, t)

-----------------------------------------------------------------------------
\* Ids that uuid4 may return: no row has them, no request and no assignment names them.
FreshOrgs == {o \in Orgs : /\ org[o] = None
                           /\ \A q \in Requests : req[q].org # o
                           /\ \A a \in Rows : asg[a] # None => asg[a].org # o}
FreshTeams == {t \in Teams : /\ team[t] = None
                             /\ \A q \in Requests : req[q].team # t
                             /\ \A a \in Rows : asg[a] # None => asg[a].team # t}
FreshInvitations == {i \in Invitations : inv[i] = None /\ \A q \in Requests : req[q].inv # i}
FreshRows == {a \in Rows : /\ asg[a] = None
                           /\ \A q \in Requests :
                                 a # req[q].new /\ a \notin req[q].todo \cup req[q].hold}

At(r, pc) == req[r].pc = pc
Begin(r, call, pc) ==
    /\ At(r, "idle")
    /\ call.op \in Operations
    /\ req' = [req EXCEPT ![r] = [call EXCEPT !.pc = pc]]
    /\ UNCHANGED tables
Abort(r) ==
    /\ req' = [req EXCEPT ![r] = Idle]
    /\ UNCHANGED tables

\* The current assignments that get_assignment looks for: those with all four columns.
HasKey(a, q) == /\ asg[a].user = q.member /\ asg[a].role = q.role
                /\ asg[a].org = q.org /\ asg[a].team = q.team
Assigned(q) == {a \in Rows : Live(a) /\ HasKey(a, q)}

\* Variant: accept_invitation and revoke_invitation send their UPDATE with the commit only.
WaitsUnflushed(r, x) == x \notin Invitations /\ \E q \in Requests \ {r} : x \in req[q].hold

\* An UPDATE or DELETE of row x waits for the transaction that has written it.
Waits(r, x) == \E q \in Requests \ {r} : x \in req[q].hold

\* ix_user_roles_scope: NULLs are distinct, so it covers team assignments only.  The INSERT
\* waits for those who have inserted the key or have written the row that has it.
Indexed(q) == q.org # None /\ q.team # None
Blockers(r) ==
    {q \in Requests \ {r} :
        \/ req[q].hold \cap Assigned(req[r]) # {}
        \/ /\ req[q].new # None
           /\ \A f \in {"member", "role", "org", "team"} : req[q][f] = req[r][f]}

AfterWrites(op) ==
    CASE op = "update_member_role" -> "insert"
      [] op = "accept_invitation" -> "assignment"
      [] OTHER -> "done"

-----------------------------------------------------------------------------
(***************************************************************************)
(* The calls, with their first SELECT                                      *)
(***************************************************************************)
\* The organization and the assignment of its owner are inserted at once: nobody can wait
\* for rows of an organization that nobody has seen.
CreateOrganization(r, u) ==
    \E o \in FreshOrgs, a \in FreshRows :
       Begin(r, [Idle EXCEPT !.op = "create_organization", !.org = o, !.member = u,
                             !.role = "organization_admin", !.new = a], "done")

\* require_organization_permission.
OrganizationRoute(r, op, u, o, m, role) ==
    /\ Permitted(u, op, o, None)
    /\ Begin(r, [Idle EXCEPT !.op = op, !.org = o, !.member = m, !.role = role], "open")

\* Variant: the organization is not looked up.
InviteUnopened(r, u, o, m, role) ==
    /\ Permitted(u, "invite_member", o, None)
    /\ \E i \in FreshInvitations :
          Begin(r, [Idle EXCEPT !.op = "invite_member", !.org = o, !.member = m, !.role = role,
                                !.inv = i], "done")

ChangeOrganization(r, u, o) ==
    \E op \in {"update_organization", "delete_organization"} :
       OrganizationRoute(r, op, u, o, None, None)
InviteMember(r, u, o, m, role) == OrganizationRoute(r, "invite_member", u, o, m, role)

UpdateMemberRole(r, u, o, m, role) == OrganizationRoute(r, "update_member_role", u, o, m, role)
RemoveMember(r, u, o, m) == OrganizationRoute(r, "remove_member", u, o, m, None)
CreateTeam(r, u, o) == OrganizationRoute(r, "create_team", u, o, u, "team_admin")

\* require_team_permission.
TeamRoute(r, op, u, t, m, role) ==
    /\ Permitted(u, op, None, t)
    /\ Begin(r, [Idle EXCEPT !.op = op, !.team = t, !.member = m, !.role = role], "open")

ChangeTeam(r, u, t) ==
    \E op \in {"update_team", "delete_team"} : TeamRoute(r, op, u, t, None, None)
AddTeamMember(r, u, t, m, role) == TeamRoute(r, "add_team_member", u, t, m, role)
RemoveTeamMember(r, u, t, m, role) == TeamRoute(r, "remove_team_member", u, t, m, role)

\* require_permission("role:manage"), in any scope.
RoleRoute(r, u, m, role, o, t) ==
    \E op \in RoleRoutes :
       /\ Permitted(u, op, None, None)
       /\ Begin(r, [Idle EXCEPT !.op = op, !.member = m, !.role = role, !.org = o, !.team = t],
                "assignment")

\* The status is the one read here, also after the permission has been checked: the session
\* returns the object it has.
AcceptInvitation(r, u, i) ==
    /\ inv[i] # None /\ inv[i].status = "pending"
    /\ inv[i].user = u
    /\ Begin(r, [Idle EXCEPT !.op = "accept_invitation", !.org = inv[i].org, !.inv = i,
                             !.member = u, !.role = inv[i].role, !.todo = {i}], "write")
RevokeInvitation(r, u, i) ==
    /\ inv[i] # None /\ inv[i].status = "pending"
    /\ Begin(r, [Idle EXCEPT !.op = "revoke_invitation", !.user = u, !.org = inv[i].org,
                             !.inv = i, !.todo = {i}], "permission")

-----------------------------------------------------------------------------
(***************************************************************************)
(* The steps of a request                                                  *)
(***************************************************************************)
CheckPermission(r) ==
    /\ At(r, "permission")
    /\ IF Permitted(req[r].user, req[r].op, req[r].org, None)
       THEN /\ req' = [req EXCEPT ![r] = [@ EXCEPT !.pc = "write"]]
            /\ UNCHANGED tables
       ELSE Abort(r)

\* Variant: the owner's assignments are not protected.
NoOwner(o, m) == FALSE
IsOwner(o, m) == org[o].owner = m

\* OrganizationService.get, and what a route does next with an organization that is there.
OpenOrganization(r) ==
    LET q == req[r]
        go(to) == req' = [req EXCEPT ![r] = to] /\ UNCHANGED tables
    IN  /\ At(r, "open") /\ q.op \in OrgRoutes
        /\ IF org[q.org] = None \/ org[q.org].deleted THEN Abort(r)
           ELSE CASE q.op \in {"update_organization", "delete_organization"} ->
                         go([q EXCEPT !.pc = "write", !.todo = {q.org}])
                  [] q.op = "invite_member" ->
                         \E i \in FreshInvitations : go([q EXCEPT !.pc = "done", !.inv = i])
                  [] q.op = "create_team" ->
                         \E t \in FreshTeams, a \in FreshRows :
                            go([q EXCEPT !.pc = "done", !.team = t, !.new = a])
                  [] OTHER -> IF IsOwner(q.org, q.member) THEN Abort(r)
                              ELSE go([q EXCEPT !.pc = "list"])

\* TeamService.get.
OpenTeam(r) ==
    LET q == req[r]
    IN  /\ At(r, "open") /\ q.op \in TeamRoutes
        /\ IF team[q.team] = None \/ team[q.team].deleted THEN Abort(r)
           ELSE /\ req' = [req EXCEPT ![r] =
                             IF q.op \in {"update_team", "delete_team"}
                             THEN [q EXCEPT !.pc = "write", !.todo = {q.team}]
                             ELSE [q EXCEPT !.pc = "assignment", !.org = team[q.team].org]]
                /\ UNCHANGED tables

\* list_by_user_and_organization.  A role change leaves the assignments to teams.
ListAssignments(r) ==
    LET q == req[r]
        found == {a \in Rows : Live(a) /\ asg[a].user = q.member /\ asg[a].org = q.org}
        todo == {a \in found : q.op = "remove_member" \/ asg[a].team = None}
    IN  /\ At(r, "list")
        /\ IF found = {} THEN Abort(r)
           ELSE /\ req' = [req EXCEPT ![r] =
                             [@ EXCEPT !.pc = IF todo = {} THEN AfterWrites(q.op) ELSE "write",
                                       !.todo = todo]]
                /\ UNCHANGED tables

\* get_assignment; several rows raise.
FindAssignment(r) ==
    LET q == req[r]
        go(to) == req' = [req EXCEPT ![r] = to] /\ UNCHANGED tables
    IN  /\ At(r, "assignment")
        /\ \/ /\ Assigned(q) = {}
              /\ IF q.op \in {"remove_team_member", "remove_role"} THEN Abort(r)
                 ELSE go([q EXCEPT !.pc = "insert"])
           \/ \E a \in Rows :
                 /\ Assigned(q) = {a}
                 /\ CASE q.op \in {"remove_team_member", "remove_role"} ->
                             go([q EXCEPT !.pc = "write", !.todo = {a}])
                      [] q.op = "accept_invitation" -> go([q EXCEPT !.pc = "confirm"])
                      [] OTHER -> Abort(r)
           \/ Assigned(q) # {} /\ (\A a \in Rows : Assigned(q) # {a}) /\ Abort(r)

\* UPDATE or DELETE of one row.  A row that is gone makes an UPDATE raise StaleDataError; a
\* DELETE goes on with a warning.
Write(r) ==
    /\ At(r, "write")
    /\ \E x \in req[r].todo :
          LET rest == req[r].todo \ {x}
          IN  /\ ~Waits(r, x)
              /\ IF x \in Rows /\ asg[x] = None /\ req[r].op \in {"remove_team_member", "remove_role"}
                 THEN Abort(r)
                 ELSE /\ req' = [req EXCEPT ![r] =
                            [@ EXCEPT !.pc = IF rest = {} THEN AfterWrites(req[r].op) ELSE "write",
                                      !.todo = rest, !.hold = req[r].hold \cup {x}]]
                      /\ UNCHANGED tables

Insert(r) ==
    \/ \E a \in FreshRows :
          /\ req' = [req EXCEPT ![r] =
                        [@ EXCEPT !.pc = IF req[r].op = "accept_invitation" THEN "confirm" ELSE "done",
                                  !.new = a]]
          /\ UNCHANGED tables
    \/ FreshRows = {} /\ Abort(r)        \* bound: without an id the INSERT fails

\* Variant: the table has no unique index.
InsertUnindexed(r) == At(r, "insert") /\ Insert(r)

InsertAssignment(r) ==
    /\ At(r, "insert")
    /\ IF ~Indexed(req[r]) THEN Insert(r)
       ELSE /\ Blockers(r) = {}
            /\ IF Assigned(req[r]) = {} THEN Insert(r) ELSE Abort(r)

\* accept_invitation returns the organization, which must be there.
ConfirmOrganization(r) ==
    LET o == req[r].org
    IN  /\ At(r, "confirm")
        /\ IF org[o] = None \/ org[o].deleted THEN Abort(r)
           ELSE /\ req' = [req EXCEPT ![r] = [@ EXCEPT !.pc = "done"]]
                /\ UNCHANGED tables

-----------------------------------------------------------------------------
(***************************************************************************)
(* What a commit publishes                                                 *)
(***************************************************************************)
OrgOf(r, o) ==
    CASE req[r].org = o /\ req[r].op = "create_organization" ->
             [owner |-> req[r].member, deleted |-> FALSE]
      [] req[r].org = o /\ req[r].op = "delete_organization" -> [org[o] EXCEPT !.deleted = TRUE]
      [] OTHER -> org[o]

TeamOf(r, t) ==
    CASE req[r].team = t /\ req[r].op = "create_team" -> [org |-> req[r].org, deleted |-> FALSE]
      [] req[r].team = t /\ req[r].op = "delete_team" -> [team[t] EXCEPT !.deleted = TRUE]
      [] OTHER -> team[t]

InvOf(r, i) ==
    CASE req[r].inv = i /\ req[r].op = "invite_member" ->
             [org |-> req[r].org, user |-> req[r].member, role |-> req[r].role, status |-> "pending"]
      [] req[r].inv = i /\ req[r].op = "accept_invitation" -> [inv[i] EXCEPT !.status = "accepted"]
      [] req[r].inv = i /\ req[r].op = "revoke_invitation" -> [inv[i] EXCEPT !.status = "revoked"]
      [] OTHER -> inv[i]

\* delete_hard in the routes of an organization, delete_soft in the others.
AsgOf(r, a) ==
    LET q == req[r]
    IN  CASE a = q.new ->
                 [user |-> q.member, role |-> q.role, org |-> q.org, team |-> q.team,
                  deleted |-> FALSE,
                  via |-> IF q.op = "accept_invitation" THEN q.inv ELSE None]
          [] a # q.new /\ a \in q.hold /\ q.op \in {"update_member_role", "remove_member"} -> None
          [] a # q.new /\ a \in q.hold /\ q.op \in {"remove_team_member", "remove_role"} ->
                 [asg[a] EXCEPT !.deleted = TRUE]
          [] OTHER -> asg[a]

Publish(r) ==
    /\ org' = [o \in Orgs |-> OrgOf(r, o)]
    /\ team' = [t \in Teams |-> TeamOf(r, t)]
    /\ inv' = [i \in Invitations |-> InvOf(r, i)]
    /\ asg' = [a \in Rows |-> AsgOf(r, a)]

\* Variant: a DELETE is committed before the INSERT that follows it.
CommitEarly(r) ==
    \/ At(r, "done") /\ Publish(r) /\ req' = [req EXCEPT ![r] = Idle]
    \/ /\ At(r, "insert") /\ req[r].hold # {}
       /\ Publish(r)
       /\ req' = [req EXCEPT ![r] = [@ EXCEPT !.hold = {}]]

Commit(r) ==
    /\ At(r, "done")
    /\ Publish(r)
    /\ req' = [req EXCEPT ![r] = Idle]

\* The client goes away, a statement fails, a deadlock is broken, the worker stops.
Cancel(r) == req[r].pc # "idle" /\ Abort(r)

-----------------------------------------------------------------------------
\* A fresh installation: the seeded roles, and the administrator of the migrations.
Init ==
    /\ org = [o \in Orgs |-> None]
    /\ team = [t \in Teams |-> None]
    /\ inv = [i \in Invitations |-> None]
    /\ \E first \in Rows :
          asg = [a \in Rows |->
                   IF a # first THEN None
                   ELSE [user |-> Root, role |-> "super_admin", org |-> None, team |-> None,
                         deleted |-> FALSE, via |-> None]]
    /\ req = [r \in Requests |-> Idle]

\* A client calls a route.
Call(r) ==
    \E u \in Users :
       \/ CreateOrganization(r, u)
       \/ \E o \in Orgs :
             \/ ChangeOrganization(r, u, o) \/ CreateTeam(r, u, o)
             \/ \E m \in Members :
                   \/ RemoveMember(r, u, o, m)
                   \/ \E role \in Roles :
                         InviteMember(r, u, o, m, role) \/ UpdateMemberRole(r, u, o, m, role)
       \/ \E t \in Teams :
             \/ ChangeTeam(r, u, t)
             \/ \E m \in Members, role \in Roles :
                   AddTeamMember(r, u, t, m, role) \/ RemoveTeamMember(r, u, t, m, role)
       \/ \E m \in Members, role \in Roles, scope \in Scopes :
             RoleRoute(r, u, m, role, scope[1], scope[2])
       \/ \E i \in Invitations : AcceptInvitation(r, u, i) \/ RevokeInvitation(r, u, i)

\* The event loop or PostgreSQL takes a request one statement further.
Step(r) ==
    \/ CheckPermission(r) \/ OpenOrganization(r) \/ OpenTeam(r)
    \/ ListAssignments(r) \/ FindAssignment(r)
    \/ Write(r) \/ InsertAssignment(r) \/ ConfirmOrganization(r) \/ Commit(r)

Next == \E r \in Requests : Call(r) \/ Step(r) \/ Cancel(r)

Spec == Init /\ [][Next]_vars

-----------------------------------------------------------------------------
(***************************************************************************)
(* Properties                                                              *)
(***************************************************************************)
Request ==
    [pc : {"idle", "permission", "open", "list", "assignment", "write", "insert", "confirm", "done"},
     op : Routes \cup {None}, user : Users \cup {None}, org : Orgs \cup {None},
     team : Teams \cup {None}, inv : Invitations \cup {None}, member : Users \cup {None},
     role : RoleNames \cup {None}, todo : SUBSET Objects, hold : SUBSET Objects,
     new : Rows \cup {None}]

\* Types, and foreign keys: teams and invitations belong to organizations that exist
\* (the models of app/teams and app/organizations).
TypeOK ==
    /\ org \in [Orgs -> Organization \cup {None}]
    /\ team \in [Teams -> Team \cup {None}]
    /\ inv \in [Invitations -> Invitation \cup {None}]
    /\ asg \in [Rows -> UserRole \cup {None}]
    /\ req \in [Requests -> Request]
    /\ \A t \in Teams : team[t] # None => org[team[t].org] # None
    /\ \A i \in Invitations : inv[i] # None => org[inv[i].org] # None

\* A user has a role in a team once, though add_member and assign_role look for the
\* assignment and insert it in two steps (ix_user_roles_scope).  With two, get_assignment
\* raises and the member can neither be removed nor added.
OneTeamAssignment ==
    \A a, b \in Rows :
       /\ Live(a) /\ Live(b)
       /\ asg[a].org # None /\ asg[a].team # None
       /\ \A f \in {"user", "role", "org", "team"} : asg[a][f] = asg[b][f]
       => a = b

\* An invitation makes its user a member once, however often and however concurrently it is
\* accepted: accept_invitation updates the invitation before it looks for the assignment, so
\* that a second acceptance waits for the first and finds its row.
InvitationJoinsOnce ==
    \A a, b \in Rows :
       Live(a) /\ Live(b) /\ asg[a].via # None /\ asg[a].via = asg[b].via => a = b

\* The owner of an organization has the organization_admin assignment from its creation on,
\* and loses it by remove_role only: neither a role change nor a removal of members takes it,
\* whatever runs at the same time (CannotChangeOwnerRoleException, CannotRemoveOwnerException).
Administered(o) ==
    \E a \in Rows : /\ Live(a) /\ asg[a].user = org[o].owner
                    /\ asg[a].role = "organization_admin"
                    /\ asg[a].org = o /\ asg[a].team = None
OwnerAdministers ==
    [][\A o \in Orgs :
          \/ org'[o] = None \/ Administered(o)'
          \/ org[o] # None /\ ~Administered(o)
          \/ \E r \in Requests : /\ At(r, "done") /\ At(r, "idle")'
                                 /\ req[r].op = "remove_role" /\ req[r].org = o]_vars

\* Nobody ceases to be a member of an organization but by a removal: a role change deletes
\* assignments and inserts the new one together, whatever fails or runs at the same time
\* (update_member_role).
IsMember(o, m) == \E a \in Rows : Live(a) /\ asg[a].user = m /\ asg[a].org = o
MembersLeaveByRemoval ==
    [][\A o \in Orgs, m \in Users :
          IsMember(o, m) /\ ~IsMember(o, m)' =>
             \E r \in Requests :
                /\ At(r, "done") /\ At(r, "idle")'
                /\ req[r].op \in {"remove_member", "remove_team_member", "remove_role"}
                /\ req[r].member = m /\ req[r].org = o]_vars

\* Expected by InvitationAlreadyProcessedException, which refuses an invitation that "has
\* already been accepted or revoked" (app/organizations/exceptions.py:32).  It does not hold:
\* acceptance and revocation both read the invitation as pending, and the second UPDATE
\* replaces the first; the user whose invitation has been revoked is a member.
ProcessedInvitationsStay ==
    [][\A i \in Invitations :
          inv[i] # None /\ inv[i].status # "pending" => inv'[i] = inv[i]]_vars
=============================================================================
