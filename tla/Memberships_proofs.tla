-------------------------- MODULE Memberships_proofs --------------------------
(***************************************************************************)
(* Theorems about Memberships, for any number of users, organizations,     *)
(* teams, invitations and requests.  All rest on the inductive invariant   *)
(* IInv: what a request knows of the committed rows at each of its steps,  *)
(* and what no two requests do at the same time.                           *)
(***************************************************************************)
EXTENDS Memberships, TLAPS

Ending == {"update_member_role", "remove_member", "remove_team_member", "remove_role"}
Assigning == {"update_member_role", "add_team_member", "assign_role", "accept_invitation"}
Naming == Assigning \cup {"create_organization", "create_team"}

\* Where each route can be.
InProgram(q) ==
    /\ q.pc = "idle" => q = Idle
    /\ q.pc # "idle" => q.op # None
    /\ q.pc = "permission" => q.op = "revoke_invitation"
    /\ q.pc = "open" => q.op \in OrgRoutes \cup TeamRoutes /\ q.todo = {} /\ q.hold = {}
    /\ q.pc = "list" => q.op \in {"update_member_role", "remove_member"}
    /\ q.pc = "assignment" =>
          q.op \in RoleRoutes \cup {"add_team_member", "remove_team_member", "accept_invitation"}
    /\ q.pc = "insert" => q.op \in Assigning
    /\ q.pc = "confirm" => q.op = "accept_invitation"
    /\ q.pc = "done" /\ q.op = "update_member_role" => q.new # None
    /\ q.op = "create_organization" => q.pc = "done"
    /\ q.pc \notin {"confirm", "done"} => q.new = None

\* What a request knows of the organization, the team and the invitation it is about.
Informed(q) ==
    /\ q.op = "create_organization" =>
          /\ q.org \in Orgs /\ org[q.org] = None
          /\ q.role = "organization_admin" /\ q.team = None /\ q.new # None
    /\ q.op \in OrgRoutes =>
          /\ q.org \in Orgs
          /\ q.op # "create_team" => q.team = None
          /\ q.pc # "open" => org[q.org] # None
    /\ q.op \in {"update_member_role", "remove_member"} /\ q.pc # "open" =>
          org[q.org].owner # q.member
    /\ q.op = "create_team" /\ q.pc # "open" =>
          q.team \in Teams /\ team[q.team] = None /\ q.new # None
    /\ q.op = "invite_member" =>
          /\ q.member \in Users /\ q.role \in Roles
          /\ q.pc # "open" => q.inv \in Invitations /\ inv[q.inv] = None
    /\ q.op \in TeamRoutes =>
          q.team \in Teams /\ (q.pc # "open" => team[q.team] # None)
    /\ q.op \in InvitationRoutes => q.inv \in Invitations /\ inv[q.inv] # None
    /\ q.op \in Naming => q.member \in Users /\ q.role \in RoleNames
    /\ q.new # None => q.op \in Naming /\ asg[q.new] = None

\* The assignments that a request ends are those of the user and the scope it names; in the
\* routes of a team and of roles, they are there once they are written.
EndsItsOwn(q) ==
    /\ \A a \in Rows \cap (q.todo \cup q.hold) :
          /\ q.op \in Ending
          /\ a # q.new
          /\ asg[a] # None =>
                /\ asg[a].user = q.member /\ asg[a].org = q.org
                /\ q.op \in {"remove_team_member", "remove_role"} => asg[a].team = q.team
    /\ q.op \in {"remove_team_member", "remove_role"} =>
          \A a \in Rows \cap q.hold : asg[a] # None

\* An acceptance has the key of its invitation, holds the invitation once it has written it,
\* and inserts an assignment only if the invitation has none.
AcceptsOnce(q) ==
    q.op = "accept_invitation" =>
        /\ q.team = None
        /\ q.member = inv[q.inv].user /\ q.role = inv[q.inv].role /\ q.org = inv[q.inv].org
        /\ q.pc = "write" => q.todo = {q.inv}
        /\ q.pc # "write" => q.inv \in q.hold
        /\ q.pc = "insert" \/ q.new # None => \A a \in Rows : Live(a) => asg[a].via # q.inv

\* What is inserted under the unique index is not there.
InsertsUnique(q) == q.new # None /\ Indexed(q) => Assigned(q) = {}

InStep(q) ==
    InProgram(q) /\ Informed(q) /\ EndsItsOwn(q) /\ AcceptsOnce(q) /\ InsertsUnique(q)

\* Two requests at the same time: no row is written by both, no id is taken by both, what
\* one inserts the other does not touch, and the unique index tells their keys apart.
SameKey(p, q) ==
    p.member = q.member /\ p.role = q.role /\ p.org = q.org /\ p.team = q.team
Apart(p, q) ==
    /\ p.hold \cap q.hold = {}
    /\ p.new # None => p.new # q.new /\ p.new \notin q.todo \cup q.hold
    /\ q.new # None => q.new \notin p.todo \cup p.hold
    /\ p.op = "create_organization" /\ q.op = "create_organization" => p.org # q.org
    /\ p.op = "create_team" /\ q.op = "create_team" /\ p.team # None => p.team # q.team
    /\ p.op = "invite_member" /\ q.op = "invite_member" /\ p.inv # None => p.inv # q.inv
    /\ p.new # None /\ q.new # None /\ Indexed(p) => ~SameKey(p, q)

\* An assignment that an invitation has made has the key that the invitation names.
ViaKey ==
    \A a \in Rows :
       asg[a] # None /\ asg[a].via # None =>
          LET i == asg[a].via
          IN  /\ inv[i] # None
              /\ asg[a].user = inv[i].user /\ asg[a].role = inv[i].role
              /\ asg[a].org = inv[i].org /\ asg[a].team = None

IInv ==
    /\ TypeOK
    /\ OneTeamAssignment
    /\ InvitationJoinsOnce
    /\ ViaKey
    /\ \A r \in Requests : InStep(req[r])
    /\ \A r, q \in Requests : r # q => Apart(req[r], req[q])

-----------------------------------------------------------------------------
\* None is told from everything else.
LEMMA NoneApart ==
  /\ None \notin Users /\ None \notin Orgs /\ None \notin Teams /\ None \notin Invitations
  /\ None \notin Rows /\ None \notin Routes /\ None \notin RoleNames
  /\ None \notin Organization /\ None \notin Team /\ None \notin Invitation
  /\ None \notin UserRole
  BY NoneAssumption DEF Objects

\* The record of a request that has not begun.
LEMMA IdleFields ==
  /\ Idle \in Request
  /\ Idle.pc = "idle" /\ Idle.op = None /\ Idle.user = None /\ Idle.org = None
  /\ Idle.team = None /\ Idle.inv = None /\ Idle.member = None /\ Idle.role = None
  /\ Idle.todo = {} /\ Idle.hold = {} /\ Idle.new = None
  BY DEF Idle, Request

\* A request that has not begun knows nothing and disturbs nobody.
LEMMA IdleInStep == InStep(Idle) /\ \A q \in Request : Apart(Idle, q)
  BY IdleFields, NoneApart
     DEF InStep, InProgram, Informed, EndsItsOwn, AcceptsOnce, InsertsUnique, Apart, Indexed,
         Routes, OrgRoutes, TeamRoutes, RoleRoutes, InvitationRoutes, Naming, Assigning, Ending

\* Apart is symmetric.
LEMMA ApartSymmetric == ASSUME NEW p, NEW q, Apart(p, q) PROVE Apart(q, p)
  BY DEF Apart, SameKey, Indexed

\* A fresh installation.
LEMMA InitIInv == Init => IInv
  <1> SUFFICES ASSUME Init PROVE IInv OBVIOUS
  <1>1. \A r \in Requests : req[r] = Idle BY DEF Init
  <1>2. PICK first \in Rows :
          asg = [a \in Rows |->
                   IF a # first THEN None
                   ELSE [user |-> Root, role |-> "super_admin", org |-> None, team |-> None,
                         deleted |-> FALSE, via |-> None]]
    BY DEF Init
  <1>3. asg \in [Rows -> UserRole \cup {None}]
    BY <1>2, RootAssumption DEF UserRole, RoleNames
  <1>4. TypeOK BY <1>3, IdleFields DEF Init, TypeOK
  <1>5. OneTeamAssignment /\ InvitationJoinsOnce /\ ViaKey
    BY <1>2 DEF OneTeamAssignment, InvitationJoinsOnce, ViaKey, Live
  <1>6. \A r \in Requests : InStep(req[r]) BY <1>1, IdleInStep
  <1>7. \A r, q \in Requests : Apart(req[r], req[q]) BY <1>1, IdleInStep, IdleFields
  <1>8. QED BY <1>4, <1>5, <1>6, <1>7 DEF IInv

-----------------------------------------------------------------------------
\* What is known of a request is told by its record and the tables.
LEMMA SameTables ==
  ASSUME UNCHANGED tables, NEW r \in Requests, NEW to, req'[r] = to, InStep(to)
  PROVE  InStep(req[r])'
  <1>1. org' = org /\ team' = team /\ inv' = inv /\ asg' = asg BY DEF tables
  <1>2. Informed(req[r])' BY <1>1 DEF InStep, Informed
  <1>3. InProgram(req[r])' BY DEF InStep, InProgram
  <1>4. EndsItsOwn(req[r])' BY <1>1 DEF InStep, EndsItsOwn
  <1>5. AcceptsOnce(req[r])' BY <1>1 DEF InStep, AcceptsOnce, Live
  <1>6. InsertsUnique(req[r])'
    BY <1>1 DEF InStep, InsertsUnique, Indexed, Assigned, HasKey, Live
  <1>7. QED BY <1>2, <1>3, <1>4, <1>5, <1>6 DEF InStep

\* A step of one request that commits nothing keeps the invariant, if the request's new
\* record fits the tables and the other requests.
LEMMA MoveKeepsIInv ==
  ASSUME IInv, NEW r \in Requests, NEW to \in Request, InStep(to),
         \A q \in Requests \ {r} : Apart(to, req[q]),
         req' = [req EXCEPT ![r] = to], UNCHANGED tables
  PROVE  IInv'
  <1>1. org' = org /\ team' = team /\ inv' = inv /\ asg' = asg BY DEF tables
  <1>2. req'[r] = to /\ \A q \in Requests \ {r} : req'[q] = req[q] BY DEF IInv, TypeOK
  <1>3. TypeOK' BY <1>1 DEF IInv, TypeOK
  <1>4. OneTeamAssignment' /\ InvitationJoinsOnce' /\ ViaKey'
    BY <1>1 DEF IInv, OneTeamAssignment, InvitationJoinsOnce, ViaKey, Live
  <1>5. \A q \in Requests : InStep(req[q])' BY <1>2, SameTables DEF IInv
  <1>6. ASSUME NEW p \in Requests, NEW q \in Requests, p # q
        PROVE  Apart(req'[p], req'[q])
    <2>1. CASE p = r BY <1>2, <1>6, <2>1
    <2>2. CASE q = r BY <1>2, <1>6, <2>2, ApartSymmetric
    <2>3. CASE p # r /\ q # r BY <1>2, <1>6, <2>3 DEF IInv
    <2>4. QED BY <2>1, <2>2, <2>3
  <1>7. (\A p, q \in Requests : p # q => Apart(req[p], req[q]))' BY <1>6
  <1>8. QED BY <1>3, <1>4, <1>5, <1>7 DEF IInv

\* A request that ends without a commit.
LEMMA AbortKeepsIInv ==
  ASSUME IInv, NEW r \in Requests, Abort(r)
  PROVE  IInv'
  <1>1. \A q \in Requests : Apart(Idle, req[q]) BY IdleInStep DEF IInv, TypeOK
  <1>2. QED BY <1>1, IdleFields, IdleInStep, MoveKeepsIInv DEF Abort

\* A record that takes no id of its own is apart from the other requests if what it has
\* written nobody else has, and the rows it is going to write are there.
LEMMA StaysApart ==
  ASSUME IInv, NEW r \in Requests, NEW to \in Request,
         \A x \in to.hold : \/ x \in req[r].hold
                            \/ x \in req[r].todo /\ \A q \in Requests \ {r} : x \notin req[q].hold,
         \A x \in to.todo \cap Rows : x \in req[r].todo \/ asg[x] # None,
         to.new # None => to.new = req[r].new /\ SameKey(to, req[r]),
         to.op # "create_organization",
         to.op = "create_team" /\ to.team # None =>
            req[r].op = "create_team" /\ to.team = req[r].team,
         to.op = "invite_member" /\ to.inv # None =>
            req[r].op = "invite_member" /\ to.inv = req[r].inv
  PROVE  \A q \in Requests \ {r} : Apart(to, req[q])
  <1> SUFFICES ASSUME NEW q \in Requests \ {r} PROVE Apart(to, req[q]) OBVIOUS
  <1>1. Apart(req[r], req[q]) /\ req[q] \in Request /\ Informed(req[q])
    BY DEF IInv, TypeOK, InStep
  <1>2. req[q].new # None => req[q].new \in Rows /\ asg[req[q].new] = None
    BY <1>1 DEF Informed, Request
  <1>3. to.hold \cap req[q].hold = {} BY <1>1 DEF Apart
  <1>4. to.new # None => to.new # req[q].new /\ to.new \notin req[q].todo \cup req[q].hold
    BY <1>1 DEF Apart
  <1>5. req[q].new # None => req[q].new \notin to.todo \cup to.hold
    BY <1>1, <1>2 DEF Apart
  <1>6. to.new # None /\ req[q].new # None /\ Indexed(to) => ~SameKey(to, req[q])
    BY <1>1 DEF Apart, SameKey, Indexed
  <1>7. QED BY <1>1, <1>3, <1>4, <1>5, <1>6 DEF Apart

-----------------------------------------------------------------------------
\* A call that names rows, and takes no id.
LEMMA AskKeepsIInv ==
  ASSUME IInv, NEW r \in Requests, NEW to \in Request, InStep(to),
         to.hold = {}, to.new = None, to.op # "create_organization", to.todo \cap Rows = {},
         to.op = "create_team" => to.team = None, to.op = "invite_member" => to.inv = None,
         req' = [req EXCEPT ![r] = to], UNCHANGED tables
  PROVE  IInv'
  <1>1. \A q \in Requests \ {r} : Apart(to, req[q]) BY StaysApart
  <1>2. QED BY <1>1, MoveKeepsIInv

\* A call of a route of an organization, once the permission is there.
LEMMA OrganizationRouteKeepsIInv ==
  ASSUME IInv, NEW r \in Requests, NEW op \in OrgRoutes, NEW u, NEW o \in Orgs,
         NEW m \in Users \cup {None}, NEW role \in RoleNames \cup {None},
         op \in {"update_member_role", "create_team"} => m \in Users /\ role \in RoleNames,
         op = "invite_member" => m \in Users /\ role \in Roles,
         OrganizationRoute(r, op, u, o, m, role)
  PROVE  IInv'
  <1> DEFINE to == [[Idle EXCEPT !.op = op, !.org = o, !.member = m, !.role = role]
                        EXCEPT !.pc = "open"]
  <1>1. /\ to.pc = "open" /\ to.op = op /\ to.org = o /\ to.member = m /\ to.role = role
        /\ to.team = None /\ to.inv = None /\ to.todo = {} /\ to.hold = {} /\ to.new = None
        /\ to.user = None
    BY DEF Idle
  <1>2. to \in Request BY DEF Idle, Request, Routes
  <1>3. req' = [req EXCEPT ![r] = to] /\ UNCHANGED tables BY DEF OrganizationRoute, Begin
  <1> HIDE DEF to
  <1>4. InStep(to)
    BY <1>1, NoneApart
       DEF InStep, InProgram, Informed, EndsItsOwn, AcceptsOnce, InsertsUnique, OrgRoutes,
           TeamRoutes, RoleRoutes, InvitationRoutes, Naming, Assigning, Ending, Routes
  <1>5. QED BY <1>1, <1>2, <1>3, <1>4, AskKeepsIInv DEF OrgRoutes

\* A call of a route of a team.
LEMMA TeamRouteKeepsIInv ==
  ASSUME IInv, NEW r \in Requests, NEW op \in TeamRoutes, NEW u, NEW t \in Teams,
         NEW m \in Users \cup {None}, NEW role \in RoleNames \cup {None},
         op = "add_team_member" => m \in Users /\ role \in RoleNames,
         TeamRoute(r, op, u, t, m, role)
  PROVE  IInv'
  <1> DEFINE to == [[Idle EXCEPT !.op = op, !.team = t, !.member = m, !.role = role]
                        EXCEPT !.pc = "open"]
  <1>1. /\ to.pc = "open" /\ to.op = op /\ to.org = None /\ to.member = m /\ to.role = role
        /\ to.team = t /\ to.inv = None /\ to.todo = {} /\ to.hold = {} /\ to.new = None
        /\ to.user = None
    BY DEF Idle
  <1>2. to \in Request BY DEF Idle, Request, Routes
  <1>3. req' = [req EXCEPT ![r] = to] /\ UNCHANGED tables BY DEF TeamRoute, Begin
  <1> HIDE DEF to
  <1>4. InStep(to)
    BY <1>1, NoneApart
       DEF InStep, InProgram, Informed, EndsItsOwn, AcceptsOnce, InsertsUnique, OrgRoutes,
           TeamRoutes, RoleRoutes, InvitationRoutes, Naming, Assigning, Ending, Routes
  <1>5. QED BY <1>1, <1>2, <1>3, <1>4, AskKeepsIInv DEF TeamRoutes

\* A call of assign_role or remove_role.
LEMMA RoleRouteKeepsIInv ==
  ASSUME IInv, NEW r \in Requests, NEW u, NEW m \in Members, NEW role \in Roles,
         NEW o \in Orgs \cup {None}, NEW t \in Teams \cup {None}, RoleRoute(r, u, m, role, o, t)
  PROVE  IInv'
  <1> DEFINE to(op) == [[Idle EXCEPT !.op = op, !.member = m, !.role = role, !.org = o,
                                     !.team = t] EXCEPT !.pc = "assignment"]
  <1>1. PICK op \in RoleRoutes : req' = [req EXCEPT ![r] = to(op)] /\ UNCHANGED tables
    BY DEF RoleRoute, Begin
  <1>2. /\ to(op).pc = "assignment" /\ to(op).op = op /\ to(op).org = o /\ to(op).member = m
        /\ to(op).role = role /\ to(op).team = t /\ to(op).inv = None /\ to(op).todo = {}
        /\ to(op).hold = {} /\ to(op).new = None /\ to(op).user = None
    BY DEF Idle
  <1>3. to(op) \in Request BY OperationsAssumption DEF Idle, Request, Routes
  <1> HIDE DEF to
  <1>4. InStep(to(op))
    BY <1>2, NoneApart, OperationsAssumption
       DEF InStep, InProgram, Informed, EndsItsOwn, AcceptsOnce, InsertsUnique, OrgRoutes,
           TeamRoutes, RoleRoutes, InvitationRoutes, Naming, Assigning, Ending, Routes
  <1>5. QED BY <1>1, <1>2, <1>3, <1>4, AskKeepsIInv DEF RoleRoutes

\* An acceptance takes its key from the invitation it has read.
LEMMA AcceptInvitationKeepsIInv ==
  ASSUME IInv, NEW r \in Requests, NEW u \in Users, NEW i \in Invitations,
         AcceptInvitation(r, u, i)
  PROVE  IInv'
  <1> DEFINE to == [[Idle EXCEPT !.op = "accept_invitation", !.org = inv[i].org, !.inv = i,
                                 !.member = u, !.role = inv[i].role, !.todo = {i}]
                        EXCEPT !.pc = "write"]
  <1>1. inv[i] # None /\ inv[i] \in Invitation /\ inv[i].user = u
    BY DEF IInv, TypeOK, AcceptInvitation
  <1>2. inv[i].org \in Orgs /\ inv[i].role \in RoleNames
    BY <1>1, OperationsAssumption DEF Invitation
  <1>3. /\ to.pc = "write" /\ to.op = "accept_invitation" /\ to.org = inv[i].org
        /\ to.member = u /\ to.role = inv[i].role /\ to.team = None /\ to.inv = i
        /\ to.todo = {i} /\ to.hold = {} /\ to.new = None /\ to.user = None
    BY DEF Idle
  <1>4. to \in Request BY <1>2 DEF Idle, Request, Routes, InvitationRoutes, Objects
  <1>5. req' = [req EXCEPT ![r] = to] /\ UNCHANGED tables BY DEF AcceptInvitation, Begin
  <1> HIDE DEF to
  <1>6. i \notin Rows BY IdsAssumption
  <1>7. InStep(to)
    BY <1>1, <1>2, <1>3, <1>6, NoneApart
       DEF InStep, InProgram, Informed, EndsItsOwn, AcceptsOnce, InsertsUnique, OrgRoutes,
           TeamRoutes, RoleRoutes, InvitationRoutes, Naming, Assigning, Ending, Routes
  <1>8. QED BY <1>3, <1>4, <1>5, <1>6, <1>7, AskKeepsIInv

\* A revocation names the organization of the invitation it has read.
LEMMA RevokeInvitationKeepsIInv ==
  ASSUME IInv, NEW r \in Requests, NEW u \in Users, NEW i \in Invitations,
         RevokeInvitation(r, u, i)
  PROVE  IInv'
  <1> DEFINE to == [[Idle EXCEPT !.op = "revoke_invitation", !.user = u, !.org = inv[i].org,
                                 !.inv = i, !.todo = {i}] EXCEPT !.pc = "permission"]
  <1>1. inv[i] # None /\ inv[i] \in Invitation BY DEF IInv, TypeOK, RevokeInvitation
  <1>2. inv[i].org \in Orgs BY <1>1 DEF Invitation
  <1>3. /\ to.pc = "permission" /\ to.op = "revoke_invitation" /\ to.org = inv[i].org
        /\ to.member = None /\ to.role = None /\ to.team = None /\ to.inv = i
        /\ to.todo = {i} /\ to.hold = {} /\ to.new = None /\ to.user = u
    BY DEF Idle
  <1>4. to \in Request BY <1>2 DEF Idle, Request, Routes, InvitationRoutes, Objects
  <1>5. req' = [req EXCEPT ![r] = to] /\ UNCHANGED tables BY DEF RevokeInvitation, Begin
  <1> HIDE DEF to
  <1>6. i \notin Rows BY IdsAssumption
  <1>7. InStep(to)
    BY <1>1, <1>3, <1>6, NoneApart
       DEF InStep, InProgram, Informed, EndsItsOwn, AcceptsOnce, InsertsUnique, OrgRoutes,
           TeamRoutes, RoleRoutes, InvitationRoutes, Naming, Assigning, Ending, Routes
  <1>8. QED BY <1>3, <1>4, <1>5, <1>6, <1>7, AskKeepsIInv

\* The new organization and the assignment of its owner have ids that nobody else has.
LEMMA CreateOrganizationKeepsIInv ==
  ASSUME IInv, NEW r \in Requests, NEW u \in Users, CreateOrganization(r, u)
  PROVE  IInv'
  <1> DEFINE to(o, a) == [[Idle EXCEPT !.op = "create_organization", !.org = o, !.member = u,
                                       !.role = "organization_admin", !.new = a]
                              EXCEPT !.pc = "done"]
  <1>1. PICK o \in FreshOrgs, a \in FreshRows :
           req' = [req EXCEPT ![r] = to(o, a)] /\ UNCHANGED tables
    BY DEF CreateOrganization, Begin
  <1>2. /\ o \in Orgs /\ org[o] = None /\ \A q \in Requests : req[q].org # o
        /\ a \in Rows /\ asg[a] = None /\ a # None
        /\ \A q \in Requests : a # req[q].new /\ a \notin req[q].todo \cup req[q].hold
    BY NoneApart DEF FreshOrgs, FreshRows
  <1>3. /\ to(o, a).pc = "done" /\ to(o, a).op = "create_organization" /\ to(o, a).org = o
        /\ to(o, a).member = u /\ to(o, a).role = "organization_admin" /\ to(o, a).team = None
        /\ to(o, a).inv = None /\ to(o, a).todo = {} /\ to(o, a).hold = {}
        /\ to(o, a).new = a /\ to(o, a).user = None
    BY DEF Idle
  <1>4. to(o, a) \in Request BY <1>2 DEF Idle, Request, Routes, RoleNames
  <1> HIDE DEF to
  <1>5. InStep(to(o, a))
    BY <1>2, <1>3, NoneApart
       DEF InStep, InProgram, Informed, EndsItsOwn, AcceptsOnce, InsertsUnique, OrgRoutes,
           TeamRoutes, RoleRoutes, InvitationRoutes, Naming, Assigning, Ending, Routes, Indexed,
           RoleNames
  <1>6. \A q \in Requests \ {r} : Apart(to(o, a), req[q])
    BY <1>2, <1>3 DEF Apart, Indexed
  <1>7. QED BY <1>1, <1>4, <1>5, <1>6, MoveKeepsIInv

\* Every call keeps the invariant.
LEMMA CallKeepsIInv ==
  ASSUME IInv, NEW r \in Requests, Call(r)
  PROVE  IInv'
  <1>1. PICK u \in Users :
       \/ CreateOrganization(r, u)
       \/ \E o \in Orgs :
             \/ ChangeOrganization(r, u, o) \/ CreateTeam(r, u, o)
             \/ \E m \in Members :
                   \/ RemoveMember(r, u, o, m)
                   \/ \E role \in Roles :
                         InviteMember(r, u, o, m, role) \/ UpdateMemberRole(r, u, o, m, role)
       \/ \E t \in Teams :
             \/ ChangeTeam(r, u, t)
             \/ \E m \in Members, role \in Roles :
                   AddTeamMember(r, u, t, m, role) \/ RemoveTeamMember(r, u, t, m, role)
       \/ \E m \in Members, role \in Roles, scope \in Scopes :
             RoleRoute(r, u, m, role, scope[1], scope[2])
       \/ \E i \in Invitations : AcceptInvitation(r, u, i) \/ RevokeInvitation(r, u, i)
    BY DEF Call
  <1> USE OperationsAssumption
  <1>2. CASE CreateOrganization(r, u) BY <1>2, CreateOrganizationKeepsIInv
  <1>3. ASSUME NEW o \in Orgs, ChangeOrganization(r, u, o) \/ CreateTeam(r, u, o) PROVE IInv'
    BY <1>3, OrganizationRouteKeepsIInv
       DEF ChangeOrganization, CreateTeam, OrgRoutes, RoleNames
  <1>4. ASSUME NEW o \in Orgs, NEW m \in Members, RemoveMember(r, u, o, m) PROVE IInv'
    BY <1>4, OrganizationRouteKeepsIInv DEF RemoveMember, OrgRoutes
  <1>5. ASSUME NEW o \in Orgs, NEW m \in Members, NEW role \in Roles,
               InviteMember(r, u, o, m, role) \/ UpdateMemberRole(r, u, o, m, role)
        PROVE IInv'
    BY <1>5, OrganizationRouteKeepsIInv DEF InviteMember, UpdateMemberRole, OrgRoutes
  <1>6. ASSUME NEW t \in Teams, ChangeTeam(r, u, t) PROVE IInv'
    BY <1>6, TeamRouteKeepsIInv DEF ChangeTeam, TeamRoutes
  <1>7. ASSUME NEW t \in Teams, NEW m \in Members, NEW role \in Roles,
               AddTeamMember(r, u, t, m, role) \/ RemoveTeamMember(r, u, t, m, role)
        PROVE IInv'
    BY <1>7, TeamRouteKeepsIInv DEF AddTeamMember, RemoveTeamMember, TeamRoutes
  <1>8. ASSUME NEW m \in Members, NEW role \in Roles, NEW scope \in Scopes,
               RoleRoute(r, u, m, role, scope[1], scope[2])
        PROVE IInv'
    BY <1>8, RoleRouteKeepsIInv, ScopesAssumption
  <1>9. ASSUME NEW i \in Invitations, AcceptInvitation(r, u, i) \/ RevokeInvitation(r, u, i)
        PROVE IInv'
    BY <1>9, AcceptInvitationKeepsIInv, RevokeInvitationKeepsIInv
  <1>10. QED BY <1>1, <1>2, <1>3, <1>4, <1>5, <1>6, <1>7, <1>8, <1>9

-----------------------------------------------------------------------------
\* Moving to another statement changes nothing else of the record.
LEMMA MovedRecord ==
  ASSUME NEW x \in Request, NEW pc \in {"idle", "permission", "open", "list", "assignment",
                                        "write", "insert", "confirm", "done"}
  PROVE  LET y == [x EXCEPT !.pc = pc]
         IN  /\ y \in Request
             /\ y.pc = pc /\ y.op = x.op /\ y.user = x.user /\ y.org = x.org /\ y.team = x.team
             /\ y.inv = x.inv /\ y.member = x.member /\ y.role = x.role /\ y.todo = x.todo
             /\ y.hold = x.hold /\ y.new = x.new
  BY DEF Request

\* revoke_invitation goes on or ends.
LEMMA CheckPermissionKeepsIInv ==
  ASSUME IInv, NEW r \in Requests, CheckPermission(r)
  PROVE  IInv'
  <1> DEFINE to == [req[r] EXCEPT !.pc = "write"]
  <1>1. CASE Abort(r) BY <1>1, AbortKeepsIInv
  <1>2. CASE ~Abort(r)
    <2>1. req' = [req EXCEPT ![r] = to] /\ UNCHANGED tables BY <1>2 DEF CheckPermission
    <2>2. req[r] \in Request /\ InStep(req[r]) /\ req[r].pc = "permission"
      BY DEF IInv, TypeOK, CheckPermission, At
    <2>3. /\ to \in Request /\ to.pc = "write" /\ to.op = req[r].op /\ to.org = req[r].org
          /\ to.team = req[r].team /\ to.inv = req[r].inv /\ to.member = req[r].member
          /\ to.role = req[r].role /\ to.todo = req[r].todo /\ to.hold = req[r].hold
          /\ to.new = req[r].new
      BY <2>2, MovedRecord
    <2> HIDE DEF to
    <2>4. to.op = "revoke_invitation" /\ to.new = None BY <2>2, <2>3 DEF InStep, InProgram
    <2>5. InStep(to)
      BY <2>2, <2>3, <2>4
         DEF InStep, InProgram, Informed, EndsItsOwn, AcceptsOnce, InsertsUnique, OrgRoutes,
             TeamRoutes, RoleRoutes, InvitationRoutes, Naming, Assigning, Ending
    <2>6. \A q \in Requests \ {r} : Apart(to, req[q])
      BY <2>3, <2>4, StaysApart
    <2>7. QED BY <2>1, <2>3, <2>5, <2>6, MoveKeepsIInv
  <1>3. QED BY <1>1, <1>2

\* A route that changes or deletes the organization, or invites, goes on with one that is
\* there; a new team and the assignment of its creator have ids that nobody else has; a
\* change of members goes on only if the member is not the owner.
LEMMA OpenOrganizationKeepsIInv ==
  ASSUME IInv, NEW r \in Requests, OpenOrganization(r)
  PROVE  IInv'
  <1> DEFINE q == req[r]
             go(to) == req' = [req EXCEPT ![r] = to] /\ UNCHANGED tables
  <1>1. /\ q \in Request /\ InStep(q) /\ q.pc = "open" /\ q.op \in OrgRoutes
        /\ q.org \in Orgs /\ q.new = None
    BY DEF IInv, TypeOK, OpenOrganization, At, InStep, InProgram, Informed
  <1>2. CASE Abort(r) BY <1>2, AbortKeepsIInv
  <1>3. CASE ~Abort(r)
    <2>1. org[q.org] # None BY <1>3 DEF OpenOrganization
    <2>2. CASE q.op \in {"update_organization", "delete_organization"}
      <3> DEFINE to == [q EXCEPT !.pc = "write", !.todo = {q.org}]
      <3>1. go(to) BY <1>3, <2>2 DEF OpenOrganization
      <3>2. /\ to \in Request /\ to.pc = "write" /\ to.op = q.op /\ to.org = q.org
            /\ to.team = q.team /\ to.inv = q.inv /\ to.member = q.member /\ to.role = q.role
            /\ to.todo = {q.org} /\ to.hold = q.hold /\ to.new = None
        BY <1>1 DEF Request, Objects
      <3> HIDE DEF to
      <3>3. q.org \notin Rows BY <1>1, IdsAssumption
      <3>4. InStep(to)
        BY <1>1, <2>1, <2>2, <3>2, <3>3
           DEF InStep, InProgram, Informed, EndsItsOwn, AcceptsOnce, InsertsUnique, OrgRoutes,
               TeamRoutes, RoleRoutes, InvitationRoutes, Naming, Assigning, Ending
      <3>5. \A p \in Requests \ {r} : Apart(to, req[p])
        BY <2>2, <3>2, <3>3, StaysApart
      <3>6. QED BY <3>1, <3>2, <3>4, <3>5, MoveKeepsIInv
    <2>3. CASE q.op = "invite_member"
      <3> DEFINE to(i) == [q EXCEPT !.pc = "done", !.inv = i]
      <3>1. PICK i \in FreshInvitations : go(to(i)) BY <1>3, <2>3 DEF OpenOrganization
      <3>2. /\ i \in Invitations /\ inv[i] = None /\ \A p \in Requests : req[p].inv # i
        BY DEF FreshInvitations
      <3>3. /\ to(i) \in Request /\ to(i).pc = "done" /\ to(i).op = q.op /\ to(i).org = q.org
            /\ to(i).team = q.team /\ to(i).inv = i /\ to(i).member = q.member
            /\ to(i).role = q.role /\ to(i).todo = q.todo /\ to(i).hold = q.hold
            /\ to(i).new = None
        BY <1>1, <3>2 DEF Request
      <3> HIDE DEF to
      <3>4. InStep(to(i))
        BY <1>1, <2>1, <2>3, <3>2, <3>3
           DEF InStep, InProgram, Informed, EndsItsOwn, AcceptsOnce, InsertsUnique, OrgRoutes,
               TeamRoutes, RoleRoutes, InvitationRoutes, Naming, Assigning, Ending
      <3>5. ASSUME NEW p \in Requests \ {r} PROVE Apart(to(i), req[p])
        BY <1>1, <2>3, <3>2, <3>3 DEF IInv, Apart
      <3>6. QED BY <3>1, <3>3, <3>4, <3>5, MoveKeepsIInv
    <2>4. CASE q.op = "create_team"
      <3> DEFINE to(t, a) == [q EXCEPT !.pc = "done", !.team = t, !.new = a]
      <3>1. PICK t \in FreshTeams, a \in FreshRows : go(to(t, a))
        BY <1>3, <2>4 DEF OpenOrganization
      <3>2. /\ t \in Teams /\ team[t] = None /\ \A p \in Requests : req[p].team # t
            /\ \A b \in Rows : asg[b] # None => asg[b].team # t
            /\ a \in Rows /\ asg[a] = None
            /\ \A p \in Requests : a # req[p].new /\ a \notin req[p].todo \cup req[p].hold
        BY DEF FreshTeams, FreshRows
      <3>3. /\ to(t, a) \in Request /\ to(t, a).pc = "done" /\ to(t, a).op = q.op
            /\ to(t, a).org = q.org /\ to(t, a).team = t /\ to(t, a).inv = q.inv
            /\ to(t, a).member = q.member /\ to(t, a).role = q.role /\ to(t, a).todo = q.todo
            /\ to(t, a).hold = q.hold /\ to(t, a).new = a
        BY <1>1, <3>2 DEF Request
      <3> HIDE DEF to
      <3>4. a # None BY <3>2, NoneApart
      <3>5. InStep(to(t, a))
        <4>1. Assigned(to(t, a)) = {} BY <3>2, <3>3 DEF Assigned, HasKey, Live
        <4>2. QED
          BY <1>1, <2>1, <2>4, <3>2, <3>3, <3>4, <4>1
             DEF InStep, InProgram, Informed, EndsItsOwn, AcceptsOnce, InsertsUnique,
                 OrgRoutes, TeamRoutes, RoleRoutes, InvitationRoutes, Naming, Assigning, Ending
      <3>6. ASSUME NEW p \in Requests \ {r} PROVE Apart(to(t, a), req[p])
        BY <1>1, <2>4, <3>2, <3>3 DEF IInv, Apart, SameKey
      <3>7. QED BY <3>1, <3>3, <3>5, <3>6, MoveKeepsIInv
    <2>5. CASE q.op \in {"update_member_role", "remove_member"}
      <3> DEFINE to == [q EXCEPT !.pc = "list"]
      <3>1. go(to) /\ ~IsOwner(q.org, q.member) BY <1>3, <2>5 DEF OpenOrganization
      <3>2. /\ to \in Request /\ to.pc = "list" /\ to.op = q.op /\ to.org = q.org
            /\ to.team = q.team /\ to.inv = q.inv /\ to.member = q.member /\ to.role = q.role
            /\ to.todo = q.todo /\ to.hold = q.hold /\ to.new = None
        BY <1>1, MovedRecord
      <3> HIDE DEF to
      <3>3. InStep(to)
        BY <1>1, <2>1, <2>5, <3>1, <3>2
           DEF InStep, InProgram, Informed, EndsItsOwn, AcceptsOnce, InsertsUnique, OrgRoutes,
               TeamRoutes, RoleRoutes, InvitationRoutes, Naming, Assigning, Ending, IsOwner
      <3>4. \A p \in Requests \ {r} : Apart(to, req[p]) BY <2>5, <3>2, StaysApart
      <3>5. QED BY <3>1, <3>2, <3>3, <3>4, MoveKeepsIInv
    <2>6. QED BY <1>1, <2>2, <2>3, <2>4, <2>5 DEF OrgRoutes
  <1>4. QED BY <1>2, <1>3

\* The routes of a team find it, and take its organization.
LEMMA OpenTeamKeepsIInv ==
  ASSUME IInv, NEW r \in Requests, OpenTeam(r)
  PROVE  IInv'
  <1> DEFINE q == req[r]
             go(to) == req' = [req EXCEPT ![r] = to] /\ UNCHANGED tables
  <1>1. /\ q \in Request /\ InStep(q) /\ q.pc = "open" /\ q.op \in TeamRoutes
        /\ q.team \in Teams /\ q.new = None
    BY DEF IInv, TypeOK, OpenTeam, At, InStep, InProgram, Informed
  <1>2. CASE Abort(r) BY <1>2, AbortKeepsIInv
  <1>3. CASE ~Abort(r)
    <2>1. team[q.team] # None /\ team[q.team].org \in Orgs
      BY <1>1, <1>3 DEF OpenTeam, IInv, TypeOK, Team
    <2>2. CASE q.op \in {"update_team", "delete_team"}
      <3> DEFINE to == [q EXCEPT !.pc = "write", !.todo = {q.team}]
      <3>1. go(to) BY <1>3, <2>2 DEF OpenTeam
      <3>2. /\ to \in Request /\ to.pc = "write" /\ to.op = q.op /\ to.org = q.org
            /\ to.team = q.team /\ to.inv = q.inv /\ to.member = q.member /\ to.role = q.role
            /\ to.todo = {q.team} /\ to.hold = q.hold /\ to.new = None
        BY <1>1 DEF Request, Objects
      <3> HIDE DEF to
      <3>3. q.team \notin Rows BY <1>1, IdsAssumption
      <3>4. InStep(to)
        BY <1>1, <2>1, <2>2, <3>2, <3>3
           DEF InStep, InProgram, Informed, EndsItsOwn, AcceptsOnce, InsertsUnique, OrgRoutes,
               TeamRoutes, RoleRoutes, InvitationRoutes, Naming, Assigning, Ending
      <3>5. \A p \in Requests \ {r} : Apart(to, req[p])
        BY <2>2, <3>2, <3>3, StaysApart
      <3>6. QED BY <3>1, <3>2, <3>4, <3>5, MoveKeepsIInv
    <2>3. CASE q.op \in {"add_team_member", "remove_team_member"}
      <3> DEFINE to == [q EXCEPT !.pc = "assignment", !.org = team[q.team].org]
      <3>1. go(to) BY <1>3, <2>3 DEF OpenTeam
      <3>2. /\ to \in Request /\ to.pc = "assignment" /\ to.op = q.op
            /\ to.org = team[q.team].org /\ to.team = q.team /\ to.inv = q.inv
            /\ to.member = q.member /\ to.role = q.role /\ to.todo = q.todo
            /\ to.hold = q.hold /\ to.new = None
        BY <1>1, <2>1 DEF Request
      <3> HIDE DEF to
      <3>3. InStep(to)
        BY <1>1, <2>1, <2>3, <3>2
           DEF InStep, InProgram, Informed, EndsItsOwn, AcceptsOnce, InsertsUnique, OrgRoutes,
               TeamRoutes, RoleRoutes, InvitationRoutes, Naming, Assigning, Ending
      <3>4. \A p \in Requests \ {r} : Apart(to, req[p]) BY <2>3, <3>2, StaysApart
      <3>5. QED BY <3>1, <3>2, <3>3, <3>4, MoveKeepsIInv
    <2>4. QED BY <1>1, <2>2, <2>3 DEF TeamRoutes
  <1>4. QED BY <1>2, <1>3

\* The assignments listed are the member's, in the organization.
LEMMA ListAssignmentsKeepsIInv ==
  ASSUME IInv, NEW r \in Requests, ListAssignments(r)
  PROVE  IInv'
  <1> DEFINE q == req[r]
             found == {a \in Rows : Live(a) /\ asg[a].user = q.member /\ asg[a].org = q.org}
             todo == {a \in found : q.op = "remove_member" \/ asg[a].team = None}
             pc == IF todo = {} THEN AfterWrites(q.op) ELSE "write"
             to == [q EXCEPT !.pc = pc, !.todo = todo]
  <1>1. /\ q \in Request /\ InStep(q) /\ q.pc = "list" /\ q.new = None
        /\ q.op \in {"update_member_role", "remove_member"}
    BY DEF IInv, TypeOK, ListAssignments, At, InStep, InProgram
  <1>2. CASE Abort(r) BY <1>2, AbortKeepsIInv
  <1>3. CASE ~Abort(r)
    <2>1. req' = [req EXCEPT ![r] = to] /\ UNCHANGED tables BY <1>3 DEF ListAssignments
    <2>2. todo \in SUBSET Objects BY DEF Objects
    <2>3. \A a \in todo : /\ a \in Rows /\ asg[a] # None /\ a # None
                          /\ asg[a].user = q.member /\ asg[a].org = q.org
      BY NoneApart DEF Live
    <2> HIDE DEF todo
    <2>4. \/ pc = "write"
          \/ pc = "insert" /\ q.op = "update_member_role"
          \/ pc = "done" /\ q.op = "remove_member"
      BY <1>1 DEF AfterWrites
    <2> HIDE DEF pc
    <2>5. /\ to \in Request /\ to.pc = pc /\ to.op = q.op /\ to.org = q.org
          /\ to.team = q.team /\ to.inv = q.inv /\ to.member = q.member /\ to.role = q.role
          /\ to.todo = todo /\ to.hold = q.hold /\ to.new = None
      BY <1>1, <2>2, <2>4 DEF Request
    <2> HIDE DEF to
    <2>6. InStep(to)
      BY <1>1, <2>3, <2>4, <2>5
         DEF InStep, InProgram, Informed, EndsItsOwn, AcceptsOnce, InsertsUnique, OrgRoutes,
             TeamRoutes, RoleRoutes, InvitationRoutes, Naming, Assigning, Ending
    <2>7. \A p \in Requests \ {r} : Apart(to, req[p])
      BY <1>1, <2>3, <2>5, StaysApart
    <2>8. QED BY <2>1, <2>5, <2>6, <2>7, MoveKeepsIInv
  <1>4. QED BY <1>2, <1>3

\* An acceptance that finds no assignment goes on only if its invitation has made none: one
\* that it has made has the key that is looked for.
LEMMA FindAssignmentKeepsIInv ==
  ASSUME IInv, NEW r \in Requests, FindAssignment(r)
  PROVE  IInv'
  <1> DEFINE q == req[r]
             go(to) == req' = [req EXCEPT ![r] = to] /\ UNCHANGED tables
  <1>1. /\ q \in Request /\ InStep(q) /\ q.pc = "assignment" /\ q.new = None
        /\ q.op \in RoleRoutes \cup {"add_team_member", "remove_team_member",
                                     "accept_invitation"}
    BY DEF IInv, TypeOK, FindAssignment, At, InStep, InProgram
  <1>2. CASE Abort(r) BY <1>2, AbortKeepsIInv
  <1>3. CASE ~Abort(r) /\ Assigned(q) = {}
    <2> DEFINE to == [q EXCEPT !.pc = "insert"]
    <2>1. go(to) /\ q.op \notin {"remove_team_member", "remove_role"}
      BY <1>3 DEF FindAssignment
    <2>2. /\ to \in Request /\ to.pc = "insert" /\ to.op = q.op /\ to.org = q.org
          /\ to.team = q.team /\ to.inv = q.inv /\ to.member = q.member /\ to.role = q.role
          /\ to.todo = q.todo /\ to.hold = q.hold /\ to.new = None
      BY <1>1, MovedRecord
    <2> HIDE DEF to
    <2>3. q.op \in Assigning BY <1>1, <2>1 DEF Assigning, RoleRoutes
    <2>4. q.op = "accept_invitation" => \A a \in Rows : Live(a) => asg[a].via # q.inv
      <3> SUFFICES ASSUME q.op = "accept_invitation", NEW a \in Rows, Live(a),
                          asg[a].via = q.inv
                   PROVE  FALSE
        OBVIOUS
      <3>1. q.inv # None BY <1>1, NoneApart DEF InStep, Informed, InvitationRoutes
      <3>2. HasKey(a, q)
        BY <1>1, <3>1 DEF IInv, ViaKey, Live, HasKey, InStep, AcceptsOnce
      <3>3. QED BY <1>3, <3>2 DEF Assigned
    <2>5. InStep(to)
      BY <1>1, <2>1, <2>2, <2>3, <2>4
         DEF InStep, InProgram, Informed, EndsItsOwn, AcceptsOnce, InsertsUnique, OrgRoutes,
             TeamRoutes, RoleRoutes, InvitationRoutes, Naming, Assigning, Ending
    <2>6. \A p \in Requests \ {r} : Apart(to, req[p])
      BY <2>2, <2>3, StaysApart DEF Assigning
    <2>7. QED BY <2>1, <2>2, <2>5, <2>6, MoveKeepsIInv
  <1>4. ASSUME ~Abort(r), NEW a \in Rows, Assigned(q) = {a},
               q.op \in {"remove_team_member", "remove_role"}
        PROVE  IInv'
    <2> DEFINE found == {a}
               to == [q EXCEPT !.pc = "write", !.todo = found]
    <2>1. go(to) BY <1>4 DEF FindAssignment
    <2> found \in SUBSET Objects BY DEF Objects
    <2> HIDE DEF found
    <2>2. /\ to \in Request /\ to.pc = "write" /\ to.op = q.op /\ to.org = q.org
          /\ to.team = q.team /\ to.inv = q.inv /\ to.member = q.member
          /\ to.role = q.role /\ to.todo = found /\ to.hold = q.hold
          /\ to.new = None
      <3>1. q \in Request /\ q.new = None BY <1>1
      <3>2. QED BY <3>1 DEF Request
    <2> HIDE DEF to
    <2>3. /\ asg[a] # None /\ a # None
          /\ asg[a].user = q.member /\ asg[a].org = q.org /\ asg[a].team = q.team
      BY <1>4, NoneApart DEF Assigned, Live, HasKey
    <2>4. InStep(to)
      BY <1>1, <1>4, <2>2, <2>3
         DEF found, InStep, InProgram, Informed, EndsItsOwn, AcceptsOnce, InsertsUnique, OrgRoutes,
             TeamRoutes, RoleRoutes, InvitationRoutes, Naming, Assigning, Ending
    <2>5. \A p \in Requests \ {r} : Apart(to, req[p])
      BY <1>4, <2>2, <2>3, StaysApart DEF found
    <2>6. QED BY <2>1, <2>2, <2>4, <2>5, MoveKeepsIInv
  <1>5. ASSUME ~Abort(r), NEW a \in Rows, Assigned(q) = {a}, q.op = "accept_invitation"
        PROVE  IInv'
    <2> DEFINE to == [q EXCEPT !.pc = "confirm"]
    <2>1. go(to) BY <1>5 DEF FindAssignment
    <2>2. /\ to \in Request /\ to.pc = "confirm" /\ to.op = q.op /\ to.org = q.org
          /\ to.team = q.team /\ to.inv = q.inv /\ to.member = q.member /\ to.role = q.role
          /\ to.todo = q.todo /\ to.hold = q.hold /\ to.new = None
      BY <1>1, MovedRecord
    <2> HIDE DEF to
    <2>3. InStep(to)
      BY <1>1, <1>5, <2>2
         DEF InStep, InProgram, Informed, EndsItsOwn, AcceptsOnce, InsertsUnique, OrgRoutes,
             TeamRoutes, RoleRoutes, InvitationRoutes, Naming, Assigning, Ending
    <2>4. \A p \in Requests \ {r} : Apart(to, req[p])
      BY <1>5, <2>2, StaysApart
    <2>5. QED BY <2>1, <2>2, <2>3, <2>4, MoveKeepsIInv
  <1>6. QED BY <1>1, <1>2, <1>3, <1>4, <1>5 DEF FindAssignment

\* Writing a row keeps the type of the record.
LEMMA WrittenType ==
  ASSUME NEW x \in Request, NEW pc \in {"write", "insert", "assignment", "done"},
         NEW rest \in SUBSET Objects, NEW held \in SUBSET Objects
  PROVE  [x EXCEPT !.pc = pc, !.todo = rest, !.hold = held] \in Request
  BY Zenon DEF Request

\* A row is written by one request at a time; what a removal from a team or the removal of a
\* role has written is there.
LEMMA WriteKeepsIInv ==
  ASSUME IInv, NEW r \in Requests, Write(r)
  PROVE  IInv'
  <1> DEFINE q == req[r]
  <1>1. q \in Request /\ InStep(q) /\ q.pc = "write" /\ q.new = None
    BY DEF IInv, TypeOK, Write, At, InStep, InProgram
  <1>2. CASE Abort(r) BY <1>2, AbortKeepsIInv
  <1>3. CASE ~Abort(r)
    <2>1. PICK x \in q.todo :
            /\ ~Waits(r, x)
            /\ ~(x \in Rows /\ asg[x] = None /\ q.op \in {"remove_team_member", "remove_role"})
            /\ req' = [req EXCEPT ![r] =
                         [@ EXCEPT !.pc = IF q.todo \ {x} = {} THEN AfterWrites(q.op)
                                          ELSE "write",
                                   !.todo = q.todo \ {x}, !.hold = q.hold \cup {x}]]
            /\ UNCHANGED tables
      BY <1>3 DEF Write
    <2> DEFINE rest == q.todo \ {x}
               held == q.hold \cup {x}
               pc == IF rest = {} THEN AfterWrites(q.op) ELSE "write"
               to == [q EXCEPT !.pc = pc, !.todo = rest, !.hold = held]
    <2>2. req' = [req EXCEPT ![r] = to] /\ UNCHANGED tables BY <2>1
    <2>3. \/ pc = "write" /\ rest # {}
          \/ rest = {} /\ pc = AfterWrites(q.op)
      OBVIOUS
    <2>4. rest \in SUBSET Objects /\ held \in SUBSET Objects BY <1>1 DEF Request
    <2>5. pc \in {"write", "insert", "assignment", "done"} BY DEF AfterWrites
    <2> HIDE DEF rest, held, pc
    <2>6. /\ to \in Request /\ to.pc = pc /\ to.op = q.op /\ to.org = q.org
          /\ to.team = q.team /\ to.inv = q.inv /\ to.member = q.member /\ to.role = q.role
          /\ to.todo = rest /\ to.hold = held /\ to.new = None
      <3>1. q \in Request /\ q.new = None BY <1>1
      <3>2. to \in Request BY <2>4, <2>5, <3>1, WrittenType
      <3>3. QED BY <3>1, <3>2 DEF Request
    <2> HIDE DEF to
    <2>7. InStep(to)
      <3>1. InProgram(to)
        BY <1>1, <2>3, <2>5, <2>6
           DEF InStep, InProgram, AfterWrites, RoleRoutes, Assigning
      <3>2. Informed(to) BY <1>1, <2>3, <2>5, <2>6 DEF InStep, Informed
      <3>3. EndsItsOwn(to) BY <1>1, <2>1, <2>6, NoneApart DEF InStep, EndsItsOwn, rest, held
      <3>4. AcceptsOnce(to)
        BY <1>1, <2>1, <2>3, <2>6 DEF InStep, AcceptsOnce, AfterWrites, rest, held
      <3>5. InsertsUnique(to) BY <2>6 DEF InsertsUnique
      <3>6. QED BY <3>1, <3>2, <3>3, <3>4, <3>5 DEF InStep
    <2>8. \A p \in Requests \ {r} : Apart(to, req[p])
      <3>1. q.op # "create_organization" BY <1>1 DEF InStep, InProgram
      <3>2. \A y \in to.hold : \/ y \in q.hold
                               \/ y \in q.todo /\ \A p \in Requests \ {r} : y \notin req[p].hold
        BY <2>1, <2>6 DEF Waits, held
      <3>3. \A y \in to.todo : y \in q.todo BY <2>6 DEF rest
      <3>4. QED BY <2>6, <3>1, <3>2, <3>3, StaysApart
    <2>9. QED BY <2>2, <2>6, <2>7, <2>8, MoveKeepsIInv
  <1>4. QED BY <1>2, <1>3

\* Under the unique index an assignment is inserted only if nobody has it: neither a row nor
\* a request that has not committed yet.
LEMMA InsertAssignmentKeepsIInv ==
  ASSUME IInv, NEW r \in Requests, InsertAssignment(r)
  PROVE  IInv'
  <1> DEFINE q == req[r]
  <1>1. /\ q \in Request /\ InStep(q) /\ q.pc = "insert" /\ q.new = None
        /\ q.op \in Assigning /\ q.member \in Users /\ q.role \in RoleNames
    BY DEF IInv, TypeOK, InsertAssignment, At, InStep, InProgram, Informed, Naming
  <1>2. CASE Abort(r) BY <1>2, AbortKeepsIInv
  <1>3. CASE ~Abort(r)
    <2> DEFINE pc == IF q.op = "accept_invitation" THEN "confirm" ELSE "done"
               to(a) == [q EXCEPT !.pc = pc, !.new = a]
    <2>1. PICK a \in FreshRows : req' = [req EXCEPT ![r] = to(a)] /\ UNCHANGED tables
      BY <1>3 DEF InsertAssignment, Insert
    <2>2. Indexed(q) => Blockers(r) = {} /\ Assigned(q) = {}
      BY <1>3 DEF InsertAssignment
    <2>3. /\ a \in Rows /\ asg[a] = None /\ a # None
          /\ \A p \in Requests : a # req[p].new /\ a \notin req[p].todo \cup req[p].hold
      BY NoneApart DEF FreshRows
    <2>4. pc \in {"confirm", "done"} /\ (pc = "confirm" <=> q.op = "accept_invitation")
      OBVIOUS
    <2> HIDE DEF pc
    <2>5. /\ to(a) \in Request /\ to(a).pc = pc /\ to(a).op = q.op /\ to(a).org = q.org
          /\ to(a).team = q.team /\ to(a).inv = q.inv /\ to(a).member = q.member
          /\ to(a).role = q.role /\ to(a).todo = q.todo /\ to(a).hold = q.hold
          /\ to(a).new = a
      <3>1. q \in Request /\ a \in Rows /\ pc \in {"confirm", "done"} BY <1>1, <2>3, <2>4
      <3>2. QED BY <3>1 DEF Request
    <2> HIDE DEF to
    <2>6. InStep(to(a))
      <3>1. InProgram(to(a)) BY <1>1, <2>3, <2>4, <2>5 DEF InStep, InProgram
      <3>2. Informed(to(a))
        BY <1>1, <2>3, <2>4, <2>5 DEF InStep, Informed, Naming, Assigning, OrgRoutes
      <3>3. EndsItsOwn(to(a)) BY <1>1, <2>3, <2>5 DEF InStep, EndsItsOwn
      <3>4. AcceptsOnce(to(a)) BY <1>1, <2>4, <2>5 DEF InStep, AcceptsOnce
      <3>5. InsertsUnique(to(a))
        BY <2>2, <2>5 DEF InsertsUnique, Indexed, Assigned, HasKey
      <3>6. QED BY <3>1, <3>2, <3>3, <3>4, <3>5 DEF InStep
    <2>7. ASSUME NEW p \in Requests \ {r} PROVE Apart(to(a), req[p])
      <3>1. Apart(q, req[p]) BY DEF IInv
      <3>2. Indexed(to(a)) /\ req[p].new # None => ~SameKey(to(a), req[p])
        <4>1. ASSUME Indexed(q), req[p].new # None, SameKey(q, req[p]) PROVE FALSE
          <5>1. p \in Blockers(r) BY <4>1 DEF Blockers, SameKey
          <5>2. QED BY <2>2, <4>1, <5>1
        <4>2. QED BY <2>5, <4>1 DEF Indexed, SameKey
      <3>3. QED BY <1>1, <2>3, <2>5, <3>1, <3>2 DEF Apart, Assigning
    <2>8. QED BY <2>1, <2>5, <2>6, <2>7, MoveKeepsIInv
  <1>4. QED BY <1>2, <1>3

\* accept_invitation finds the organization, or ends.
LEMMA ConfirmOrganizationKeepsIInv ==
  ASSUME IInv, NEW r \in Requests, ConfirmOrganization(r)
  PROVE  IInv'
  <1> DEFINE q == req[r]
             to == [q EXCEPT !.pc = "done"]
  <1>1. q \in Request /\ InStep(q) /\ q.pc = "confirm" /\ q.op = "accept_invitation"
    BY DEF IInv, TypeOK, ConfirmOrganization, At, InStep, InProgram
  <1>2. CASE Abort(r) BY <1>2, AbortKeepsIInv
  <1>3. CASE ~Abort(r)
    <2>1. req' = [req EXCEPT ![r] = to] /\ UNCHANGED tables BY <1>3 DEF ConfirmOrganization
    <2>2. /\ to \in Request /\ to.pc = "done" /\ to.op = q.op /\ to.org = q.org
          /\ to.team = q.team /\ to.inv = q.inv /\ to.member = q.member /\ to.role = q.role
          /\ to.todo = q.todo /\ to.hold = q.hold /\ to.new = q.new
      BY <1>1, MovedRecord
    <2> HIDE DEF to
    <2>3. InStep(to)
      BY <1>1, <2>2
         DEF InStep, InProgram, Informed, EndsItsOwn, AcceptsOnce, InsertsUnique, OrgRoutes,
             TeamRoutes, Indexed, Assigned, HasKey
    <2>4. \A p \in Requests \ {r} : Apart(to, req[p])
      <3>1. to.new = q.new /\ SameKey(to, q) BY <2>2 DEF SameKey
      <3>2. \A x \in to.hold : x \in q.hold BY <2>2
      <3>3. \A x \in to.todo : x \in q.todo BY <2>2
      <3>4. QED BY <1>1, <2>2, <3>1, <3>2, <3>3, StaysApart
    <2>5. QED BY <2>1, <2>2, <2>3, <2>4, MoveKeepsIInv
  <1>4. QED BY <1>2, <1>3

-----------------------------------------------------------------------------
(***************************************************************************)
(* What a commit makes of the tables                                       *)
(***************************************************************************)
\* An organization that is there keeps its owner; a new one is that of create_organization.
LEMMA CommittedOrgs ==
  ASSUME IInv, NEW r \in Requests, Commit(r)
  PROVE  /\ org' \in [Orgs -> Organization \cup {None}]
         /\ \A o \in Orgs :
              /\ org[o] # None => org'[o] # None /\ org'[o].owner = org[o].owner
              /\ org[o] = None /\ org'[o] # None =>
                    /\ req[r].op = "create_organization" /\ req[r].org = o
                    /\ org'[o].owner = req[r].member
              /\ req[r].op = "create_organization" /\ req[r].org = o => org'[o] # None
  <1>1. /\ req[r] \in Request /\ Informed(req[r]) /\ req[r].pc = "done"
        /\ org \in [Orgs -> Organization \cup {None}]
    BY DEF IInv, TypeOK, InStep, Commit, At
  <1>2. org' = [o \in Orgs |-> OrgOf(r, o)] BY DEF Commit, Publish
  <1>3. ASSUME NEW o \in Orgs
        PROVE  /\ OrgOf(r, o) \in Organization \cup {None}
               /\ org[o] # None => OrgOf(r, o) # None /\ OrgOf(r, o).owner = org[o].owner
               /\ org[o] = None /\ OrgOf(r, o) # None =>
                    /\ req[r].op = "create_organization" /\ req[r].org = o
                    /\ OrgOf(r, o).owner = req[r].member
               /\ req[r].op = "create_organization" /\ req[r].org = o => OrgOf(r, o) # None
    <2>1. CASE req[r].org = o /\ req[r].op = "create_organization"
      <3>1. OrgOf(r, o) = [owner |-> req[r].member, deleted |-> FALSE] BY <2>1 DEF OrgOf
      <3>2. req[r].member \in Users /\ org[o] = None BY <1>1, <2>1 DEF Informed, Naming
      <3>3. /\ [owner |-> req[r].member, deleted |-> FALSE] \in Organization
            /\ [owner |-> req[r].member, deleted |-> FALSE].owner = req[r].member
        BY <3>2 DEF Organization
      <3>4. /\ OrgOf(r, o) \in Organization /\ OrgOf(r, o) # None
            /\ OrgOf(r, o).owner = req[r].member
        BY <3>1, <3>3, NoneApart
      <3>5. QED BY <2>1, <3>2, <3>4
    <2>2. CASE req[r].org = o /\ req[r].op = "delete_organization"
      <3>1. OrgOf(r, o) = [org[o] EXCEPT !.deleted = TRUE] BY <2>2 DEF OrgOf
      <3>2. org[o] # None /\ org[o] \in Organization
        BY <1>1, <2>2 DEF Informed, OrgRoutes
      <3>3. /\ [org[o] EXCEPT !.deleted = TRUE] \in Organization
            /\ [org[o] EXCEPT !.deleted = TRUE].owner = org[o].owner
        BY <3>2 DEF Organization
      <3>4. QED BY <2>2, <3>1, <3>2, <3>3, NoneApart
    <2>3. CASE ~(req[r].org = o /\ req[r].op \in {"create_organization", "delete_organization"})
      <3>1. OrgOf(r, o) = org[o] BY <2>3 DEF OrgOf
      <3>2. QED BY <1>1, <2>3, <3>1
    <2>4. QED BY <2>1, <2>2, <2>3
  <1>4. QED BY <1>2, <1>3

\* A team that is there keeps its organization; a new one is that of create_team.
LEMMA CommittedTeams ==
  ASSUME IInv, NEW r \in Requests, Commit(r)
  PROVE  /\ team' \in [Teams -> Team \cup {None}]
         /\ \A t \in Teams :
              /\ team[t] # None => team'[t] # None /\ team'[t].org = team[t].org
              /\ team[t] = None /\ team'[t] # None =>
                    /\ req[r].op = "create_team" /\ req[r].team = t
                    /\ team'[t].org = req[r].org
  <1>1. /\ req[r] \in Request /\ Informed(req[r]) /\ req[r].pc = "done"
        /\ team \in [Teams -> Team \cup {None}]
    BY DEF IInv, TypeOK, InStep, Commit, At
  <1>2. team' = [t \in Teams |-> TeamOf(r, t)] BY DEF Commit, Publish
  <1>3. ASSUME NEW t \in Teams
        PROVE  /\ TeamOf(r, t) \in Team \cup {None}
               /\ team[t] # None => TeamOf(r, t) # None /\ TeamOf(r, t).org = team[t].org
               /\ team[t] = None /\ TeamOf(r, t) # None =>
                    /\ req[r].op = "create_team" /\ req[r].team = t
                    /\ TeamOf(r, t).org = req[r].org
    <2>1. CASE req[r].team = t /\ req[r].op = "create_team"
      <3>1. TeamOf(r, t) = [org |-> req[r].org, deleted |-> FALSE] BY <2>1 DEF TeamOf
      <3>2. req[r].org \in Orgs /\ team[t] = None BY <1>1, <2>1 DEF Informed, OrgRoutes
      <3>3. [org |-> req[r].org, deleted |-> FALSE] \in Team BY <3>2 DEF Team
      <3>4. QED BY <2>1, <3>1, <3>2, <3>3, NoneApart
    <2>2. CASE req[r].team = t /\ req[r].op = "delete_team"
      <3>1. TeamOf(r, t) = [team[t] EXCEPT !.deleted = TRUE] BY <2>2 DEF TeamOf
      <3>2. team[t] # None /\ team[t] \in Team BY <1>1, <2>2 DEF Informed, TeamRoutes
      <3>3. /\ [team[t] EXCEPT !.deleted = TRUE] \in Team
            /\ [team[t] EXCEPT !.deleted = TRUE].org = team[t].org
        BY <3>2 DEF Team
      <3>4. QED BY <2>2, <3>1, <3>2, <3>3, NoneApart
    <2>3. CASE ~(req[r].team = t /\ req[r].op \in {"create_team", "delete_team"})
      <3>1. TeamOf(r, t) = team[t] BY <2>3 DEF TeamOf
      <3>2. QED BY <1>1, <2>3, <3>1
    <2>4. QED BY <2>1, <2>2, <2>3
  <1>4. QED BY <1>2, <1>3

\* An invitation that is there keeps all but its status; a new one is that of invite_member.
LEMMA CommittedInvitations ==
  ASSUME IInv, NEW r \in Requests, Commit(r)
  PROVE  /\ inv' \in [Invitations -> Invitation \cup {None}]
         /\ \A i \in Invitations :
              /\ inv[i] # None =>
                    /\ inv'[i] # None /\ inv'[i].org = inv[i].org
                    /\ inv'[i].user = inv[i].user /\ inv'[i].role = inv[i].role
              /\ inv[i] = None /\ inv'[i] # None =>
                    /\ req[r].op = "invite_member" /\ req[r].inv = i
                    /\ inv'[i].org = req[r].org
  <1>1. /\ req[r] \in Request /\ Informed(req[r]) /\ req[r].pc = "done"
        /\ inv \in [Invitations -> Invitation \cup {None}]
    BY DEF IInv, TypeOK, InStep, Commit, At
  <1>2. inv' = [i \in Invitations |-> InvOf(r, i)] BY DEF Commit, Publish
  <1>3. ASSUME NEW i \in Invitations
        PROVE  /\ InvOf(r, i) \in Invitation \cup {None}
               /\ inv[i] # None =>
                    /\ InvOf(r, i) # None /\ InvOf(r, i).org = inv[i].org
                    /\ InvOf(r, i).user = inv[i].user /\ InvOf(r, i).role = inv[i].role
               /\ inv[i] = None /\ InvOf(r, i) # None =>
                    /\ req[r].op = "invite_member" /\ req[r].inv = i
                    /\ InvOf(r, i).org = req[r].org
    <2>1. CASE req[r].inv = i /\ req[r].op = "invite_member"
      <3>1. InvOf(r, i) = [org |-> req[r].org, user |-> req[r].member, role |-> req[r].role,
                           status |-> "pending"]
        BY <2>1 DEF InvOf
      <3>2. /\ req[r].org \in Orgs /\ req[r].member \in Users /\ req[r].role \in Roles
            /\ inv[i] = None
        BY <1>1, <2>1 DEF Informed, OrgRoutes
      <3>3. [org |-> req[r].org, user |-> req[r].member, role |-> req[r].role,
             status |-> "pending"] \in Invitation
        BY <3>2 DEF Invitation
      <3>4. QED BY <2>1, <3>1, <3>2, <3>3, NoneApart
    <2>2. ASSUME NEW status \in {"accepted", "revoked"},
                 InvOf(r, i) = [inv[i] EXCEPT !.status = status],
                 req[r].inv = i, req[r].op \in InvitationRoutes
          PROVE  /\ InvOf(r, i) \in Invitation /\ inv[i] # None
                 /\ InvOf(r, i).org = inv[i].org
                 /\ InvOf(r, i).user = inv[i].user /\ InvOf(r, i).role = inv[i].role
      <3>1. inv[i] # None /\ inv[i] \in Invitation BY <1>1, <2>2 DEF Informed
      <3>2. /\ [inv[i] EXCEPT !.status = status] \in Invitation
            /\ [inv[i] EXCEPT !.status = status].org = inv[i].org
            /\ [inv[i] EXCEPT !.status = status].user = inv[i].user
            /\ [inv[i] EXCEPT !.status = status].role = inv[i].role
        BY <3>1 DEF Invitation
      <3>3. QED BY <2>2, <3>1, <3>2
    <2>3. CASE req[r].inv = i /\ req[r].op \in InvitationRoutes
      <3>1. InvOf(r, i) \in {[inv[i] EXCEPT !.status = "accepted"],
                             [inv[i] EXCEPT !.status = "revoked"]}
        BY <2>3 DEF InvOf, InvitationRoutes
      <3>2. QED BY <2>2, <2>3, <3>1, NoneApart
    <2>4. CASE ~(req[r].inv = i /\ req[r].op \in InvitationRoutes \cup {"invite_member"})
      <3>1. InvOf(r, i) = inv[i] BY <2>4 DEF InvOf, InvitationRoutes
      <3>2. QED BY <1>1, <2>4, <3>1
    <2>5. QED BY <2>1, <2>3, <2>4
  <1>4. QED BY <1>2, <1>3

\* The assignment that request q inserts.
Inserted(q) ==
  [user |-> q.member, role |-> q.role, org |-> q.org, team |-> q.team, deleted |-> FALSE,
   via |-> IF q.op = "accept_invitation" THEN q.inv ELSE None]

\* Of the assignments, the request's own is new; those it holds are gone or deleted; the
\* others stay.
LEMMA CommittedAssignments ==
  ASSUME IInv, NEW r \in Requests, Commit(r)
  PROVE  /\ asg' \in [Rows -> UserRole \cup {None}]
         /\ \A a \in Rows :
              /\ a = req[r].new => /\ asg[a] = None /\ asg'[a] = Inserted(req[r])
                                   /\ asg'[a] # None
              /\ a # req[r].new /\ a \notin req[r].hold => asg'[a] = asg[a]
              /\ a # req[r].new /\ a \in req[r].hold =>
                    \/ asg'[a] = None
                    \/ /\ asg[a] # None /\ asg'[a] = [asg[a] EXCEPT !.deleted = TRUE]
                       /\ asg'[a] # None /\ asg'[a].deleted
                       /\ \A f \in {"user", "role", "org", "team", "via"} :
                             asg'[a][f] = asg[a][f]
  <1> DEFINE q == req[r]
  <1>1. /\ q \in Request /\ InStep(q) /\ asg \in [Rows -> UserRole \cup {None}]
    BY DEF IInv, TypeOK
  <1>2. asg' = [a \in Rows |-> AsgOf(r, a)] BY DEF Commit, Publish
  <1>3. ASSUME NEW a \in Rows, a = q.new
        PROVE  AsgOf(r, a) = Inserted(q) /\ AsgOf(r, a) \in UserRole /\ asg[a] = None
    <2>1. AsgOf(r, a) = Inserted(q) BY <1>3 DEF AsgOf, Inserted
    <2>2. q.new # None BY <1>3, NoneApart
    <2>3. q.member \in Users /\ q.role \in RoleNames /\ asg[a] = None
      BY <1>1, <1>3, <2>2 DEF InStep, Informed
    <2>4. q.org \in Orgs \cup {None} /\ q.team \in Teams \cup {None}
          /\ q.inv \in Invitations \cup {None}
      BY <1>1 DEF Request
    <2>5. Inserted(q) \in UserRole BY <2>3, <2>4 DEF Inserted, UserRole
    <2>6. QED BY <2>1, <2>3, <2>5
  <1>4. ASSUME NEW a \in Rows, a # q.new, a \notin q.hold PROVE AsgOf(r, a) = asg[a]
    BY <1>4 DEF AsgOf
  <1>5. ASSUME NEW a \in Rows, a # q.new, a \in q.hold
        PROVE  \/ AsgOf(r, a) = None
               \/ /\ asg[a] # None /\ AsgOf(r, a) = [asg[a] EXCEPT !.deleted = TRUE]
                  /\ AsgOf(r, a) \in UserRole /\ AsgOf(r, a).deleted
                  /\ \A f \in {"user", "role", "org", "team", "via"} :
                        AsgOf(r, a)[f] = asg[a][f]
    <2>1. q.op \in Ending BY <1>1, <1>5 DEF InStep, EndsItsOwn
    <2>2. CASE q.op \in {"update_member_role", "remove_member"}
      BY <1>5, <2>2 DEF AsgOf
    <2>3. CASE q.op \in {"remove_team_member", "remove_role"}
      <3>1. asg[a] \in UserRole /\ asg[a] # None
        BY <1>1, <1>5, <2>3 DEF InStep, EndsItsOwn
      <3>2. AsgOf(r, a) = [asg[a] EXCEPT !.deleted = TRUE] BY <1>5, <2>3 DEF AsgOf
      <3>3. /\ [asg[a] EXCEPT !.deleted = TRUE] \in UserRole
            /\ [asg[a] EXCEPT !.deleted = TRUE].deleted
            /\ \A f \in {"user", "role", "org", "team", "via"} :
                  [asg[a] EXCEPT !.deleted = TRUE][f] = asg[a][f]
        BY <3>1 DEF UserRole
      <3>4. QED BY <3>1, <3>2, <3>3
    <2>4. QED BY <2>1, <2>2, <2>3 DEF Ending
  <1>6. ASSUME NEW a \in Rows PROVE AsgOf(r, a) \in UserRole \cup {None}
    BY <1>1, <1>3, <1>4, <1>5
  <1>7. asg' \in [Rows -> UserRole \cup {None}] BY <1>2, <1>6
  <1>8. QED BY <1>2, <1>3, <1>4, <1>5, <1>7, NoneApart

-----------------------------------------------------------------------------
\* An assignment that is there after a commit is the one inserted, or was there with the
\* same columns.
LEMMA ThereAfterCommit ==
  ASSUME IInv, NEW r \in Requests, Commit(r), NEW a \in Rows, asg'[a] # None
  PROVE  \/ a = req[r].new /\ req[r].new # None /\ asg'[a] = Inserted(req[r])
         \/ /\ a # req[r].new /\ asg[a] # None
            /\ asg'[a].user = asg[a].user /\ asg'[a].role = asg[a].role
            /\ asg'[a].org = asg[a].org /\ asg'[a].team = asg[a].team
            /\ asg'[a].via = asg[a].via
  BY CommittedAssignments, NoneApart

\* A current assignment after a commit is the one inserted, or was current before.
LEMMA LiveAfterCommit ==
  ASSUME IInv, NEW r \in Requests, Commit(r), NEW a \in Rows, Live(a)'
  PROVE  \/ a = req[r].new /\ req[r].new # None /\ asg'[a] = Inserted(req[r])
         \/ a # req[r].new /\ Live(a) /\ asg'[a] = asg[a]
  <1>1. asg'[a] # None /\ ~asg'[a].deleted BY DEF Live
  <1>2. CASE a = req[r].new BY <1>2, CommittedAssignments, NoneApart
  <1>3. CASE a # req[r].new
    <2>1. asg'[a] = asg[a] BY <1>1, <1>3, CommittedAssignments
    <2>2. QED BY <1>1, <1>3, <2>1 DEF Live
  <1>4. QED BY <1>2, <1>3

\* The columns of the assignment that is inserted.
LEMMA InsertedFields ==
  ASSUME NEW q
  PROVE  /\ Inserted(q).user = q.member /\ Inserted(q).role = q.role
         /\ Inserted(q).org = q.org /\ Inserted(q).team = q.team
         /\ Inserted(q).deleted = FALSE
         /\ Inserted(q).via = IF q.op = "accept_invitation" THEN q.inv ELSE None
  BY DEF Inserted

\* A commit leaves the records of the other requests.
LEMMA CommittedRequests ==
  ASSUME IInv, NEW r \in Requests, Commit(r)
  PROVE  req'[r] = Idle /\ \A q \in Requests \ {r} : req'[q] = req[q]
  BY DEF IInv, TypeOK, Commit

\* Types and foreign keys after a commit.
LEMMA CommitTypeOK ==
  ASSUME IInv, NEW r \in Requests, Commit(r) PROVE TypeOK'
  <1>1. TypeOK /\ req[r] \in Request /\ Informed(req[r]) /\ req[r].pc = "done"
    BY DEF IInv, TypeOK, InStep, Commit, At
  <1>2. req' \in [Requests -> Request] BY <1>1, IdleFields DEF Commit, TypeOK
  <1>3. ASSUME NEW t \in Teams, team'[t] # None PROVE org'[team'[t].org] # None
    <2>1. CASE team[t] # None
      <3>1. team[t].org \in Orgs /\ org[team[t].org] # None BY <1>1, <2>1 DEF TypeOK, Team
      <3>2. QED BY <2>1, <3>1, CommittedTeams, CommittedOrgs
    <2>2. CASE team[t] = None
      <3>1. req[r].op = "create_team" /\ team'[t].org = req[r].org
        BY <1>3, <2>2, CommittedTeams
      <3>2. req[r].org \in Orgs /\ org[req[r].org] # None
        BY <1>1, <3>1 DEF Informed, OrgRoutes
      <3>3. QED BY <3>1, <3>2, CommittedOrgs
    <2>3. QED BY <2>1, <2>2
  <1>4. ASSUME NEW i \in Invitations, inv'[i] # None PROVE org'[inv'[i].org] # None
    <2>1. CASE inv[i] # None
      <3>1. inv[i].org \in Orgs /\ org[inv[i].org] # None
        BY <1>1, <2>1 DEF TypeOK, Invitation
      <3>2. QED BY <2>1, <3>1, CommittedInvitations, CommittedOrgs
    <2>2. CASE inv[i] = None
      <3>1. req[r].op = "invite_member" /\ inv'[i].org = req[r].org
        BY <1>4, <2>2, CommittedInvitations
      <3>2. req[r].org \in Orgs /\ org[req[r].org] # None
        BY <1>1, <3>1 DEF Informed, OrgRoutes
      <3>3. QED BY <3>1, <3>2, CommittedOrgs
    <2>3. QED BY <2>1, <2>2
  <1>5. QED
    BY <1>2, <1>3, <1>4, CommittedOrgs, CommittedTeams, CommittedInvitations,
       CommittedAssignments
    DEF TypeOK

\* A commit inserts no second assignment to a team: the unique index has been asked.
LEMMA CommitOneTeamAssignment ==
  ASSUME IInv, NEW r \in Requests, Commit(r) PROVE OneTeamAssignment'
  <1> DEFINE q == req[r]
  <1>1. OneTeamAssignment /\ InsertsUnique(q) BY DEF IInv, InStep
  <1>2. ASSUME NEW a \in Rows, NEW b \in Rows, Live(a)', Live(b)',
               asg'[a].org # None, asg'[a].team # None, a = q.new, b # q.new,
               asg'[a].user = asg'[b].user, asg'[a].role = asg'[b].role,
               asg'[a].org = asg'[b].org, asg'[a].team = asg'[b].team
        PROVE  FALSE
    <2>1. q.new # None /\ asg'[a] = Inserted(q) BY <1>2, LiveAfterCommit
    <2>2. Live(b) /\ asg'[b] = asg[b] BY <1>2, LiveAfterCommit
    <2>3. /\ asg'[a].user = q.member /\ asg'[a].role = q.role
          /\ asg'[a].org = q.org /\ asg'[a].team = q.team
      BY <2>1, InsertedFields
    <2>4. HasKey(b, q) BY <1>2, <2>2, <2>3 DEF HasKey
    <2>5. Indexed(q) BY <1>2, <2>3 DEF Indexed
    <2>6. QED BY <1>1, <2>1, <2>2, <2>4, <2>5 DEF InsertsUnique, Assigned
  <1>3. ASSUME NEW a \in Rows, NEW b \in Rows, Live(a)', Live(b)',
               asg'[a].org # None, asg'[a].team # None,
               asg'[a].user = asg'[b].user, asg'[a].role = asg'[b].role,
               asg'[a].org = asg'[b].org, asg'[a].team = asg'[b].team
        PROVE  a = b
    <2>1. CASE a = q.new BY <1>2, <1>3, <2>1
    <2>2. CASE b = q.new BY <1>2, <1>3, <2>2
    <2>3. CASE a # q.new /\ b # q.new
      <3>1. Live(a) /\ asg'[a] = asg[a] /\ Live(b) /\ asg'[b] = asg[b]
        BY <1>3, <2>3, LiveAfterCommit
      <3>2. QED BY <1>1, <1>3, <3>1 DEF OneTeamAssignment
    <2>4. QED BY <2>1, <2>2, <2>3
  <1>4. QED BY <1>3 DEF OneTeamAssignment

\* A commit makes a user a member by an invitation that has made nobody one.
LEMMA CommitInvitationJoinsOnce ==
  ASSUME IInv, NEW r \in Requests, Commit(r) PROVE InvitationJoinsOnce'
  <1> DEFINE q == req[r]
  <1>1. InvitationJoinsOnce /\ AcceptsOnce(q) BY DEF IInv, InStep
  <1>2. ASSUME NEW a \in Rows, NEW b \in Rows, Live(a)', Live(b)', a = q.new, b # q.new,
               asg'[a].via # None, asg'[a].via = asg'[b].via
        PROVE  FALSE
    <2>1. q.new # None /\ asg'[a] = Inserted(q) BY <1>2, LiveAfterCommit
    <2>2. Live(b) /\ asg'[b] = asg[b] BY <1>2, LiveAfterCommit
    <2>3. q.op = "accept_invitation" /\ asg[b].via = q.inv
      BY <1>2, <2>1, <2>2, InsertedFields
    <2>4. QED BY <1>1, <2>1, <2>2, <2>3 DEF AcceptsOnce
  <1>3. ASSUME NEW a \in Rows, NEW b \in Rows, Live(a)', Live(b)',
               asg'[a].via # None, asg'[a].via = asg'[b].via
        PROVE  a = b
    <2>1. CASE a = q.new BY <1>2, <1>3, <2>1
    <2>2. CASE b = q.new BY <1>2, <1>3, <2>2
    <2>3. CASE a # q.new /\ b # q.new
      <3>1. Live(a) /\ asg'[a] = asg[a] /\ Live(b) /\ asg'[b] = asg[b]
        BY <1>3, <2>3, LiveAfterCommit
      <3>2. QED BY <1>1, <1>3, <3>1 DEF InvitationJoinsOnce
    <2>4. QED BY <2>1, <2>2, <2>3
  <1>4. QED BY <1>3 DEF InvitationJoinsOnce

\* A commit inserts an assignment of an invitation with the key that the invitation names.
LEMMA CommitViaKey ==
  ASSUME IInv, NEW r \in Requests, Commit(r) PROVE ViaKey'
  <1> DEFINE q == req[r]
  <1>1. ViaKey /\ AcceptsOnce(q) /\ Informed(q) BY DEF IInv, InStep
  <1>2. asg \in [Rows -> UserRole \cup {None}] BY DEF IInv, TypeOK
  <1>3. SUFFICES ASSUME NEW a \in Rows, asg'[a] # None, asg'[a].via # None
                 PROVE  LET i == asg'[a].via
                        IN  /\ inv'[i] # None
                            /\ asg'[a].user = inv'[i].user /\ asg'[a].role = inv'[i].role
                            /\ asg'[a].org = inv'[i].org /\ asg'[a].team = None
    BY DEF ViaKey
  <1>4. CASE a = q.new /\ q.new # None /\ asg'[a] = Inserted(q)
    <2>1. q.op = "accept_invitation" /\ asg'[a].via = q.inv BY <1>3, <1>4, InsertedFields
    <2>2. q.inv \in Invitations /\ inv[q.inv] # None
      BY <1>1, <2>1 DEF Informed, InvitationRoutes
    <2>3. /\ q.member = inv[q.inv].user /\ q.role = inv[q.inv].role
          /\ q.org = inv[q.inv].org /\ q.team = None
      BY <1>1, <2>1 DEF AcceptsOnce
    <2>4. /\ asg'[a].user = q.member /\ asg'[a].role = q.role
          /\ asg'[a].org = q.org /\ asg'[a].team = q.team
      BY <1>4, InsertedFields
    <2>5. /\ inv'[q.inv] # None /\ inv'[q.inv].user = inv[q.inv].user
          /\ inv'[q.inv].role = inv[q.inv].role /\ inv'[q.inv].org = inv[q.inv].org
      BY <2>2, CommittedInvitations
    <2>6. QED BY <2>1, <2>3, <2>4, <2>5
  <1>5. CASE a # q.new
    <2>1. /\ asg[a] # None
          /\ asg'[a].user = asg[a].user /\ asg'[a].role = asg[a].role
          /\ asg'[a].org = asg[a].org /\ asg'[a].team = asg[a].team
          /\ asg'[a].via = asg[a].via
      BY <1>3, <1>5, ThereAfterCommit
    <2>2. asg[a].via \in Invitations BY <1>2, <1>3, <2>1 DEF UserRole
    <2>3. QED BY <1>1, <1>3, <2>1, <2>2, CommittedInvitations DEF ViaKey
  <1>6. QED BY <1>3, <1>4, <1>5, ThereAfterCommit

\* What another request knows stays true.
LEMMA CommitInformed ==
  ASSUME IInv, NEW r \in Requests, Commit(r), NEW q \in Request, Informed(q), Apart(req[r], q)
  PROVE  Informed(q)'
  <1> DEFINE p == req[r]
  <1>1. q.op = "create_organization" => org'[q.org] = None
    BY CommittedOrgs DEF Informed, Apart
  <1>2. q.op \in OrgRoutes /\ q.pc # "open" =>
          org'[q.org] # None /\ org'[q.org].owner = org[q.org].owner
    BY CommittedOrgs DEF Informed
  <1>3. q.op = "create_team" /\ q.pc # "open" => team'[q.team] = None
    BY CommittedTeams, NoneApart DEF Informed, Apart
  <1>4. q.op = "invite_member" /\ q.pc # "open" => inv'[q.inv] = None
    BY CommittedInvitations, NoneApart DEF Informed, Apart
  <1>5. q.op \in TeamRoutes /\ q.pc # "open" => team'[q.team] # None
    BY CommittedTeams DEF Informed
  <1>6. q.op \in InvitationRoutes => inv'[q.inv] # None
    BY CommittedInvitations DEF Informed
  <1>7. q.new # None => asg'[q.new] = None
    <2>1. q.new \in Rows \cup {None} BY DEF Request
    <2>2. QED BY <2>1, CommittedAssignments DEF Informed, Apart
  <1>8. q.op \in {"update_member_role", "remove_member"} /\ q.pc # "open" =>
          org'[q.org].owner # q.member
    BY <1>2 DEF Informed, OrgRoutes
  <1>9. QED BY <1>1, <1>2, <1>3, <1>4, <1>5, <1>6, <1>7, <1>8 DEF Informed

\* What another request ends is still its own, and there if it has written it.
LEMMA CommitEndsItsOwn ==
  ASSUME IInv, NEW r \in Requests, Commit(r), NEW q \in Request, EndsItsOwn(q), Apart(req[r], q)
  PROVE  EndsItsOwn(q)'
  <1> DEFINE p == req[r]
  <1>1. ASSUME NEW a \in Rows \cap (q.todo \cup q.hold), asg'[a] # None
        PROVE  /\ asg'[a].user = q.member /\ asg'[a].org = q.org
               /\ q.op \in {"remove_team_member", "remove_role"} => asg'[a].team = q.team
    <2>1. ~(a = p.new /\ p.new # None) BY <1>1 DEF Apart
    <2>2. /\ asg[a] # None
          /\ asg'[a].user = asg[a].user
          /\ asg'[a].org = asg[a].org /\ asg'[a].team = asg[a].team
      BY <1>1, <2>1, ThereAfterCommit
    <2>3. QED BY <1>1, <2>2 DEF EndsItsOwn
  <1>2. ASSUME q.op \in {"remove_team_member", "remove_role"}, NEW a \in Rows \cap q.hold
        PROVE  asg'[a] # None
    <2>1. a # p.new /\ a \notin p.hold BY <1>2, NoneApart DEF Apart
    <2>2. asg'[a] = asg[a] BY <2>1, CommittedAssignments
    <2>3. QED BY <1>2, <2>2 DEF EndsItsOwn
  <1>3. QED BY <1>1, <1>2 DEF EndsItsOwn

\* Another acceptance still has an invitation that has made nobody a member: had this one
\* the same invitation, both would hold it.
LEMMA CommitAcceptsOnce ==
  ASSUME IInv, NEW r \in Requests, Commit(r), NEW q \in Request,
         InProgram(q), Informed(q), AcceptsOnce(q), Apart(req[r], q)
  PROVE  AcceptsOnce(q)'
  <1> DEFINE p == req[r]
  <1> SUFFICES ASSUME q.op = "accept_invitation" PROVE AcceptsOnce(q)' BY DEF AcceptsOnce
  <1>1. AcceptsOnce(p) /\ p.pc = "done" BY DEF IInv, InStep, Commit, At
  <1>2. q.inv \in Invitations /\ inv[q.inv] # None BY DEF Informed, InvitationRoutes
  <1>3. /\ inv'[q.inv].user = inv[q.inv].user /\ inv'[q.inv].role = inv[q.inv].role
        /\ inv'[q.inv].org = inv[q.inv].org
    BY <1>2, CommittedInvitations
  <1>4. ASSUME q.pc = "insert" \/ q.new # None, NEW a \in Rows, Live(a)'
        PROVE  asg'[a].via # q.inv
    <2>1. CASE a = p.new /\ p.new # None /\ asg'[a] = Inserted(p)
      <3>1. SUFFICES ASSUME asg'[a].via = q.inv PROVE FALSE OBVIOUS
      <3>2. p.op = "accept_invitation" /\ p.inv = q.inv
        BY <1>2, <2>1, <3>1, InsertedFields, NoneApart
      <3>3. p.inv \in p.hold BY <1>1, <3>2 DEF AcceptsOnce
      <3>4. q.pc # "write" BY <1>4 DEF InProgram
      <3>5. q.inv \in q.hold BY <3>4 DEF AcceptsOnce
      <3>6. QED BY <3>2, <3>3, <3>5 DEF Apart
    <2>2. CASE Live(a) /\ asg'[a] = asg[a] BY <1>4, <2>2 DEF AcceptsOnce
    <2>3. QED BY <1>4, <2>1, <2>2, LiveAfterCommit
  <1>5. QED BY <1>3, <1>4 DEF AcceptsOnce

\* What another request has inserted under the index is still not there.
LEMMA CommitInsertsUnique ==
  ASSUME IInv, NEW r \in Requests, Commit(r), NEW q \in Request, InsertsUnique(q),
         Apart(req[r], q)
  PROVE  InsertsUnique(q)'
  <1> DEFINE p == req[r]
  <1>1. SUFFICES ASSUME q.new # None, Indexed(q), NEW a \in Rows, Live(a)', HasKey(a, q)'
                 PROVE  FALSE
    BY DEF InsertsUnique, Assigned, Indexed
  <1>2. CASE a = p.new /\ p.new # None /\ asg'[a] = Inserted(p)
    <2>1. SameKey(p, q) BY <1>1, <1>2, InsertedFields DEF SameKey, HasKey
    <2>2. Indexed(p) BY <1>1, <2>1 DEF Indexed, SameKey
    <2>3. QED BY <1>1, <1>2, <2>1, <2>2 DEF Apart
  <1>3. CASE Live(a) /\ asg'[a] = asg[a]
    BY <1>1, <1>3 DEF InsertsUnique, Assigned, HasKey
  <1>4. QED BY <1>1, <1>2, <1>3, LiveAfterCommit

\* A commit keeps the invariant.
LEMMA CommitKeepsIInv ==
  ASSUME IInv, NEW r \in Requests, Commit(r) PROVE IInv'
  <1>1. ASSUME NEW q \in Requests PROVE InStep(req[q])'
    <2>1. CASE q = r
      <3>1. req'[r] = Idle BY CommittedRequests
      <3>2. InStep(Idle)'
        BY IdleFields, NoneApart
           DEF InStep, InProgram, Informed, EndsItsOwn, AcceptsOnce, InsertsUnique, Indexed,
               Routes, OrgRoutes, TeamRoutes, RoleRoutes, InvitationRoutes, Naming, Assigning,
               Ending
      <3>3. QED BY <2>1, <3>1, <3>2
               DEF InStep, InProgram, Informed, EndsItsOwn, AcceptsOnce, InsertsUnique, Indexed,
                   Assigned, HasKey
    <2>2. CASE q # r
      <3>1. req'[q] = req[q] BY <2>2, CommittedRequests
      <3>2. PICK s \in Request : s = req[q] BY DEF IInv, TypeOK
      <3>3. InStep(s) /\ Apart(req[r], s) /\ req'[q] = s BY <2>2, <3>1, <3>2 DEF IInv
      <3>4. Informed(s)' /\ EndsItsOwn(s)' /\ AcceptsOnce(s)' /\ InsertsUnique(s)'
        BY <3>3, CommitInformed, CommitEndsItsOwn, CommitAcceptsOnce, CommitInsertsUnique
           DEF InStep
      <3>5. Informed(req[q])' BY <3>3, <3>4 DEF Informed
      <3>6. EndsItsOwn(req[q])' BY <3>3, <3>4 DEF EndsItsOwn
      <3>7. AcceptsOnce(req[q])' BY <3>3, <3>4 DEF AcceptsOnce, Live
      <3>8. InsertsUnique(req[q])'
        BY <3>3, <3>4 DEF InsertsUnique, Indexed, Assigned, HasKey, Live
      <3>9. InProgram(req[q])' BY <3>3 DEF InStep, InProgram
      <3>10. QED BY <3>5, <3>6, <3>7, <3>8, <3>9 DEF InStep
    <2>3. QED BY <2>1, <2>2
  <1>2. ASSUME NEW p \in Requests, NEW q \in Requests, p # q PROVE Apart(req'[p], req'[q])
    <2>1. req'[r] = Idle /\ \A x \in Requests \ {r} : req'[x] = req[x] BY CommittedRequests
    <2>2. \A x \in Requests : req'[x] \in Request BY CommitTypeOK DEF TypeOK
    <2>3. CASE p = r BY <2>1, <2>2, <2>3, IdleInStep
    <2>4. CASE q = r BY <2>1, <2>2, <2>4, IdleInStep, ApartSymmetric
    <2>5. CASE p # r /\ q # r BY <1>2, <2>1, <2>5 DEF IInv
    <2>6. QED BY <2>3, <2>4, <2>5
  <1>3. (\A p, q \in Requests : p # q => Apart(req[p], req[q]))' BY <1>2
  <1>4. QED
    BY <1>1, <1>3, CommitTypeOK, CommitOneTeamAssignment, CommitInvitationJoinsOnce,
       CommitViaKey DEF IInv

-----------------------------------------------------------------------------
\* Every step keeps the invariant.
LEMMA NextKeepsIInv == IInv /\ [Next]_vars => IInv'
  <1> SUFFICES ASSUME IInv, [Next]_vars PROVE IInv' OBVIOUS
  <1>1. CASE UNCHANGED vars
    <2>1. UNCHANGED tables /\ req' = req BY <1>1 DEF vars
    <2>2. org' = org /\ team' = team /\ inv' = inv /\ asg' = asg BY <2>1 DEF tables
    <2>3. TypeOK' BY <2>1, <2>2 DEF IInv, TypeOK
    <2>4. OneTeamAssignment' /\ InvitationJoinsOnce' /\ ViaKey'
      BY <2>2 DEF IInv, OneTeamAssignment, InvitationJoinsOnce, ViaKey, Live
    <2>5. \A r \in Requests : InStep(req[r])' BY <2>1, SameTables DEF IInv
    <2>6. (\A r, q \in Requests : r # q => Apart(req[r], req[q]))' BY <2>1 DEF IInv
    <2>7. QED BY <2>3, <2>4, <2>5, <2>6 DEF IInv
  <1>2. ASSUME NEW r \in Requests, Call(r) PROVE IInv' BY <1>2, CallKeepsIInv
  <1>3. ASSUME NEW r \in Requests, Step(r) PROVE IInv'
    <2>1. CASE CheckPermission(r) BY <2>1, CheckPermissionKeepsIInv
    <2>2. CASE OpenOrganization(r) BY <2>2, OpenOrganizationKeepsIInv
    <2>3. CASE OpenTeam(r) BY <2>3, OpenTeamKeepsIInv
    <2>4. CASE ListAssignments(r) BY <2>4, ListAssignmentsKeepsIInv
    <2>5. CASE FindAssignment(r) BY <2>5, FindAssignmentKeepsIInv
    <2>6. CASE Write(r) BY <2>6, WriteKeepsIInv
    <2>7. CASE InsertAssignment(r) BY <2>7, InsertAssignmentKeepsIInv
    <2>8. CASE ConfirmOrganization(r) BY <2>8, ConfirmOrganizationKeepsIInv
    <2>9. CASE Commit(r) BY <2>9, CommitKeepsIInv
    <2>10. QED
      BY <1>3, <2>1, <2>2, <2>3, <2>4, <2>5, <2>6, <2>7, <2>8, <2>9 DEF Step
  <1>4. ASSUME NEW r \in Requests, Cancel(r) PROVE IInv' BY <1>4, AbortKeepsIInv DEF Cancel
  <1>5. QED BY <1>1, <1>2, <1>3, <1>4 DEF Next

\* The invariant holds, whatever requests run and however their steps are interleaved.
THEOREM Invariance == Spec => []IInv
  BY InitIInv, NextKeepsIInv, PTL DEF Spec

\* Types, and foreign keys: no team and no invitation is published whose organization is
\* not there.
THEOREM TypeCorrectness == Spec => []TypeOK
  <1>1. IInv => TypeOK BY DEF IInv
  <1>2. QED BY <1>1, Invariance, PTL

\* A user has a role in a team once, though add_member and assign_role look for it and
\* insert it in two steps: the unique index has the last word.
THEOREM TeamAssignmentsUnique == Spec => []OneTeamAssignment
  <1>1. IInv => OneTeamAssignment BY DEF IInv
  <1>2. QED BY <1>1, Invariance, PTL

\* An invitation makes its user a member once, however often it is accepted at the same
\* time: whoever looks for the assignment holds the invitation.
THEOREM AcceptanceJoinsOnce == Spec => []InvitationJoinsOnce
  <1>1. IInv => InvitationJoinsOnce BY DEF IInv
  <1>2. QED BY <1>1, Invariance, PTL

-----------------------------------------------------------------------------
\* The tables change by commits only.
LEMMA OnlyCommitsPublish ==
  ASSUME Next, ~UNCHANGED tables
  PROVE  \E r \in Requests : Commit(r)
  <1> PICK r \in Requests : Call(r) \/ Step(r) \/ Cancel(r) BY DEF Next
  <1>1. Call(r) => UNCHANGED tables
    <2>1. \A call, pc : Begin(r, call, pc) => UNCHANGED tables BY DEF Begin
    <2>2. \A u : CreateOrganization(r, u) => UNCHANGED tables
      BY <2>1, Zenon DEF CreateOrganization
    <2>3. \A op, u, o, m, role : OrganizationRoute(r, op, u, o, m, role) => UNCHANGED tables
      BY <2>1, Zenon DEF OrganizationRoute
    <2>4. \A op, u, t, m, role : TeamRoute(r, op, u, t, m, role) => UNCHANGED tables
      BY <2>1, Zenon DEF TeamRoute
    <2>5. \A u, m, role, o, t : RoleRoute(r, u, m, role, o, t) => UNCHANGED tables
      BY <2>1, Zenon DEF RoleRoute
    <2>6. \A u, i : AcceptInvitation(r, u, i) \/ RevokeInvitation(r, u, i) => UNCHANGED tables
      BY <2>1, Zenon DEF AcceptInvitation, RevokeInvitation
    <2>7. QED
      BY <2>2, <2>3, <2>4, <2>5, <2>6
         DEF Call, ChangeOrganization, CreateTeam, RemoveMember, InviteMember, UpdateMemberRole,
             ChangeTeam, AddTeamMember, RemoveTeamMember
  <1>2. Cancel(r) => UNCHANGED tables BY DEF Cancel, Abort
  <1>3. CheckPermission(r) \/ OpenTeam(r) \/ ListAssignments(r) \/ Write(r)
          \/ ConfirmOrganization(r) => UNCHANGED tables
    BY DEF CheckPermission, OpenTeam, ListAssignments, Write, ConfirmOrganization, Abort
  <1>4. OpenOrganization(r) => UNCHANGED tables BY DEF OpenOrganization, Abort
  <1>5. FindAssignment(r) => UNCHANGED tables BY DEF FindAssignment, Abort
  <1>6. InsertAssignment(r) => UNCHANGED tables BY DEF InsertAssignment, Insert, Abort
  <1>7. QED BY <1>1, <1>2, <1>3, <1>4, <1>5, <1>6 DEF Step

\* A current assignment that is not current after a commit, or that the commit changes, is
\* one of those that the committing request ends: its user's, in its organization.
LEMMA EndedByOwnRequest ==
  ASSUME IInv, NEW r \in Requests, Commit(r), NEW a \in Rows, Live(a),
         asg'[a] # asg[a]
  PROVE  /\ req[r].op \in Ending
         /\ asg[a].user = req[r].member /\ asg[a].org = req[r].org
         /\ req[r].op = "remove_team_member" => asg[a].team = req[r].team
  <1>1. asg[a] # None /\ InStep(req[r]) BY DEF Live, IInv
  <1>2. a # req[r].new /\ a \in req[r].hold BY <1>1, CommittedAssignments
  <1>3. QED BY <1>1, <1>2 DEF InStep, EndsItsOwn

\* What a commit inserts is current.
LEMMA InsertedIsLive ==
  ASSUME IInv, NEW r \in Requests, Commit(r), req[r].new # None
  PROVE  \E a \in Rows :
            /\ Live(a)'
            /\ asg'[a].user = req[r].member /\ asg'[a].role = req[r].role
            /\ asg'[a].org = req[r].org /\ asg'[a].team = req[r].team
  <1> DEFINE p == req[r]
  <1>1. PICK a \in Rows : a = p.new BY DEF IInv, TypeOK, Request
  <1>2. asg'[a] = Inserted(p) /\ asg'[a] # None BY <1>1, CommittedAssignments
  <1>3. /\ asg'[a].user = p.member /\ asg'[a].role = p.role
        /\ asg'[a].org = p.org /\ asg'[a].team = p.team /\ ~asg'[a].deleted
    BY <1>2, InsertedFields
  <1>4. Live(a)' BY <1>2, <1>3 DEF Live
  <1>5. QED BY <1>3, <1>4

\* Nobody ceases to be a member of an organization but by a removal: the role change that
\* deletes a member's assignments inserts the new one in the same commit (update_member_role).
THEOREM LeavingIsRemoval == Spec => MembersLeaveByRemoval
  <1> DEFINE Removed(o, m) ==
        \E r \in Requests :
           /\ At(r, "done") /\ At(r, "idle")'
           /\ req[r].op \in {"remove_member", "remove_team_member", "remove_role"}
           /\ req[r].member = m /\ req[r].org = o
      Removals == \A o \in Orgs, m \in Users : IsMember(o, m) /\ ~IsMember(o, m)' => Removed(o, m)
  <1>1. IInv /\ [Next]_vars => [Removals]_vars
    <2> SUFFICES ASSUME IInv, Next, NEW o \in Orgs, NEW m \in Users,
                        IsMember(o, m), ~IsMember(o, m)'
                 PROVE  Removed(o, m)
      OBVIOUS
    <2>1. ~UNCHANGED tables BY DEF tables, IsMember, Live
    <2>2. PICK r \in Requests : Commit(r) BY <2>1, OnlyCommitsPublish
    <2>3. PICK a \in Rows : Live(a) /\ asg[a].user = m /\ asg[a].org = o BY DEF IsMember
    <2>4. asg'[a] # asg[a] BY <2>3 DEF IsMember, Live
    <2>5. req[r].op \in Ending /\ req[r].member = m /\ req[r].org = o
      BY <2>2, <2>3, <2>4, EndedByOwnRequest
    <2>6. At(r, "done") /\ At(r, "idle")'
      BY <2>2, CommittedRequests, IdleFields DEF Commit, At
    <2>7. ASSUME req[r].op = "update_member_role" PROVE FALSE
      <3>1. req[r].new # None BY <2>6, <2>7 DEF IInv, InStep, InProgram, At
      <3>2. PICK b \in Rows :
              /\ Live(b)'
              /\ asg'[b].user = req[r].member /\ asg'[b].org = req[r].org
        BY <2>2, <3>1, InsertedIsLive
      <3>3. QED BY <2>5, <3>2 DEF IsMember
    <2>8. QED BY <2>5, <2>6, <2>7 DEF Ending
  <1>2. QED BY <1>1, Invariance, PTL DEF Spec, MembersLeaveByRemoval

\* The owner's assignment is inserted with the organization, and neither a role change nor
\* the removal of a member or of a team's member ends it: the first two refuse the owner, the
\* third ends assignments to teams.
THEOREM OwnerKeepsTheRole == Spec => OwnerAdministers
  <1> DEFINE Revoked(o) ==
        \E r \in Requests : /\ At(r, "done") /\ At(r, "idle")'
                            /\ req[r].op = "remove_role" /\ req[r].org = o
      Keeping == \A o \in Orgs : \/ org'[o] = None \/ Administered(o)'
                                 \/ org[o] # None /\ ~Administered(o)
                                 \/ Revoked(o)
  <1>1. IInv /\ [Next]_vars => [Keeping]_vars
    <2> SUFFICES ASSUME IInv, Next, NEW o \in Orgs, org'[o] # None, ~Administered(o)',
                        org[o] = None \/ Administered(o)
                 PROVE  Revoked(o)
      OBVIOUS
    <2>1. ~UNCHANGED tables BY DEF tables, Administered, Live
    <2>2. PICK r \in Requests : Commit(r) BY <2>1, OnlyCommitsPublish
    <2>3. /\ req[r] \in Request /\ Informed(req[r])
          /\ At(r, "done") /\ At(r, "idle")'
      BY <2>2, CommittedRequests, IdleFields DEF IInv, TypeOK, InStep, Commit, At
    <2>4. ASSUME org[o] = None PROVE FALSE
      <3>1. /\ req[r].op = "create_organization" /\ req[r].org = o
            /\ org'[o].owner = req[r].member
        BY <2>2, <2>4, CommittedOrgs
      <3>2. req[r].role = "organization_admin" /\ req[r].team = None /\ req[r].new # None
        BY <2>3, <3>1 DEF Informed
      <3>3. PICK b \in Rows :
              /\ Live(b)'
              /\ asg'[b].user = req[r].member /\ asg'[b].role = req[r].role
              /\ asg'[b].org = req[r].org /\ asg'[b].team = req[r].team
        BY <2>2, <3>2, InsertedIsLive
      <3>4. QED BY <3>1, <3>2, <3>3 DEF Administered
    <2>5. org[o] # None /\ Administered(o) /\ org'[o].owner = org[o].owner
      BY <2>2, <2>4, CommittedOrgs
    <2>6. PICK a \in Rows : /\ Live(a) /\ asg[a].user = org[o].owner
                            /\ asg[a].role = "organization_admin"
                            /\ asg[a].org = o /\ asg[a].team = None
      BY <2>5 DEF Administered
    <2>7. asg'[a] # asg[a] BY <2>5, <2>6 DEF Administered, Live
    <2>8. /\ req[r].op \in Ending /\ req[r].org = o /\ req[r].member = org[o].owner
          /\ req[r].op = "remove_team_member" => req[r].team = None
      BY <2>2, <2>6, <2>7, EndedByOwnRequest
    <2>9. req[r].op \notin {"update_member_role", "remove_member"}
      BY <2>3, <2>8 DEF Informed, At
    <2>10. req[r].op # "remove_team_member"
      BY <2>3, <2>8, NoneApart DEF Informed, TeamRoutes
    <2>11. QED BY <2>3, <2>8, <2>9, <2>10 DEF Ending
  <1>2. QED BY <1>1, Invariance, PTL DEF Spec, OwnerAdministers
=============================================================================
