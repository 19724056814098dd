------------------------------ MODULE Workspace ------------------------------
(***************************************************************************)
(* The parts of the API in which the people of an organization work: the   *)
(* vault and the notifications, the labels, the memos, the projects with   *)
(* their tasks, the events, the role catalog and the accounts of users, on *)
(* one database.                                                           *)
(*                                                                         *)
(* The routes of one part read and write no row of another one, the        *)
(* notifications of shares excepted.  A behaviour uses the routes of one   *)
(* suite, so that TLC explores each part by itself.                        *)
(***************************************************************************)
EXTENDS Vault, Labels, Memos, Projects, Scheduling, RoleCatalog, Accounts

Tables ==
    [entry |-> Entries, share |-> Shares, notification |-> Notifications, label |-> LabelIds,
     memo |-> MemoIds, version |-> VersionIds, project |-> ProjectIds,
     assignment |-> AssignmentIds, task |-> TaskIds, event |-> EventIds,
     permission |-> PermissionNames, role |-> RoleNames, user |-> Addresses]

ASSUME IdsAssumption ==
    /\ Ids = UNION {Tables[t] : t \in DOMAIN Tables}
    /\ \A s, t \in DOMAIN Tables : s # t => Tables[s] \cap Tables[t] = {}
ASSUME FinitenessAssumption ==
    IsFiniteSet(Shares) /\ IsFiniteSet(Notifications) /\ IsFiniteSet(VersionIds)

Routes == VaultRoutes \cup NotificationRoutes \cup CategoryRoutes \cup VaultTagRoutes
          \cup FolderRoutes \cup MemoTagRoutes \cup ProjectTagRoutes \cup MemoRoutes
          \cup FlagRoutes \cup ProjectRoutes \cup AssigneeRoutes \cup TaskRoutes \cup EventRoutes
          \cup CatalogRoutes \cup {"seed"} \cup AccountRoutes

ASSUME SuitesAssumption == Suites \subseteq SUBSET Routes

Records == Entry \cup Share \cup Notification \cup Label \cup Memo \cup MemoVersion \cup Project
           \cup ProjectAssignment \cup Task \cup Event \cup Permission \cup Role \cup User

ASSUME NothingAssumption ==
    None \notin Records \cup Routes \cup Uids \cup [to : Addresses, uid : Uids]

all == <<vars, outside>>

Init ==
    /\ row = [x \in Ids |-> None]
    /\ log = {}
    /\ req = [r \in Requests |-> Idle]
    /\ suite \in Suites
    /\ link = [t \in Links |-> None]
    /\ mail = {}

\* A client calls a route, or a worker starts.
Call(r) ==
    /\ At(r, "idle")
    /\ \/ AccountCall(r)
       \/ /\ \/ Seed(r)
             \/ \E u \in Users :
                   \/ VaultCall(r, u) \/ LabelCall(r, u) \/ MemoCall(r, u) \/ ProjectCall(r, u)
                   \/ EventCall(r, u) \/ CatalogCall(r, u)
          /\ UNCHANGED outside

\* A call that finds no row, may not or has an invalid body ends with an error, and nothing
\* is written.
Refused(r) == At(r, "idle") /\ UNCHANGED all

\* The event loop or PostgreSQL takes a request one statement further.
Step(r) ==
    \/ AccountStep(r)
    \/ /\ \/ Write(r) \/ AddVersion(r) \/ LookUpName(r) \/ InsertName(r) \/ ChangeLinks(r)
          \/ Commit(r)
       /\ UNCHANGED outside

Next ==
    \/ \E r \in Requests :
          Call(r) \/ Refused(r) \/ Step(r) \/ (Cancel(r) /\ UNCHANGED outside)
    \/ \E s \in Shares : Expire(s) /\ UNCHANGED outside
    \/ \E t \in Links : LinkExpires(t)

Spec == Init /\ [][Next]_all

-----------------------------------------------------------------------------
(***************************************************************************)
(* Properties                                                              *)
(***************************************************************************)
Table(T, Record) == \A x \in T : row[x] \in Record \cup {None}
Refers(T, column) == \A x \in T : row[x] # None => row[row[x][column]] # None

Request ==
    [pc : {"idle", "write", "version", "lookup", "insert", "links", "mail",
           "use", "open", "done"},
     op : Routes \cup {None}, user : Users \cup {None}]

\* Types, and foreign keys: a row refers to rows that exist (the models of each part).
TypeOK ==
    /\ DOMAIN row = Ids
    /\ Table(Entries, Entry) /\ Table(Shares, Share) /\ Table(Notifications, Notification)
    /\ Table(LabelIds, Label)
    /\ Table(MemoIds, Memo) /\ Table(VersionIds, MemoVersion)
    /\ Table(ProjectIds, Project) /\ Table(AssignmentIds, ProjectAssignment) /\ Table(TaskIds, Task)
    /\ Table(EventIds, Event)
    /\ Table(PermissionNames, Permission) /\ Table(RoleNames, Role)
    /\ Table(Addresses, User)
    /\ link \in [Links -> Uids \cup {None}] /\ mail \subseteq Links \X Addresses \X Uids
    /\ Refers(Shares, "entry") /\ Refers(Notifications, "entry") /\ Refers(VersionIds, "memo")
    /\ Refers(AssignmentIds, "project") /\ Refers(TaskIds, "project")
    /\ \A n \in RoleNames : row[n] # None => \A p \in row[n].grants : row[p] # None
    /\ log \subseteq Entries \X Users \X Actions
    /\ \A r \in Requests : [pc |-> req[r].pc, op |-> req[r].op, user |-> req[r].user] \in Request

\* The versions of a memo are numbered 1, 2, 3, ... however concurrently it is updated:
\* MemoService.update counts them after its UPDATE has waited for the other ones.
VersionsAreNumbered ==
    \A m \in MemoIds :
       {row[x].number : x \in VersionsOf(m)} = 1..Cardinality(VersionsOf(m))

\* The versions of a memo are an append-only history of it (MemoHistory): position n holds the
\* contents of the versions numbered n, which is one content.
History == INSTANCE MemoHistory WITH
    Contents <- {{c} : c \in Contents},
    history <- [m \in MemoIds |->
                  [n \in 1..Cardinality(VersionsOf(m)) |->
                     {row[x].content : x \in {y \in VersionsOf(m) : row[y].number = n}}]]
KeepsHistory == History!Spec

\* The newest version of a memo is a copy of its content, though the memo is compared before
\* the UPDATE waits: a content that is not written makes no version, and the memo keeps the
\* content of the request that has made the newest one.
NewestVersionIsTheMemo ==
    \A m \in MemoIds, x \in VersionIds :
       /\ row[m] # None
       /\ row[x] # None /\ row[x].memo = m
       /\ row[x].number = Cardinality(VersionsOf(m))
       => row[x].content = row[m].content

\* What one route inserts in several tables is there together, whatever fails: a memo has a
\* version, a project an assignment of its owner, an entry its line in the log.
CreatedWhole ==
    /\ \A m \in MemoIds : row[m] # None => VersionsOf(m) # {}
    /\ \A p \in ProjectIds :
          row[p] # None => \E x \in AssignmentIds :
             row[x] # None /\ row[x].project = p /\ row[x].user = row[p].owner
    /\ \A e \in Entries : row[e] # None => <<e, row[e].owner, "create">> \in log

\* The log tells who has done what to an entry, and nobody else: it says "delete" just when
\* the entry is deleted, "share" just when it is shared, "view" only of those to whom the
\* entry belongs or has been shared with.
LogMatchesRows ==
    \A e \in Entries :
       /\ (\E u \in Users : <<e, u, "delete">> \in log) <=> row[e] # None /\ row[e].deleted
       /\ (\E u \in Users : <<e, u, "share">> \in log) <=>
             \E s \in Shares : row[s] # None /\ row[s].entry = e
       /\ \A u \in Users, a \in Actions :
             <<e, u, a>> \in log =>
                \/ u = row[e].owner
                \/ a = "view" /\ \E s \in Shares :
                      row[s] # None /\ row[s].entry = e /\ row[s].user = u

\* Whoever an entry is shared with is told, once for each share (VaultService.share calls
\* dispatch in its own transaction).
SharesAreAnnounced ==
    \A e \in Entries, u \in Users :
       Cardinality({s \in Shares : row[s] # None /\ row[s].entry = e /\ row[s].user = u}) =
       Cardinality({n \in Notifications : row[n] # None /\ row[n].entry = e /\ row[n].user = u})

\* The columns that a route sets.
ColumnsOf(op) ==
    CASE op = "update_entry" -> {"value"}
      [] op \in {"mark_read", "mark_all_read"} -> {"read"}
      [] op \in {"update_category", "update_vault_tag", "update_project_tag"} -> {"name"}
      [] op = "update_memo" -> {"content"}
      [] op \in {"pin_memo", "unpin_memo"} -> {"pinned"}
      [] op \in {"favorite_memo", "unfavorite_memo"} -> {"favorite"}
      [] op \in {"update_project", "update_task"} -> {"status"}
      [] op \in {"archive_project", "restore_project"} -> {"archived"}
      [] op = "update_event" -> {"start", "end"}
      [] op = "update_role" -> {"grants"}
      [] op = "verify_email" -> {"verified"}
      [] op = "update_profile" -> {"profile"}
      [] op \in {"delete_entry", "delete_category", "delete_vault_tag", "delete_folder",
                 "delete_memo_tag", "delete_project_tag", "delete_memo", "delete_project",
                 "remove_assignee", "delete_task", "delete_event", "delete_permission",
                 "delete_role"} -> {"deleted"}
      [] OTHER -> {}

\* An update leaves the columns alone that others set: concurrent requests that set different
\* columns of a row both take effect, though each writes a row that it has read before
\* (BaseRepository.update).  So no deleted row comes back, and none goes away.  Of two
\* requests that set the same column the last one stays (RowVersions).
OnlyItsColumnsChange ==
    [][\A x \in Ids \ Shares :
          row[x] # None =>
             /\ row'[x] # None
             /\ \A c \in DOMAIN row[x] :
                   row'[x][c] # row[x][c] =>
                      /\ \E r \in Requests :
                            At(r, "done") /\ At(r, "idle")' /\ c \in ColumnsOf(req[r].op)
                      /\ c \in {"deleted", "read", "verified"} => row'[x][c]]_all

\* Seeding is all or nothing: with one system role there are all default permissions and
\* roles, whatever fails and however many workers start together (lifespan commits once).
SeedIsWhole == Seeded => \A i \in 1..Len(Defaults) : row[Defaults[i]] # None

\* An address is verified by a link that has been sent to it for the very registration: the
\* link of a registration that was rolled back after its mail verifies no later account of the
\* same address, though keys in Redis outlive the rollback.
VerifiedByOwnMail ==
    [][\A a \in Addresses, r \in Requests :
          /\ row[a] # None /\ ~row[a].verified /\ row'[a].verified
          /\ At(r, "done") /\ At(r, "idle")' /\ a \in req[r].hold
          => <<req[r].arg.link, a, row[a].uid>> \in mail]_all

\* Expected by "Entry is already shared with this user." (app/vault/service.py:403), "User is
\* already assigned to this project." (app/projects/service.py:326) and "A tag with this name
\* already exists in the organization.".  It does not hold: two requests look, find nothing
\* and insert; afterwards the lookups raise.
KeysAreUnique ==
    /\ \A s, t \in All(Shares) :
          row[s].user # None /\ row[s].user = row[t].user /\ row[s].entry = row[t].entry => s = t
    /\ \A x, y \in All(AssignmentIds) :
          row[x].user = row[y].user /\ row[x].project = row[y].project => x = y
    /\ \A x, y \in All(LabelIds) :
          /\ row[x].kind \in {"vault_tag", "memo_tag", "project_tag"}
          /\ row[x].kind = row[y].kind /\ row[x].name = row[y].name
          => x = y
=============================================================================
