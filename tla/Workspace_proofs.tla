--------------------------- MODULE Workspace_proofs ---------------------------
(***************************************************************************)
(* Theorems about Workspace that hold in all its parts, for any tables,    *)
(* any number of requests and any choice of routes: types and foreign      *)
(* keys, and that concurrent updates of a row keep each other's columns.   *)
(* They rest on the inductive invariant Base: what the record of a request *)
(* says of the rows it is going to update and to insert, and what no two   *)
(* requests have written.  The proofs about the single parts, in modules   *)
(* of their own, begin with Base.                                          *)
(***************************************************************************)
EXTENDS Workspace, FiniteSetTheorems, TLAPS

\* The table of a row, and the records of a table.
Kind(x) == CHOOSE t \in DOMAIN Tables : x \in Tables[t]
RecordsOf(t) ==
    CASE t = "entry" -> Entry
      [] t = "share" -> Share
      [] t = "notification" -> Notification
      [] t = "label" -> Label
      [] t = "memo" -> Memo
      [] t = "version" -> MemoVersion
      [] t = "project" -> Project
      [] t = "assignment" -> ProjectAssignment
      [] t = "task" -> Task
      [] t = "event" -> Event
      [] t = "permission" -> Permission
      [] t = "role" -> Role
      [] t = "user" -> User
WellFormed(x, record) == record \in RecordsOf(Kind(x))

\* The foreign keys of a row, as TypeOK has them.
RefersTo(x, record, y) ==
    \/ Kind(x) \in {"share", "notification"} /\ y = record.entry
    \/ Kind(x) = "version" /\ y = record.memo
    \/ Kind(x) \in {"assignment", "task"} /\ y = record.project
    \/ Kind(x) = "role" /\ y \in record.grants

\* What a route may write into a column, and the table that it updates.
Column(c) ==
    CASE c \in {"deleted", "read", "verified"} -> {TRUE}
      [] c = "value" -> Values
      [] c = "name" -> Names
      [] c = "content" -> Contents
      [] c = "status" -> Statuses
      [] c = "start" -> Times
      [] c = "end" -> Times \cup {None}
      [] c = "profile" -> Profiles
      [] OTHER -> BOOLEAN
TableOf(op) ==
    CASE op \in {"get_entry", "update_entry", "delete_entry"} -> "entry"
      [] op \in NotificationRoutes -> "notification"
      [] op \in {"update_category", "update_vault_tag", "update_project_tag", "delete_category",
                 "delete_vault_tag", "delete_folder", "delete_memo_tag",
                 "delete_project_tag"} -> "label"
      [] op \in {"update_memo", "delete_memo"} \cup FlagRoutes -> "memo"
      [] op \in {"update_project", "delete_project", "archive_project",
                 "restore_project"} -> "project"
      [] op = "remove_assignee" -> "assignment"
      [] op \in {"update_task", "delete_task"} -> "task"
      [] op \in {"update_event", "delete_event"} -> "event"
      [] op = "delete_permission" -> "permission"
      [] op = "delete_role" -> "role"
      [] op \in {"verify_email", "update_profile"} -> "user"
      [] OTHER -> "none"
Updatable(t) ==
    CASE t = "entry" -> {"value", "deleted"}
      [] t = "notification" -> {"read"}
      [] t = "label" -> {"name", "deleted"}
      [] t = "memo" -> {"content", "pinned", "favorite", "deleted"}
      [] t = "project" -> {"status", "archived", "deleted"}
      [] t = "task" -> {"status", "deleted"}
      [] t = "event" -> {"start", "end", "deleted"}
      [] t \in {"assignment", "permission", "role"} -> {"deleted"}
      [] t = "user" -> {"verified", "profile"}
      [] OTHER -> {}

NamingRoutes == {"seed", "create_permission", "create_role", "register"}

-----------------------------------------------------------------------------
\* Rows that a request is going to insert by name.
Pending(q) == {q.names[i] : i \in 1..Len(q.names)}

Typed(q) ==
    /\ DOMAIN q = DOMAIN Idle
    /\ q.pc \in {"idle", "write", "version", "lookup", "insert", "links", "mail", "use", "open",
                 "done"}
    /\ q.op \in Routes \cup {None} /\ q.user \in Users \cup {None}
    /\ q.next \in {"done", "version", "lookup", "mail"}
    /\ q.logged \subseteq Entries \X Users \X Actions
    /\ q.names \in Seq(Ids \X Records)
    /\ q.links \in [of : RoleNames \cup {None}, add : SUBSET PermissionNames,
                    remove : SUBSET PermissionNames]

\* Where each route can be, and what it has when it is there.
InProgram(q) ==
    /\ q.pc = "idle" => q = Idle
    /\ q.pc # "idle" => q.op # None
    /\ q.pc \in {"done", "mail"} => q.names = <<>>
    /\ q.pc = "write" => q.op \notin NamingRoutes
    /\ q.pc = "version" \/ q.next = "version" => q.op = "update_memo" /\ "content" \in DOMAIN q.data
    /\ q.pc = "lookup" \/ q.next = "lookup" => q.op = "seed"
    /\ q.pc = "insert" => q.op \in NamingRoutes /\ q.names # <<>>
    /\ q.pc = "links" => q.op = "update_role"
    /\ q.pc = "mail" => q.op \in {"register", "resend_verification"}
    /\ q.pc \in {"use", "open"} => q.op = "verify_email"
    /\ q.op = "seed" => q.next = "lookup"
    /\ q.next = "mail" => q.op = "register"
    /\ q.op \in {"create_permission", "create_role", "register"} => Len(q.names) <= 1
    /\ q.names # <<>> => q.op \in NamingRoutes
    /\ q.op \in {"register", "resend_verification"} =>
          q.arg.to \in Addresses /\ q.arg.uid \in Uids
    /\ q.op = "verify_email" => q.arg.link \in Links /\ q.arg.uid \in Uids

\* A request sets its columns, in rows of its table that are there.
Updates(q) ==
    /\ \A c \in DOMAIN q.data : c \in ColumnsOf(q.op) /\ q.data[c] \in Column(c)
    /\ \A x \in q.todo \cup q.hold :
          x \in Ids /\ Kind(x) = TableOf(q.op) /\ row[x] # None

\* A request inserts rows that are not there, and refer to rows that are or will be.
Secured(q, y) ==
    row[y] # None \/ y \in DOMAIN q.new \/ \E n \in Pending(q) : n[1] = y
Inserts(q) ==
    /\ \A x \in DOMAIN q.new :
          /\ x \in Ids /\ row[x] = None /\ WellFormed(x, q.new[x])
          /\ \A y \in Ids : RefersTo(x, q.new[x], y) => Secured(q, y)
    /\ \A n \in Pending(q) :
          /\ WellFormed(n[1], n[2])
          /\ \A y \in Ids : RefersTo(n[1], n[2], y) => Secured(q, y)

\* A request changes the permissions of a role that is there, to permissions that are.
Relinks(q) ==
    /\ q.links.of # None =>
          q.op = "update_role" /\ q.links.of \in RoleNames /\ row[q.links.of] # None
    /\ \A p \in q.links.add : row[p] # None

\* The routes that insert into a table.
Inserters(t) ==
    CASE t = "entry" -> {"create_entry"}
      [] t \in {"share", "notification"} -> {"share_entry"}
      [] t = "label" -> {"create_category", "create_vault_tag", "create_folder",
                         "create_memo_tag", "create_project_tag"}
      [] t = "memo" -> {"create_memo"}
      [] t = "version" -> {"create_memo", "update_memo"}
      [] t = "project" -> {"create_project"}
      [] t = "assignment" -> {"create_project", "add_assignee"}
      [] t = "task" -> {"create_task"}
      [] t = "event" -> {"create_event"}
      [] t = "permission" -> {"seed", "create_permission"}
      [] t = "role" -> {"seed", "create_role"}
      [] t = "user" -> {"register"}

\* A request inserts rows of its route, and nothing while it has rows to update.
Footprint(q) ==
    /\ \A x \in DOMAIN q.new : q.op \in Inserters(Kind(x))
    /\ \A n \in Pending(q) : q.op \in Inserters(Kind(n[1]))
    /\ q.logged # {} => q.op \in VaultRoutes
    /\ q.todo # {} => q.pc = "write"
    /\ q.pc \in {"write", "version"} => DOMAIN q.new = {}

Fits(q) == Typed(q) /\ InProgram(q) /\ Updates(q) /\ Inserts(q) /\ Relinks(q) /\ Footprint(q)

\* No row is inserted or written by two requests at the same time.
Parted(p, q) == DOMAIN p.new \cap DOMAIN q.new = {} /\ p.hold \cap q.hold = {}

RowsFit ==
    /\ DOMAIN row = Ids
    /\ \A x \in Ids : row[x] # None => WellFormed(x, row[x])
    /\ \A x, y \in Ids : row[x] # None /\ RefersTo(x, row[x], y) => row[y] # None

Base ==
    /\ RowsFit
    /\ log \subseteq Entries \X Users \X Actions
    /\ link \in [Links -> Uids \cup {None}] /\ mail \subseteq Links \X Addresses \X Uids
    /\ DOMAIN req = Requests
    /\ \A r \in Requests : Fits(req[r])
    /\ \A r, q \in Requests : r # q => Parted(req[r], req[q])

-----------------------------------------------------------------------------
\* The tables have no row in common, so that a row tells its table.
LEMMA KindOfTable == \A t \in DOMAIN Tables : \A x \in Tables[t] : Kind(x) = t
  <1> TAKE t \in DOMAIN Tables
  <1> TAKE x \in Tables[t]
  <1>1. \A s \in DOMAIN Tables : x \in Tables[s] => s = t BY IdsAssumption
  <1>2. QED BY <1>1 DEF Kind

\* Every row is in one of the tables.
LEMMA KindsOfRows ==
  /\ \A x \in Entries : x \in Ids /\ Kind(x) = "entry"
  /\ \A x \in Shares : x \in Ids /\ Kind(x) = "share"
  /\ \A x \in Notifications : x \in Ids /\ Kind(x) = "notification"
  /\ \A x \in LabelIds : x \in Ids /\ Kind(x) = "label"
  /\ \A x \in MemoIds : x \in Ids /\ Kind(x) = "memo"
  /\ \A x \in VersionIds : x \in Ids /\ Kind(x) = "version"
  /\ \A x \in ProjectIds : x \in Ids /\ Kind(x) = "project"
  /\ \A x \in AssignmentIds : x \in Ids /\ Kind(x) = "assignment"
  /\ \A x \in TaskIds : x \in Ids /\ Kind(x) = "task"
  /\ \A x \in EventIds : x \in Ids /\ Kind(x) = "event"
  /\ \A x \in PermissionNames : x \in Ids /\ Kind(x) = "permission"
  /\ \A x \in RoleNames : x \in Ids /\ Kind(x) = "role"
  /\ \A x \in Addresses : x \in Ids /\ Kind(x) = "user"
  <1>1. \A t \in DOMAIN Tables : \A x \in Tables[t] : x \in Ids /\ Kind(x) = t
    BY IdsAssumption, KindOfTable
  <1>2. \A x \in Entries : x \in Ids /\ Kind(x) = "entry" BY <1>1 DEF Tables
  <1>3. \A x \in Shares : x \in Ids /\ Kind(x) = "share" BY <1>1 DEF Tables
  <1>4. \A x \in Notifications : x \in Ids /\ Kind(x) = "notification" BY <1>1 DEF Tables
  <1>5. \A x \in LabelIds : x \in Ids /\ Kind(x) = "label" BY <1>1 DEF Tables
  <1>6. \A x \in MemoIds : x \in Ids /\ Kind(x) = "memo" BY <1>1 DEF Tables
  <1>7. \A x \in VersionIds : x \in Ids /\ Kind(x) = "version" BY <1>1 DEF Tables
  <1>8. \A x \in ProjectIds : x \in Ids /\ Kind(x) = "project" BY <1>1 DEF Tables
  <1>9. \A x \in AssignmentIds : x \in Ids /\ Kind(x) = "assignment" BY <1>1 DEF Tables
  <1>10. \A x \in TaskIds : x \in Ids /\ Kind(x) = "task" BY <1>1 DEF Tables
  <1>11. \A x \in EventIds : x \in Ids /\ Kind(x) = "event" BY <1>1 DEF Tables
  <1>12. \A x \in PermissionNames : x \in Ids /\ Kind(x) = "permission" BY <1>1 DEF Tables
  <1>13. \A x \in RoleNames : x \in Ids /\ Kind(x) = "role" BY <1>1 DEF Tables
  <1>14. \A x \in Addresses : x \in Ids /\ Kind(x) = "user" BY <1>1 DEF Tables
  <1>15. QED
    BY <1>2, <1>3, <1>4, <1>5, <1>6, <1>7, <1>8, <1>9, <1>10, <1>11, <1>12, <1>13, <1>14

\* The table of a row, by its kind.
LEMMA TableOfKind ==
  ASSUME NEW x \in Ids
  PROVE  /\ Kind(x) = "entry" => x \in Entries
         /\ Kind(x) = "share" => x \in Shares
         /\ Kind(x) = "notification" => x \in Notifications
         /\ Kind(x) = "label" => x \in LabelIds
         /\ Kind(x) = "memo" => x \in MemoIds
         /\ Kind(x) = "version" => x \in VersionIds
         /\ Kind(x) = "project" => x \in ProjectIds
         /\ Kind(x) = "assignment" => x \in AssignmentIds
         /\ Kind(x) = "task" => x \in TaskIds
         /\ Kind(x) = "event" => x \in EventIds
         /\ Kind(x) = "permission" => x \in PermissionNames
         /\ Kind(x) = "role" => x \in RoleNames
         /\ Kind(x) = "user" => x \in Addresses
         /\ Kind(x) \in DOMAIN Tables
  <1>1. PICK t \in DOMAIN Tables : x \in Tables[t] BY IdsAssumption
  <1>2. Kind(x) \in DOMAIN Tables /\ x \in Tables[Kind(x)] BY <1>1, KindOfTable
  <1>3. QED BY <1>2 DEF Tables

\* The records of the tables, and that none of them is "no such row".
LEMMA RecordsOfTables ==
  /\ RecordsOf("entry") = Entry /\ RecordsOf("share") = Share
  /\ RecordsOf("notification") = Notification /\ RecordsOf("label") = Label
  /\ RecordsOf("memo") = Memo /\ RecordsOf("version") = MemoVersion
  /\ RecordsOf("project") = Project /\ RecordsOf("assignment") = ProjectAssignment
  /\ RecordsOf("task") = Task /\ RecordsOf("event") = Event
  /\ RecordsOf("permission") = Permission /\ RecordsOf("role") = Role
  /\ RecordsOf("user") = User
  BY DEF RecordsOf

\* A record of a table is a record, and not "no such row".
LEMMA RecordsThere ==
  ASSUME NEW x \in Ids, NEW record, WellFormed(x, record)
  PROVE  record \in Records /\ record # None
  <1>1. Kind(x) \in DOMAIN Tables BY TableOfKind
  <1>2. record \in Records BY <1>1, RecordsOfTables DEF WellFormed, Tables, Records
  <1>3. QED BY <1>2, NothingAssumption

\* What an UPDATE makes of a record.
LEMMA WrittenColumns ==
  ASSUME NEW x, NEW data
  PROVE  /\ DOMAIN Written(x, data) = DOMAIN x
         /\ \A c \in DOMAIN x :
              /\ c \in DOMAIN data => Written(x, data)[c] = data[c]
              /\ c \notin DOMAIN data => Written(x, data)[c] = x[c]
  BY DEF Written

\* The routes that update a table set columns of that table.
LEMMA ColumnsOfRoutes ==
  ASSUME NEW op, TableOf(op) # "none"
  PROVE  ColumnsOf(op) \subseteq Updatable(TableOf(op))
  BY DEF TableOf, ColumnsOf, Updatable, NotificationRoutes, FlagRoutes

\* An UPDATE of columns of a table makes a record of the table.
LEMMA WrittenWellFormed ==
  ASSUME NEW t \in DOMAIN Tables, NEW x \in RecordsOf(t), NEW data,
         \A c \in DOMAIN data : c \in Updatable(t) /\ data[c] \in Column(c)
  PROVE  Written(x, data) \in RecordsOf(t)
  <1>1. CASE t = "entry" BY <1>1 DEF Written, RecordsOf, Updatable, Column, Entry
  <1>2. CASE t = "share" BY <1>2 DEF Written, RecordsOf, Updatable, Column, Share
  <1>3. CASE t = "notification" BY <1>3 DEF Written, RecordsOf, Updatable, Column, Notification
  <1>4. CASE t = "label" BY <1>4 DEF Written, RecordsOf, Updatable, Column, Label
  <1>5. CASE t = "memo" BY <1>5 DEF Written, RecordsOf, Updatable, Column, Memo
  <1>6. CASE t = "version" BY <1>6 DEF Written, RecordsOf, Updatable, Column, MemoVersion
  <1>7. CASE t = "project" BY <1>7 DEF Written, RecordsOf, Updatable, Column, Project
  <1>8. CASE t = "assignment" BY <1>8 DEF Written, RecordsOf, Updatable, Column, ProjectAssignment
  <1>9. CASE t = "task" BY <1>9 DEF Written, RecordsOf, Updatable, Column, Task
  <1>10. CASE t = "event" BY <1>10 DEF Written, RecordsOf, Updatable, Column, Event
  <1>11. CASE t = "permission" BY <1>11 DEF Written, RecordsOf, Updatable, Column, Permission
  <1>12. CASE t = "role" BY <1>12 DEF Written, RecordsOf, Updatable, Column, Role
  <1>13. CASE t = "user" BY <1>13 DEF Written, RecordsOf, Updatable, Column, User
  <1>14. QED
    BY <1>1, <1>2, <1>3, <1>4, <1>5, <1>6, <1>7, <1>8, <1>9, <1>10, <1>11, <1>12, <1>13
       DEF Tables

\* The record of a request that has not begun.
LEMMA IdleFields ==
  /\ Idle.pc = "idle" /\ Idle.op = None /\ Idle.user = None /\ Idle.data = NoColumns
  /\ Idle.todo = {} /\ Idle.hold = {} /\ Idle.next = "done" /\ Idle.new = NoRows
  /\ Idle.logged = {} /\ Idle.names = <<>> /\ Idle.arg = None
  /\ Idle.links = [of |-> None, add |-> {}, remove |-> {}]
  /\ Idle.links.of = None /\ Idle.links.add = {} /\ Idle.links.remove = {}
  /\ DOMAIN NoColumns = {} /\ DOMAIN NoRows = {}
  BY DEF Idle, NoColumns, NoRows

-----------------------------------------------------------------------------
\* A request that has not begun writes and inserts nothing.
LEMMA IdleFits == Fits(Idle) /\ \A q : Parted(Idle, q) /\ Parted(q, Idle)
  <1>1. Typed(Idle) BY IdleFields DEF Typed
  <1>2. Pending(Idle) = {} BY IdleFields DEF Pending
  <1>3. InProgram(Idle)
    BY IdleFields, NothingAssumption
       DEF InProgram, NamingRoutes, Routes, AccountRoutes, CatalogRoutes
  <1>4. Updates(Idle) /\ Relinks(Idle) BY IdleFields DEF Updates, Relinks
  <1>5. Inserts(Idle) BY <1>2, IdleFields DEF Inserts
  <1>6. \A q : Parted(Idle, q) /\ Parted(q, Idle) BY IdleFields DEF Parted
  <1>7. Footprint(Idle) BY <1>2, IdleFields DEF Footprint
  <1>8. QED BY <1>1, <1>3, <1>4, <1>5, <1>6, <1>7 DEF Fits

\* A fresh installation.
LEMMA InitBase == Init => Base
  <1> SUFFICES ASSUME Init PROVE Base OBVIOUS
  <1>1. \A r \in Requests : req[r] = Idle BY DEF Init
  <1>2. RowsFit BY DEF Init, RowsFit
  <1>3. /\ log \subseteq Entries \X Users \X Actions
        /\ link \in [Links -> Uids \cup {None}] /\ mail \subseteq Links \X Addresses \X Uids
        /\ DOMAIN req = Requests
    BY DEF Init
  <1>4. \A r \in Requests : Fits(req[r]) BY <1>1, IdleFits
  <1>5. \A r, q \in Requests : Parted(req[r], req[q]) BY <1>1, IdleFits
  <1>6. QED BY <1>2, <1>3, <1>4, <1>5 DEF Base

\* A request stays in step when rows become there, but none of those that it inserts.
LEMMA StaysFit ==
  ASSUME NEW q, Fits(q), \A x \in Ids : row[x] # None => row'[x] # None,
         \A x \in DOMAIN q.new : row'[x] = row[x],
         NEW r, req'[r] = q
  PROVE  Fits(req[r])'
  <1>1. Typed(req[r])' BY DEF Fits, Typed
  <1>2. InProgram(req[r])' BY DEF Fits, InProgram
  <1>3. Updates(req[r])' BY DEF Fits, Updates
  <1>4. \A y \in Ids : Secured(q, y) => Secured(req[r], y)'
    BY DEF Secured, Pending
  <1>5. Inserts(req[r])' BY <1>4 DEF Fits, Inserts, Pending
  <1>6. q.links.of \in Ids \cup {None} /\ \A p \in q.links.add : p \in Ids
    BY KindsOfRows DEF Fits, Typed
  <1>7. Relinks(req[r])' BY <1>6 DEF Fits, Relinks
  <1>8. Footprint(req[r])' BY DEF Fits, Footprint, Pending
  <1>9. QED BY <1>1, <1>2, <1>3, <1>5, <1>7, <1>8 DEF Fits

\* Requests that have written and inserted nothing in common before and after a step of one
\* of them.
LEMMA StayParted ==
  ASSUME Base, NEW r \in Requests, NEW to, req' = [req EXCEPT ![r] = to],
         \A q \in Requests \ {r} : Parted(to, req[q])
  PROVE  (\A p, q \in Requests : p # q => Parted(req[p], req[q]))'
  <1>1. req'[r] = to /\ \A q \in Requests \ {r} : req'[q] = req[q] BY DEF Base
  <1>2. ASSUME NEW p \in Requests, NEW q \in Requests, p # q
        PROVE  Parted(req'[p], req'[q])
    <2>1. CASE p = r BY <1>1, <1>2, <2>1
    <2>2. CASE q = r BY <1>1, <1>2, <2>2 DEF Parted
    <2>3. CASE p # r /\ q # r BY <1>1, <1>2, <2>3 DEF Base
    <2>4. QED BY <2>1, <2>2, <2>3
  <1>3. QED BY <1>2

\* A step of one request that commits nothing, if the new record fits the rows and the other
\* requests.
LEMMA ContinueKeepsBase ==
  ASSUME Base, NEW r \in Requests, NEW to, Fits(to),
         \A q \in Requests \ {r} : Parted(to, req[q]), Continue(r, to),
         link' \in [Links -> Uids \cup {None}], mail' \subseteq Links \X Addresses \X Uids
  PROVE  Base'
  <1>1. req' = [req EXCEPT ![r] = to] /\ row' = row /\ log' = log
    BY DEF Continue, tables
  <1>2. RowsFit' BY <1>1 DEF Base, RowsFit
  <1>3. DOMAIN req' = Requests BY <1>1 DEF Base
  <1>4. req'[r] = to /\ \A q \in Requests \ {r} : req'[q] = req[q] BY <1>1 DEF Base
  <1>5. ASSUME NEW q \in Requests PROVE Fits(req[q])'
    <2>1. PICK s : s = req'[q] OBVIOUS
    <2>2. Fits(s) BY <1>4, <2>1 DEF Base
    <2>3. QED BY <1>1, <2>1, <2>2, StaysFit
  <1>6. (\A p, q \in Requests : p # q => Parted(req[p], req[q]))' BY <1>1, StayParted
  <1>7. QED BY <1>1, <1>2, <1>3, <1>5, <1>6 DEF Base

\* A request that ends without a commit.
LEMMA AbortKeepsBase ==
  ASSUME Base, NEW r \in Requests, Abort(r),
         link' \in [Links -> Uids \cup {None}], mail' \subseteq Links \X Addresses \X Uids
  PROVE  Base'
  BY IdleFits, ContinueKeepsBase DEF Abort

-----------------------------------------------------------------------------
\* Rows to insert.
LEMMA RowFields ==
  /\ \A x, record : DOMAIN Row(x, record) = {x} /\ Row(x, record)[x] = record
  /\ \A f, g : /\ DOMAIN Both(f, g) = DOMAIN f \cup DOMAIN g
               /\ \A x \in DOMAIN f : Both(f, g)[x] = f[x]
               /\ \A x \in DOMAIN g \ DOMAIN f : Both(f, g)[x] = g[x]
  BY DEF Row, Both

\* A fresh id is that of no row, and of none that is being inserted.
LEMMA SomeFresh ==
  ASSUME NEW T, Fresh(T) # {}
  PROVE  /\ Some(T) \in T /\ row[Some(T)] = None
         /\ \A q \in Requests : Some(T) \notin DOMAIN req[q].new
  BY DEF Some, Fresh

\* The columns that the flush sends.
LEMMA ChangedColumns ==
  ASSUME NEW x, NEW data
  PROVE  \A c \in DOMAIN Changed(x, data) : c \in DOMAIN data /\ Changed(x, data)[c] = data[c]
  BY DEF Changed

\* The routes that insert no row by name and have nothing to do with mail.
Plain == Routes \ (NamingRoutes \cup {"resend_verification", "verify_email"})

\* The record of a request of such a route.
LEMMA PlainFits ==
  ASSUME NEW to, DOMAIN to = DOMAIN Idle, to.pc \in {"write", "done"}, to.op \in Plain,
         to.user \in Users \cup {None}, to.names = <<>>, to.links = Idle.links,
         to.logged \subseteq Entries \X Users \X Actions,
         \/ to.next = "done"
         \/ to.next = "version" /\ to.op = "update_memo" /\ "content" \in DOMAIN to.data,
         Updates(to), to.logged # {} => to.op \in VaultRoutes,
         to.todo # {} => to.pc = "write", to.pc = "write" => DOMAIN to.new = {},
         \A x \in DOMAIN to.new :
            /\ x \in Ids /\ row[x] = None /\ WellFormed(x, to.new[x])
            /\ to.op \in Inserters(Kind(x))
            /\ \A y \in Ids : RefersTo(x, to.new[x], y) => row[y] # None \/ y \in DOMAIN to.new
  PROVE  Fits(to)
  <1>1. Typed(to) BY IdleFields DEF Typed, Plain
  <1>2. Pending(to) = {} BY DEF Pending
  <1>3. to.op \in Routes /\ to.op # None BY NothingAssumption DEF Plain
  <1>4. InProgram(to) BY <1>3 DEF InProgram, Plain, NamingRoutes
  <1>5. Inserts(to) BY <1>2 DEF Inserts, Secured
  <1>6. Relinks(to) BY IdleFields DEF Relinks
  <1>7. Footprint(to) BY <1>2 DEF Footprint
  <1>8. QED BY <1>1, <1>4, <1>5, <1>6, <1>7 DEF Fits

\* A call that fits and takes fresh ids.
LEMMA BeginKeepsBase ==
  ASSUME Base, NEW r \in Requests, NEW to, Begin(r, to), Fits(to), to.hold = {},
         \A x \in DOMAIN to.new, q \in Requests : x \notin DOMAIN req[q].new,
         UNCHANGED outside
  PROVE  Base'
  <1>1. \A q \in Requests \ {r} : Parted(to, req[q]) BY DEF Parted
  <1>2. link' \in [Links -> Uids \cup {None}] /\ mail' \subseteq Links \X Addresses \X Uids
    BY DEF outside, Base
  <1>3. QED BY <1>1, <1>2, ContinueKeepsBase DEF Begin

\* The tables into which routes insert.
LEMMA TablesOfInserters ==
  /\ Inserters("entry") = {"create_entry"} /\ Inserters("share") = {"share_entry"}
  /\ Inserters("notification") = {"share_entry"} /\ Inserters("memo") = {"create_memo"}
  /\ Inserters("label") = {"create_category", "create_vault_tag", "create_folder",
                           "create_memo_tag", "create_project_tag"}
  /\ Inserters("version") = {"create_memo", "update_memo"}
  /\ Inserters("project") = {"create_project"}
  /\ Inserters("assignment") = {"create_project", "add_assignee"}
  /\ Inserters("task") = {"create_task"} /\ Inserters("event") = {"create_event"}
  /\ Inserters("permission") = {"seed", "create_permission"}
  /\ Inserters("role") = {"seed", "create_role"} /\ Inserters("user") = {"register"}
  BY DEF Inserters

\* create.
LEMMA CreateKeepsBase ==
  ASSUME Base, NEW r \in Requests, NEW op \in Plain, NEW u \in Users, NEW T \in SUBSET Ids,
         NEW record, Create(r, op, u, T, record), UNCHANGED outside,
         \A x \in T : /\ WellFormed(x, record) /\ op \in Inserters(Kind(x))
                      /\ \A y \in Ids : RefersTo(x, record, y) => row[y] # None
  PROVE  Base'
  <1> DEFINE new == Row(Some(T), record)
             to == [Idle EXCEPT !.pc = "done", !.op = op, !.user = u, !.new = new]
  <1>1. /\ DOMAIN new = {Some(T)} /\ new[Some(T)] = record
        /\ Some(T) \in T /\ row[Some(T)] = None
        /\ \A q \in Requests : Some(T) \notin DOMAIN req[q].new
    BY RowFields, SomeFresh DEF Create
  <1>2. Begin(r, to) BY DEF Create
  <1> HIDE DEF new
  <1>3. /\ DOMAIN to = DOMAIN Idle /\ to.pc = "done" /\ to.op = op /\ to.user = u
        /\ to.names = <<>> /\ to.links = Idle.links /\ to.logged = {} /\ to.next = "done"
        /\ to.todo = {} /\ to.hold = {} /\ to.data = NoColumns /\ to.new = new
    BY DEF Idle
  <1> HIDE DEF to
  <1>4. Updates(to) BY <1>3, IdleFields DEF Updates
  <1>5. Fits(to) BY <1>1, <1>3, <1>4, IdleFields, PlainFits
  <1>6. QED BY <1>1, <1>2, <1>3, <1>5, BeginKeepsBase

\* create of two rows, with rows of the log.
LEMMA CreateBothKeepsBase ==
  ASSUME Base, NEW r \in Requests, NEW to, Begin(r, to), UNCHANGED outside,
         NEW x \in Ids, NEW y \in Ids, x # y, NEW f, NEW g, to.new = Both(Row(x, f), Row(y, g)),
         DOMAIN to = DOMAIN Idle, to.pc = "done", to.op \in Plain, to.user \in Users,
         to.names = <<>>, to.links = Idle.links, to.next = "done", to.todo = {}, to.hold = {},
         to.data = NoColumns, to.logged \subseteq Entries \X Users \X Actions,
         to.logged # {} => to.op \in VaultRoutes, row[x] = None, row[y] = None,
         \A q \in Requests : x \notin DOMAIN req[q].new /\ y \notin DOMAIN req[q].new,
         WellFormed(x, f), WellFormed(y, g),
         to.op \in Inserters(Kind(x)), to.op \in Inserters(Kind(y)),
         \A z \in Ids : RefersTo(x, f, z) \/ RefersTo(y, g, z) => row[z] # None \/ z \in {x, y}
  PROVE  Base'
  <1>1. DOMAIN to.new = {x, y} /\ to.new[x] = f /\ to.new[y] = g
    <2> DEFINE one == Row(x, f)
               other == Row(y, g)
    <2>1. DOMAIN one = {x} /\ one[x] = f /\ DOMAIN other = {y} /\ other[y] = g BY RowFields
    <2>2. to.new = Both(one, other) OBVIOUS
    <2> HIDE DEF one, other
    <2>3. DOMAIN Both(one, other) = DOMAIN one \cup DOMAIN other BY DEF Both
    <2>4. DOMAIN Both(one, other) = {x, y} BY <2>1, <2>3
    <2>5. Both(one, other)[x] = f BY <2>1, RowFields
    <2>6. y \in DOMAIN other \ DOMAIN one BY <2>1
    <2>7. Both(one, other)[y] = g BY <2>1, <2>6, RowFields
    <2>8. QED BY <2>2, <2>4, <2>5, <2>7
  <1>2. Updates(to) BY IdleFields DEF Updates
  <1>3. Fits(to) BY <1>1, <1>2, PlainFits
  <1>4. QED BY <1>1, <1>3, BeginKeepsBase

\* A call that goes on to update rows.
LEMMA WritingKeepsBase ==
  ASSUME Base, NEW r \in Requests, NEW to, Begin(r, to), UNCHANGED outside,
         DOMAIN to = DOMAIN Idle, to.pc = "write", to.op \in Plain,
         to.user \in Users \cup {None}, to.names = <<>>, to.links = Idle.links,
         to.logged \subseteq Entries \X Users \X Actions, to.hold = {}, to.new = NoRows,
         to.logged # {} => to.op \in VaultRoutes,
         \/ to.next = "done"
         \/ to.next = "version" /\ to.op = "update_memo" /\ "content" \in DOMAIN to.data,
         \A c \in DOMAIN to.data : c \in ColumnsOf(to.op) /\ to.data[c] \in Column(c),
         \A x \in to.todo : x \in Ids /\ Kind(x) = TableOf(to.op) /\ row[x] # None
  PROVE  Base'
  <1>1. Updates(to) BY DEF Updates
  <1>2. Fits(to) BY <1>1, PlainFits, IdleFields
  <1>3. QED BY <1>2, IdleFields, BeginKeepsBase

\* update.
LEMMA UpdateKeepsBase ==
  ASSUME Base, NEW r \in Requests, NEW op \in Plain, NEW u \in Users \cup {None}, NEW x \in Ids,
         NEW data, Update(r, op, u, x, data), UNCHANGED outside, Kind(x) = TableOf(op),
         \A c \in DOMAIN data : c \in ColumnsOf(op) /\ data[c] \in Column(c)
  PROVE  Base'
  <1> DEFINE changed == Changed(x, data)
             to == [Idle EXCEPT !.pc = "write", !.op = op, !.user = u, !.data = changed,
                                !.todo = {x}]
  <1>1. \A c \in DOMAIN changed : c \in ColumnsOf(op) /\ changed[c] \in Column(c)
    BY ChangedColumns
  <1>2. Begin(r, to) /\ row[x] # None BY DEF Update, Live
  <1> HIDE DEF changed
  <1>3. /\ DOMAIN to = DOMAIN Idle /\ to.pc = "write" /\ to.op = op /\ to.user = u
        /\ to.names = <<>> /\ to.links = Idle.links /\ to.logged = {} /\ to.next = "done"
        /\ to.todo = {x} /\ to.hold = {} /\ to.data = changed /\ to.new = NoRows
    BY DEF Idle
  <1> HIDE DEF to
  <1>4. QED BY <1>1, <1>2, <1>3, WritingKeepsBase

\* delete_soft.
LEMMA DeleteSoftKeepsBase ==
  ASSUME Base, NEW r \in Requests, NEW op \in Plain, NEW u \in Users, NEW x \in Ids,
         DeleteSoft(r, op, u, x), UNCHANGED outside, Kind(x) = TableOf(op), row[x] # None,
         "deleted" \in ColumnsOf(op)
  PROVE  Base'
  <1> DEFINE data == [deleted |-> TRUE]
             to == [Idle EXCEPT !.pc = "write", !.op = op, !.user = u, !.data = data,
                                !.todo = {x}]
  <1>1. \A c \in DOMAIN data : c \in ColumnsOf(op) /\ data[c] \in Column(c)
    <2>1. DOMAIN data = {"deleted"} /\ data["deleted"] = TRUE OBVIOUS
    <2>2. Column("deleted") = {TRUE} BY DEF Column
    <2>3. QED BY <2>1, <2>2
  <1>2. Begin(r, to) BY DEF DeleteSoft
  <1> HIDE DEF data
  <1>3. /\ DOMAIN to = DOMAIN Idle /\ to.pc = "write" /\ to.op = op /\ to.user = u
        /\ to.names = <<>> /\ to.links = Idle.links /\ to.logged = {} /\ to.next = "done"
        /\ to.todo = {x} /\ to.hold = {} /\ to.data = data /\ to.new = NoRows
    BY DEF Idle
  <1> HIDE DEF to
  <1>4. QED BY <1>1, <1>2, <1>3, WritingKeepsBase

-----------------------------------------------------------------------------
\* The values of the columns.
LEMMA ColumnValues ==
  /\ Column("deleted") = {TRUE} /\ Column("read") = {TRUE} /\ Column("verified") = {TRUE}
  /\ Column("value") = Values /\ Column("name") = Names /\ Column("content") = Contents
  /\ Column("status") = Statuses /\ Column("start") = Times
  /\ Column("end") = Times \cup {None} /\ Column("profile") = Profiles
  /\ Column("pinned") = BOOLEAN /\ Column("favorite") = BOOLEAN /\ Column("archived") = BOOLEAN
  BY DEF Column

\* The calls of labels.
LEMMA LabelCallKeepsBase ==
  ASSUME Base, NEW r \in Requests, NEW u \in Users, LabelCall(r, u), UNCHANGED outside
  PROVE  Base'
  <1> DEFINE Creating == {"create_category", "create_vault_tag", "create_folder",
                          "create_memo_tag", "create_project_tag"}
             Renaming == {"update_category", "update_vault_tag", "update_project_tag"}
             Deleting == {"delete_category", "delete_vault_tag", "delete_folder",
                          "delete_memo_tag", "delete_project_tag"}
  <1>1. ASSUME NEW op \in Creating, NEW kind \in Kinds, NEW name \in Names,
               NewLabel(r, op, u, kind, name)
        PROVE  Base'
    <2> DEFINE record == [kind |-> kind, name |-> name, deleted |-> FALSE]
    <2>1. Create(r, op, u, LabelIds, record) BY <1>1 DEF NewLabel
    <2>2. record \in Label BY DEF Label
    <2> HIDE DEF record
    <2>3. \A x \in LabelIds : /\ WellFormed(x, record) /\ op \in Inserters(Kind(x))
                              /\ \A y \in Ids : RefersTo(x, record, y) => row[y] # None
      BY <2>2, KindsOfRows, RecordsOfTables, TablesOfInserters DEF WellFormed, RefersTo
    <2>4. op \in Plain
      BY DEF Plain, NamingRoutes, Routes, CategoryRoutes, VaultTagRoutes, FolderRoutes,
             MemoTagRoutes, ProjectTagRoutes
    <2>5. LabelIds \in SUBSET Ids BY KindsOfRows
    <2>6. QED BY <2>1, <2>3, <2>4, <2>5, CreateKeepsBase
  <1>2. ASSUME NEW op \in Renaming, NEW x \in LabelIds, NEW name \in Names,
               Update(r, op, u, x, [name |-> name])
        PROVE  Base'
    <2> DEFINE data == [name |-> name]
    <2>1. DOMAIN data = {"name"} /\ data["name"] = name OBVIOUS
    <2>2. Update(r, op, u, x, data) BY <1>2
    <2> HIDE DEF data
    <2>3. op \in Plain
      BY DEF Plain, NamingRoutes, Routes, CategoryRoutes, VaultTagRoutes, ProjectTagRoutes
    <2>4. TableOf(op) = "label" /\ ColumnsOf(op) = {"name"}
      BY DEF TableOf, ColumnsOf, NotificationRoutes, FlagRoutes
    <2>5. x \in Ids /\ Kind(x) = "label" BY KindsOfRows
    <2>6. \A c \in DOMAIN data : c \in ColumnsOf(op) /\ data[c] \in Column(c)
      BY <2>1, <2>4, ColumnValues
    <2>7. QED BY <2>2, <2>3, <2>4, <2>5, <2>6, UpdateKeepsBase
  <1>3. ASSUME NEW op \in Deleting, NEW kind, NEW x \in Of(kind), DeleteSoft(r, op, u, x)
        PROVE  Base'
    <2>1. x \in LabelIds /\ row[x] # None BY DEF Of, All, Live
    <2>2. op \in Plain
      BY DEF Plain, NamingRoutes, Routes, CategoryRoutes, VaultTagRoutes, FolderRoutes,
             MemoTagRoutes, ProjectTagRoutes
    <2>3. TableOf(op) = "label" /\ ColumnsOf(op) = {"deleted"}
      BY DEF TableOf, ColumnsOf, NotificationRoutes, FlagRoutes
    <2>4. QED BY <1>3, <2>1, <2>2, <2>3, KindsOfRows, DeleteSoftKeepsBase
  <1>4. ASSUME NEW name \in Names,
               \/ CreateCategory(r, u, name) \/ CreateVaultTag(r, u, name)
               \/ CreateFolder(r, u, name) \/ CreateMemoTag(r, u, name)
               \/ CreateProjectTag(r, u, name)
        PROVE  Base'
    BY <1>1, <1>4 DEF CreateCategory, CreateVaultTag, CreateFolder, CreateMemoTag,
                      CreateProjectTag, Kinds
  <1>5. ASSUME NEW x \in LabelIds, NEW name \in Names,
               \/ UpdateCategory(r, u, x, name) \/ UpdateVaultTag(r, u, x, name)
               \/ UpdateProjectTag(r, u, x, name)
        PROVE  Base'
    BY <1>2, <1>5 DEF UpdateCategory, UpdateVaultTag, UpdateProjectTag
  <1>6. ASSUME NEW x \in LabelIds,
               \/ DeleteCategory(r, u, x) \/ DeleteVaultTag(r, u, x) \/ DeleteFolder(r, u, x)
               \/ DeleteMemoTag(r, u, x) \/ DeleteProjectTag(r, u, x)
        PROVE  Base'
    BY <1>3, <1>6 DEF DeleteCategory, DeleteVaultTag, DeleteFolder, DeleteMemoTag,
                      DeleteProjectTag
  <1>7. QED BY <1>4, <1>5, <1>6 DEF LabelCall

\* The calls of events.
LEMMA EventCallKeepsBase ==
  ASSUME Base, NEW r \in Requests, NEW u \in Users, EventCall(r, u), UNCHANGED outside
  PROVE  Base'
  <1>1. /\ "create_event" \in Plain /\ "update_event" \in Plain /\ "delete_event" \in Plain
        /\ TableOf("update_event") = "event" /\ ColumnsOf("update_event") = {"start", "end"}
        /\ TableOf("delete_event") = "event" /\ ColumnsOf("delete_event") = {"deleted"}
    BY DEF Plain, NamingRoutes, Routes, EventRoutes, TableOf, ColumnsOf, NotificationRoutes,
           FlagRoutes
  <1>2. ASSUME NEW s \in Times, NEW e \in Times \cup {None}, CreateEvent(r, u, s, e)
        PROVE  Base'
    <2> DEFINE record == [start |-> s, end |-> e, deleted |-> FALSE]
    <2>1. Create(r, "create_event", u, EventIds, record) BY <1>2 DEF CreateEvent
    <2>2. record \in Event BY DEF Event
    <2> HIDE DEF record
    <2>3. \A x \in EventIds : /\ WellFormed(x, record) /\ "create_event" \in Inserters(Kind(x))
                              /\ \A y \in Ids : RefersTo(x, record, y) => row[y] # None
      BY <2>2, KindsOfRows, RecordsOfTables, TablesOfInserters
      DEF WellFormed, RefersTo
    <2>4. EventIds \in SUBSET Ids BY KindsOfRows
    <2>5. QED BY <1>1, <2>1, <2>3, <2>4, CreateKeepsBase
  <1>3. ASSUME NEW x \in EventIds, NEW data \in Bodies, UpdateEvent(r, u, x, data)
        PROVE  Base'
    <2>1. Update(r, "update_event", u, x, data) BY <1>3 DEF UpdateEvent
    <2>2. \A c \in DOMAIN data : c \in {"start", "end"} /\ data[c] \in Column(c)
      <3>1. CASE \E s \in Times : data = [start |-> s] BY <3>1, ColumnValues
      <3>2. CASE \E e \in Times \cup {None} : data = [end |-> e] BY <3>2, ColumnValues
      <3>3. CASE \E s \in Times, e \in Times \cup {None} : data = [start |-> s, end |-> e]
        BY <3>3, ColumnValues
      <3>4. QED BY <3>1, <3>2, <3>3 DEF Bodies
    <2>3. x \in Ids /\ Kind(x) = "event" BY KindsOfRows
    <2>4. QED BY <1>1, <2>1, <2>2, <2>3, UpdateKeepsBase
  <1>4. ASSUME NEW x \in EventIds, DeleteEvent(r, u, x) PROVE Base'
    <2>1. row[x] # None /\ DeleteSoft(r, "delete_event", u, x) BY <1>4 DEF DeleteEvent, Live
    <2>2. x \in Ids /\ Kind(x) = "event" BY KindsOfRows
    <2>3. QED BY <1>1, <2>1, <2>2, DeleteSoftKeepsBase
  <1>5. QED BY <1>2, <1>3, <1>4 DEF EventCall

\* The calls of projects, assignees and tasks.
LEMMA ProjectCallKeepsBase ==
  ASSUME Base, NEW r \in Requests, NEW u \in Users, ProjectCall(r, u), UNCHANGED outside
  PROVE  Base'
  <1>1. /\ ProjectRoutes \cup AssigneeRoutes \cup TaskRoutes \subseteq Plain
        /\ \A op \in {"update_project", "delete_project", "archive_project", "restore_project"} :
              TableOf(op) = "project"
        /\ TableOf("remove_assignee") = "assignment"
        /\ TableOf("update_task") = "task" /\ TableOf("delete_task") = "task"
        /\ ColumnsOf("update_project") = {"status"} /\ ColumnsOf("update_task") = {"status"}
        /\ ColumnsOf("archive_project") = {"archived"}
        /\ ColumnsOf("restore_project") = {"archived"}
        /\ ColumnsOf("delete_project") = {"deleted"} /\ ColumnsOf("delete_task") = {"deleted"}
        /\ ColumnsOf("remove_assignee") = {"deleted"}
    BY DEF Plain, NamingRoutes, Routes, ProjectRoutes, AssigneeRoutes, TaskRoutes, TableOf,
           ColumnsOf, NotificationRoutes, FlagRoutes
  <1>2. ASSUME NEW v \in Statuses, CreateProject(r, u, v) PROVE Base'
    <2>1. PICK p, a : p = Some(ProjectIds) /\ a = Some(AssignmentIds) OBVIOUS
    <2>2. PICK project, assignment :
            /\ project = [owner |-> u, status |-> v, archived |-> FALSE, deleted |-> FALSE]
            /\ assignment = NewAssignment(p, u)
      OBVIOUS
    <2>3. /\ p \in ProjectIds /\ row[p] = None /\ a \in AssignmentIds /\ row[a] = None
          /\ \A q \in Requests : p \notin DOMAIN req[q].new /\ a \notin DOMAIN req[q].new
      BY <1>2, <2>1, SomeFresh DEF CreateProject
    <2>4. project \in Project /\ assignment \in ProjectAssignment /\ assignment.project = p
      BY <2>2, <2>3 DEF Project, ProjectAssignment, NewAssignment
    <2>5. p # a /\ p \in Ids /\ a \in Ids /\ Kind(p) = "project" /\ Kind(a) = "assignment"
      BY <2>3, KindsOfRows
    <2> DEFINE new == Both(Row(p, project), Row(a, assignment))
               to == [Idle EXCEPT !.pc = "done", !.op = "create_project", !.user = u, !.new = new]
    <2>6. Begin(r, to) BY <1>2, <2>1, <2>2 DEF CreateProject
    <2>7. new = Both(Row(p, project), Row(a, assignment)) OBVIOUS
    <2> HIDE DEF new
    <2>8. /\ DOMAIN to = DOMAIN Idle /\ to.pc = "done" /\ to.op = "create_project" /\ to.user = u
          /\ to.names = <<>> /\ to.links = Idle.links /\ to.logged = {} /\ to.next = "done"
          /\ to.todo = {} /\ to.hold = {} /\ to.data = NoColumns /\ to.new = new
      BY DEF Idle
    <2> HIDE DEF to
    <2>9. /\ WellFormed(p, project) /\ WellFormed(a, assignment)
          /\ "create_project" \in Inserters(Kind(p)) /\ "create_project" \in Inserters(Kind(a))
      BY <2>4, <2>5, RecordsOfTables, TablesOfInserters DEF WellFormed
    <2>10. \A z \in Ids : RefersTo(p, project, z) \/ RefersTo(a, assignment, z) => z = p
      BY <2>4, <2>5 DEF RefersTo
    <2>11. "create_project" \in Plain BY <1>1 DEF ProjectRoutes
    <2>12. QED
      BY <2>3, <2>5, <2>6, <2>7, <2>8, <2>9, <2>10, <2>11, CreateBothKeepsBase
  <1>3. ASSUME NEW p \in ProjectIds, NEW op, NEW data, Update(r, op, u, p, data),
               \/ op = "update_project" /\ \E v \in Statuses : data = [status |-> v]
               \/ op = "archive_project" /\ data = [archived |-> TRUE]
               \/ op = "restore_project" /\ data = [archived |-> FALSE]
        PROVE  Base'
    <2>1. \A c \in DOMAIN data : c \in ColumnsOf(op) /\ data[c] \in Column(c)
      <3>1. CASE op = "update_project" /\ \E v \in Statuses : data = [status |-> v]
        <4>1. DOMAIN data = {"status"} /\ data["status"] \in Statuses BY <3>1
        <4>2. QED BY <1>1, <3>1, <4>1, ColumnValues
      <3>2. CASE op = "archive_project" /\ data = [archived |-> TRUE]
        <4>1. DOMAIN data = {"archived"} /\ data["archived"] \in BOOLEAN BY <3>2
        <4>2. QED BY <1>1, <3>2, <4>1, ColumnValues
      <3>3. CASE op = "restore_project" /\ data = [archived |-> FALSE]
        <4>1. DOMAIN data = {"archived"} /\ data["archived"] \in BOOLEAN BY <3>3
        <4>2. QED BY <1>1, <3>3, <4>1, ColumnValues
      <3>4. QED BY <1>3, <3>1, <3>2, <3>3
    <2>2. op \in Plain /\ TableOf(op) = "project" BY <1>1, <1>3 DEF ProjectRoutes
    <2>3. p \in Ids /\ Kind(p) = "project" BY KindsOfRows
    <2>4. QED BY <1>3, <2>1, <2>2, <2>3, UpdateKeepsBase
  <1>4. ASSUME NEW p \in ProjectIds, DeleteProject(r, u, p) PROVE Base'
    <2>1. row[p] # None /\ DeleteSoft(r, "delete_project", u, p)
      BY <1>4 DEF DeleteProject, Live
    <2>2. p \in Ids /\ Kind(p) = "project" /\ "delete_project" \in Plain
      BY <1>1, KindsOfRows DEF ProjectRoutes
    <2>3. QED BY <1>1, <2>1, <2>2, DeleteSoftKeepsBase
  <1>5. ASSUME NEW p \in ProjectIds, NEW v \in Users, AddAssignee(r, u, p, v) PROVE Base'
    <2> DEFINE record == NewAssignment(p, v)
    <2>1. Create(r, "add_assignee", u, AssignmentIds, record) /\ row[p] # None
      BY <1>5 DEF AddAssignee, Live
    <2>2. record \in ProjectAssignment /\ record.project = p
      BY DEF ProjectAssignment, NewAssignment
    <2> HIDE DEF record
    <2>3. \A x \in AssignmentIds : /\ WellFormed(x, record) /\ "add_assignee" \in Inserters(Kind(x))
                                   /\ \A y \in Ids : RefersTo(x, record, y) => row[y] # None
      BY <2>1, <2>2, KindsOfRows, RecordsOfTables, TablesOfInserters
      DEF WellFormed, RefersTo
    <2>4. AssignmentIds \in SUBSET Ids /\ "add_assignee" \in Plain
      BY <1>1, KindsOfRows DEF AssigneeRoutes
    <2>5. QED BY <2>1, <2>3, <2>4, CreateKeepsBase
  <1>6. ASSUME NEW p \in ProjectIds, NEW v \in Users, RemoveAssignee(r, u, p, v) PROVE Base'
    <2>1. PICK x \in AssignmentIds :
            AssignmentsOf(p, v) = {x} /\ DeleteSoft(r, "remove_assignee", u, x)
      BY <1>6 DEF RemoveAssignee
    <2>2. x \in AssignmentsOf(p, v) BY <2>1
    <2>3. row[x] # None BY <2>2 DEF AssignmentsOf, All, Live
    <2>4. x \in Ids /\ Kind(x) = "assignment" /\ "remove_assignee" \in Plain
      BY <1>1, KindsOfRows DEF AssigneeRoutes
    <2>5. QED BY <1>1, <2>1, <2>3, <2>4, DeleteSoftKeepsBase
  <1>7. ASSUME NEW p \in ProjectIds, NEW v \in Statuses, CreateTask(r, u, p, v) PROVE Base'
    <2> DEFINE record == [project |-> p, status |-> v, deleted |-> FALSE]
    <2>1. Create(r, "create_task", u, TaskIds, record) /\ row[p] # None
      BY <1>7 DEF CreateTask, Live
    <2>2. record \in Task /\ record.project = p BY DEF Task
    <2> HIDE DEF record
    <2>3. \A x \in TaskIds : /\ WellFormed(x, record) /\ "create_task" \in Inserters(Kind(x))
                             /\ \A y \in Ids : RefersTo(x, record, y) => row[y] # None
      BY <2>1, <2>2, KindsOfRows, RecordsOfTables, TablesOfInserters
      DEF WellFormed, RefersTo
    <2>4. TaskIds \in SUBSET Ids /\ "create_task" \in Plain BY <1>1, KindsOfRows DEF TaskRoutes
    <2>5. QED BY <2>1, <2>3, <2>4, CreateKeepsBase
  <1>8. ASSUME NEW t \in TaskIds, NEW v \in Statuses, UpdateTask(r, u, t, v) PROVE Base'
    <2> DEFINE data == [status |-> v]
    <2>1. Update(r, "update_task", u, t, data) BY <1>8 DEF UpdateTask
    <2>2. DOMAIN data = {"status"} /\ data["status"] = v OBVIOUS
    <2> HIDE DEF data
    <2>3. \A c \in DOMAIN data : c \in ColumnsOf("update_task") /\ data[c] \in Column(c)
      BY <1>1, <2>2, ColumnValues
    <2>4. t \in Ids /\ Kind(t) = "task" /\ "update_task" \in Plain
      BY <1>1, KindsOfRows DEF TaskRoutes
    <2>5. QED BY <1>1, <2>1, <2>3, <2>4, UpdateKeepsBase
  <1>9. ASSUME NEW t \in TaskIds, DeleteTask(r, u, t) PROVE Base'
    <2>1. row[t] # None /\ DeleteSoft(r, "delete_task", u, t) BY <1>9 DEF DeleteTask, Live
    <2>2. t \in Ids /\ Kind(t) = "task" /\ "delete_task" \in Plain
      BY <1>1, KindsOfRows DEF TaskRoutes
    <2>3. QED BY <1>1, <2>1, <2>2, DeleteSoftKeepsBase
  <1>10. ASSUME NEW p \in ProjectIds, NEW v \in Statuses, UpdateProject(r, u, p, v) PROVE Base'
    BY <1>3, <1>10 DEF UpdateProject
  <1>11. ASSUME NEW p \in ProjectIds, ArchiveProject(r, u, p) \/ RestoreProject(r, u, p)
         PROVE  Base'
    BY <1>3, <1>11 DEF ArchiveProject, RestoreProject
  <1>12. QED
    BY <1>2, <1>4, <1>5, <1>6, <1>7, <1>8, <1>9, <1>10, <1>11 DEF ProjectCall

\* The calls of the vault and of notifications.
LEMMA VaultCallKeepsBase ==
  ASSUME Base, NEW r \in Requests, NEW u \in Users, VaultCall(r, u), UNCHANGED outside
  PROVE  Base'
  <1>1. /\ VaultRoutes \cup NotificationRoutes \subseteq Plain
        /\ \A op \in {"get_entry", "update_entry", "delete_entry"} : TableOf(op) = "entry"
        /\ \A op \in NotificationRoutes :
              TableOf(op) = "notification" /\ ColumnsOf(op) = {"read"}
        /\ ColumnsOf("update_entry") = {"value"} /\ ColumnsOf("delete_entry") = {"deleted"}
    BY DEF Plain, NamingRoutes, Routes, VaultRoutes, TableOf, ColumnsOf, NotificationRoutes,
           FlagRoutes
  <1>2. \A e \in Entries, v \in Users, a \in Actions :
           {<<e, v, a>>} \subseteq Entries \X Users \X Actions
    OBVIOUS
  <1>3. ASSUME NEW v \in Values, CreateEntry(r, u, v) PROVE Base'
    <2>1. PICK e, entry : e = Some(Entries) /\ entry = [owner |-> u, value |-> v, deleted |-> FALSE]
      OBVIOUS
    <2> DEFINE new == Row(e, entry)
               logged == {<<e, u, "create">>}
               to == [Idle EXCEPT !.pc = "done", !.op = "create_entry", !.user = u, !.new = new,
                                  !.logged = logged]
    <2>2. /\ e \in Entries /\ row[e] = None
          /\ \A q \in Requests : e \notin DOMAIN req[q].new
      BY <1>3, <2>1, SomeFresh DEF CreateEntry
    <2>3. entry \in Entry BY <2>1 DEF Entry
    <2>4. Begin(r, to) BY <1>3, <2>1 DEF CreateEntry
    <2>5. DOMAIN new = {e} /\ new[e] = entry BY RowFields
    <2>6. logged \subseteq Entries \X Users \X Actions BY <1>2, <2>2 DEF Actions
    <2> HIDE DEF new, logged
    <2>7. /\ DOMAIN to = DOMAIN Idle /\ to.pc = "done" /\ to.op = "create_entry" /\ to.user = u
          /\ to.names = <<>> /\ to.links = Idle.links /\ to.logged = logged /\ to.next = "done"
          /\ to.todo = {} /\ to.hold = {} /\ to.data = NoColumns /\ to.new = new
      BY DEF Idle
    <2> HIDE DEF to
    <2>8. Updates(to) BY <2>7, IdleFields DEF Updates
    <2>9. /\ e \in Ids /\ WellFormed(e, entry) /\ "create_entry" \in Inserters(Kind(e))
          /\ \A y \in Ids : ~RefersTo(e, entry, y)
      BY <2>2, <2>3, KindsOfRows, RecordsOfTables, TablesOfInserters DEF WellFormed, RefersTo
    <2>10. "create_entry" \in Plain /\ "create_entry" \in VaultRoutes BY <1>1 DEF VaultRoutes
    <2>11. Fits(to) BY <2>2, <2>5, <2>6, <2>7, <2>8, <2>9, <2>10, PlainFits
    <2>12. QED BY <2>2, <2>4, <2>5, <2>7, <2>11, BeginKeepsBase
  <1>4. ASSUME NEW e \in Entries, NEW op \in {"get_entry", "update_entry", "delete_entry"},
               NEW data, NEW action \in Actions, OnEntry(r, op, u, e, data, action),
               \A c \in DOMAIN data : c \in ColumnsOf(op) /\ data[c] \in Column(c)
        PROVE  Base'
    <2> DEFINE logged == {<<e, u, action>>}
               to == [Idle EXCEPT !.pc = "write", !.op = op, !.user = u, !.data = data,
                                  !.todo = {e}, !.logged = logged]
    <2>1. Begin(r, to) /\ row[e] # None BY <1>4 DEF OnEntry, Live
    <2>2. logged \subseteq Entries \X Users \X Actions BY <1>2
    <2> HIDE DEF logged
    <2>3. /\ DOMAIN to = DOMAIN Idle /\ to.pc = "write" /\ to.op = op /\ to.user = u
          /\ to.names = <<>> /\ to.links = Idle.links /\ to.logged = logged /\ to.next = "done"
          /\ to.todo = {e} /\ to.hold = {} /\ to.data = data /\ to.new = NoRows
      BY DEF Idle
    <2> HIDE DEF to
    <2>4. e \in Ids /\ Kind(e) = "entry" /\ op \in Plain /\ op \in VaultRoutes
      BY <1>1, KindsOfRows DEF VaultRoutes
    <2>5. QED BY <1>1, <1>4, <2>1, <2>2, <2>3, <2>4, WritingKeepsBase
  <1>5. ASSUME NEW e \in Entries, GetEntry(r, u, e) PROVE Base'
    <2>1. OnEntry(r, "get_entry", u, e, NoColumns, "view") BY <1>5 DEF GetEntry
    <2>2. QED BY <1>4, <2>1, IdleFields DEF Actions
  <1>6. ASSUME NEW e \in Entries, NEW v \in Values, UpdateEntry(r, u, e, v) PROVE Base'
    <2> DEFINE body == [value |-> v]
               data == Changed(e, body)
    <2>1. OnEntry(r, "update_entry", u, e, data, "update") BY <1>6 DEF UpdateEntry
    <2>2. DOMAIN body = {"value"} /\ body["value"] = v OBVIOUS
    <2> HIDE DEF body
    <2>3. \A c \in DOMAIN data : c \in ColumnsOf("update_entry") /\ data[c] \in Column(c)
      BY <1>1, <2>2, ChangedColumns, ColumnValues
    <2> HIDE DEF data
    <2>4. QED BY <1>4, <2>1, <2>3 DEF Actions
  <1>7. ASSUME NEW e \in Entries, DeleteEntry(r, u, e) PROVE Base'
    <2> DEFINE data == [deleted |-> TRUE]
    <2>1. OnEntry(r, "delete_entry", u, e, data, "delete") BY <1>7 DEF DeleteEntry
    <2>2. DOMAIN data = {"deleted"} /\ data["deleted"] = TRUE OBVIOUS
    <2> HIDE DEF data
    <2>3. \A c \in DOMAIN data : c \in ColumnsOf("delete_entry") /\ data[c] \in Column(c)
      BY <1>1, <2>2, ColumnValues
    <2>4. QED BY <1>4, <2>1, <2>3 DEF Actions
  <1>8. ASSUME NEW e \in Entries, NEW v \in Users \cup {None}, ShareEntry(r, u, e, v)
        PROVE  Base'
    <2>1. PICK s, n, share, told :
            /\ s = Some(Shares) /\ n = Some(Notifications)
            /\ share = ShareRow(e, v) /\ told = Announcement(e, v)
      OBVIOUS
    <2> DEFINE new == IF v = None THEN Row(s, share) ELSE Both(Row(s, share), Row(n, told))
               logged == {<<e, u, "share">>}
               to == [Idle EXCEPT !.pc = "done", !.op = "share_entry", !.user = u, !.new = new,
                                  !.logged = logged]
    <2>2. /\ s \in Shares /\ row[s] = None /\ n \in Notifications /\ row[n] = None
          /\ \A q \in Requests : s \notin DOMAIN req[q].new /\ n \notin DOMAIN req[q].new
          /\ row[e] # None
      BY <1>8, <2>1, SomeFresh DEF ShareEntry, Live
    <2>3. share \in Share /\ share.entry = e BY <2>1 DEF Share, ShareRow
    <2>4. v # None => told \in Notification /\ told.entry = e
      BY <2>1 DEF Notification, Announcement
    <2>5. Begin(r, to) BY <1>8, <2>1 DEF ShareEntry
    <2>6. logged \subseteq Entries \X Users \X Actions BY <1>2 DEF Actions
    <2>7. /\ v = None => DOMAIN new = {s} /\ new[s] = share
          /\ v # None => new = Both(Row(s, share), Row(n, told))
      BY RowFields
    <2> HIDE DEF new, logged
    <2>8. /\ DOMAIN to = DOMAIN Idle /\ to.pc = "done" /\ to.op = "share_entry" /\ to.user = u
          /\ to.names = <<>> /\ to.links = Idle.links /\ to.logged = logged /\ to.next = "done"
          /\ to.todo = {} /\ to.hold = {} /\ to.data = NoColumns /\ to.new = new
      BY DEF Idle
    <2> HIDE DEF to
    <2>9. /\ s \in Ids /\ n \in Ids /\ s # n /\ WellFormed(s, share)
          /\ "share_entry" \in Inserters(Kind(s)) /\ "share_entry" \in Inserters(Kind(n))
          /\ \A y \in Ids : RefersTo(s, share, y) => y = e
      BY <2>2, <2>3, KindsOfRows, RecordsOfTables, TablesOfInserters DEF WellFormed, RefersTo
    <2>10. "share_entry" \in Plain /\ "share_entry" \in VaultRoutes BY <1>1 DEF VaultRoutes
    <2>11. CASE v = None
      <3>1. Updates(to) BY <2>8, IdleFields DEF Updates
      <3>2. DOMAIN new = {s} /\ new[s] = share BY <2>7, <2>11
      <3>3. Fits(to) BY <2>2, <2>6, <2>8, <2>9, <2>10, <3>1, <3>2, PlainFits
      <3>4. QED BY <2>2, <2>5, <2>8, <3>2, <3>3, BeginKeepsBase
    <2>12. CASE v # None
      <3>1. /\ WellFormed(n, told)
            /\ \A y \in Ids : RefersTo(n, told, y) => y = e
        BY <2>2, <2>4, <2>12, KindsOfRows, RecordsOfTables DEF WellFormed, RefersTo
      <3>2. to.new = Both(Row(s, share), Row(n, told)) BY <2>7, <2>8, <2>12
      <3>3. QED
        BY <2>2, <2>5, <2>6, <2>8, <2>9, <2>10, <3>1, <3>2, CreateBothKeepsBase
    <2>13. QED BY <2>11, <2>12
  <1>9. ASSUME NEW op \in NotificationRoutes, NEW N \in SUBSET Unread(u),
               Begin(r, [Idle EXCEPT !.pc = "write", !.op = op, !.user = u,
                                     !.data = [read |-> TRUE], !.todo = N])
        PROVE  Base'
    <2> DEFINE data == [read |-> TRUE]
               to == [Idle EXCEPT !.pc = "write", !.op = op, !.user = u, !.data = data,
                                  !.todo = N]
    <2>1. Begin(r, to) BY <1>9
    <2>2. DOMAIN data = {"read"} /\ data["read"] = TRUE OBVIOUS
    <2> HIDE DEF data
    <2>3. /\ DOMAIN to = DOMAIN Idle /\ to.pc = "write" /\ to.op = op /\ to.user = u
          /\ to.names = <<>> /\ to.links = Idle.links /\ to.logged = {} /\ to.next = "done"
          /\ to.todo = N /\ to.hold = {} /\ to.data = data /\ to.new = NoRows
      BY DEF Idle
    <2> HIDE DEF to
    <2>4. \A n \in N : n \in Notifications /\ row[n] # None BY DEF Unread, All, Live
    <2>5. \A n \in N : n \in Ids /\ Kind(n) = "notification" /\ row[n] # None
      BY <2>4, KindsOfRows
    <2>6. op \in Plain /\ TableOf(op) = "notification" /\ ColumnsOf(op) = {"read"} BY <1>1
    <2>7. \A c \in DOMAIN data : c \in ColumnsOf(op) /\ data[c] \in Column(c)
      BY <2>2, <2>6, ColumnValues
    <2>8. QED BY <2>1, <2>3, <2>5, <2>6, <2>7, WritingKeepsBase
  <1>10. ASSUME NEW n \in Notifications, MarkRead(r, u, n) PROVE Base'
    <2>1. {n} \in SUBSET Unread(u) BY <1>10 DEF MarkRead
    <2>2. QED BY <1>9, <1>10, <2>1 DEF MarkRead, NotificationRoutes
  <1>11. ASSUME MarkAllRead(r, u) PROVE Base'
    BY <1>9, <1>11 DEF MarkAllRead, NotificationRoutes
  <1>12. QED BY <1>3, <1>5, <1>6, <1>7, <1>8, <1>10, <1>11 DEF VaultCall

\* The calls of memos.
LEMMA MemoCallKeepsBase ==
  ASSUME Base, NEW r \in Requests, NEW u \in Users, MemoCall(r, u), UNCHANGED outside
  PROVE  Base'
  <1>1. /\ MemoRoutes \cup FlagRoutes \subseteq Plain
        /\ TableOf("update_memo") = "memo" /\ TableOf("delete_memo") = "memo"
        /\ \A op \in FlagRoutes : TableOf(op) = "memo"
        /\ ColumnsOf("update_memo") = {"content"} /\ ColumnsOf("delete_memo") = {"deleted"}
        /\ \A op \in {"pin_memo", "unpin_memo"} : ColumnsOf(op) = {"pinned"}
        /\ \A op \in {"favorite_memo", "unfavorite_memo"} : ColumnsOf(op) = {"favorite"}
    BY DEF Plain, NamingRoutes, Routes, MemoRoutes, TableOf, ColumnsOf, NotificationRoutes,
           FlagRoutes
  <1>2. ASSUME NEW c \in Contents, CreateMemo(r, u, c) PROVE Base'
    <2>1. PICK m, x : m = Some(MemoIds) /\ x = Some(VersionIds) OBVIOUS
    <2>2. PICK memo, version :
            /\ memo = [content |-> c, pinned |-> FALSE, favorite |-> FALSE, deleted |-> FALSE]
            /\ version = Version(m, c, 1)
      OBVIOUS
    <2>3. /\ m \in MemoIds /\ row[m] = None /\ x \in VersionIds /\ row[x] = None
          /\ \A q \in Requests : m \notin DOMAIN req[q].new /\ x \notin DOMAIN req[q].new
      BY <1>2, <2>1, SomeFresh DEF CreateMemo
    <2>4. memo \in Memo /\ version \in MemoVersion /\ version.memo = m
      BY <2>2, <2>3 DEF Memo, MemoVersion, Version
    <2>5. m # x /\ m \in Ids /\ x \in Ids /\ Kind(m) = "memo" /\ Kind(x) = "version"
      BY <2>3, KindsOfRows
    <2> DEFINE new == Both(Row(m, memo), Row(x, version))
               to == [Idle EXCEPT !.pc = "done", !.op = "create_memo", !.user = u, !.new = new]
    <2>6. Begin(r, to) BY <1>2, <2>1, <2>2 DEF CreateMemo
    <2>7. new = Both(Row(m, memo), Row(x, version)) OBVIOUS
    <2> HIDE DEF new
    <2>8. /\ DOMAIN to = DOMAIN Idle /\ to.pc = "done" /\ to.op = "create_memo" /\ to.user = u
          /\ to.names = <<>> /\ to.links = Idle.links /\ to.logged = {} /\ to.next = "done"
          /\ to.todo = {} /\ to.hold = {} /\ to.data = NoColumns /\ to.new = new
      BY DEF Idle
    <2> HIDE DEF to
    <2>9. /\ WellFormed(m, memo) /\ WellFormed(x, version)
          /\ "create_memo" \in Inserters(Kind(m)) /\ "create_memo" \in Inserters(Kind(x))
      BY <2>4, <2>5, RecordsOfTables, TablesOfInserters DEF WellFormed
    <2>10. \A z \in Ids : RefersTo(m, memo, z) \/ RefersTo(x, version, z) => z = m
      BY <2>4, <2>5 DEF RefersTo
    <2>11. "create_memo" \in Plain BY <1>1 DEF MemoRoutes
    <2>12. QED
      BY <2>3, <2>5, <2>6, <2>7, <2>8, <2>9, <2>10, <2>11, CreateBothKeepsBase
  <1>3. ASSUME NEW m \in MemoIds, NEW c \in Contents, UpdateMemo(r, u, m, c) PROVE Base'
    <2> DEFINE body == [content |-> c]
               data == Changed(m, body)
               next == IF row[m].content # c THEN "version" ELSE "done"
               to == [Idle EXCEPT !.pc = "write", !.op = "update_memo", !.user = u,
                                  !.data = data, !.todo = {m}, !.next = next]
    <2>1. Begin(r, to) /\ row[m] # None BY <1>3 DEF UpdateMemo, Live
    <2>2. DOMAIN body = {"content"} /\ body["content"] = c OBVIOUS
    <2> HIDE DEF body
    <2>3. \A d \in DOMAIN data : d \in ColumnsOf("update_memo") /\ data[d] \in Column(d)
      BY <1>1, <2>2, ChangedColumns, ColumnValues
    <2>4. \/ next = "done"
          \/ next = "version" /\ "content" \in DOMAIN data
      BY <2>2 DEF Changed
    <2> HIDE DEF data, next
    <2>5. /\ DOMAIN to = DOMAIN Idle /\ to.pc = "write" /\ to.op = "update_memo" /\ to.user = u
          /\ to.names = <<>> /\ to.links = Idle.links /\ to.logged = {} /\ to.next = next
          /\ to.todo = {m} /\ to.hold = {} /\ to.data = data /\ to.new = NoRows
      BY DEF Idle
    <2> HIDE DEF to
    <2>6. m \in Ids /\ Kind(m) = "memo" /\ "update_memo" \in Plain
      BY <1>1, KindsOfRows DEF MemoRoutes
    <2>7. QED BY <1>1, <2>1, <2>3, <2>4, <2>5, <2>6, WritingKeepsBase
  <1>4. ASSUME NEW m \in MemoIds, NEW b \in BOOLEAN, NEW op,
               \/ op \in {"pin_memo", "unpin_memo"} /\ Update(r, op, u, m, [pinned |-> b])
               \/ /\ op \in {"favorite_memo", "unfavorite_memo"}
                  /\ Update(r, op, u, m, [favorite |-> b])
        PROVE  Base'
    <2>1. op \in Plain /\ TableOf(op) = "memo" BY <1>1, <1>4 DEF FlagRoutes
    <2>2. m \in Ids /\ Kind(m) = "memo" BY KindsOfRows
    <2>3. CASE op \in {"pin_memo", "unpin_memo"} /\ Update(r, op, u, m, [pinned |-> b])
      <3> DEFINE data == [pinned |-> b]
      <3>1. DOMAIN data = {"pinned"} /\ data["pinned"] \in BOOLEAN /\ Update(r, op, u, m, data)
        BY <2>3
      <3> HIDE DEF data
      <3>2. \A c \in DOMAIN data : c \in ColumnsOf(op) /\ data[c] \in Column(c)
        BY <1>1, <2>3, <3>1, ColumnValues
      <3>3. QED BY <2>1, <2>2, <3>1, <3>2, UpdateKeepsBase
    <2>4. CASE /\ op \in {"favorite_memo", "unfavorite_memo"}
               /\ Update(r, op, u, m, [favorite |-> b])
      <3> DEFINE data == [favorite |-> b]
      <3>1. /\ DOMAIN data = {"favorite"} /\ data["favorite"] \in BOOLEAN
            /\ Update(r, op, u, m, data)
        BY <2>4
      <3> HIDE DEF data
      <3>2. \A c \in DOMAIN data : c \in ColumnsOf(op) /\ data[c] \in Column(c)
        BY <1>1, <2>4, <3>1, ColumnValues
      <3>3. QED BY <2>1, <2>2, <3>1, <3>2, UpdateKeepsBase
    <2>5. QED BY <1>4, <2>3, <2>4
  <1>5. ASSUME NEW m \in MemoIds, DeleteMemo(r, u, m) PROVE Base'
    <2>1. row[m] # None /\ DeleteSoft(r, "delete_memo", u, m) BY <1>5 DEF DeleteMemo, Live
    <2>2. m \in Ids /\ Kind(m) = "memo" /\ "delete_memo" \in Plain
      BY <1>1, KindsOfRows DEF MemoRoutes
    <2>3. QED BY <1>1, <2>1, <2>2, DeleteSoftKeepsBase
  <1>6. ASSUME NEW m \in MemoIds, \/ PinMemo(r, u, m) \/ UnpinMemo(r, u, m)
                                  \/ FavoriteMemo(r, u, m) \/ UnfavoriteMemo(r, u, m)
        PROVE  Base'
    BY <1>4, <1>6 DEF PinMemo, UnpinMemo, FavoriteMemo, UnfavoriteMemo
  <1>7. QED BY <1>2, <1>3, <1>5, <1>6 DEF MemoCall

\* The record of one call that inserts a row by name.
LEMMA OneNameFits ==
  ASSUME NEW to, DOMAIN to = DOMAIN Idle, to.pc = "insert",
         to.op \in {"create_permission", "create_role", "register"},
         to.user \in Users \cup {None}, to.links = Idle.links, to.logged = {}, to.todo = {},
         to.hold = {}, to.data = NoColumns, to.new = NoRows,
         \/ to.next = "done"
         \/ to.next = "mail" /\ to.op = "register",
         to.op = "register" => to.arg.to \in Addresses /\ to.arg.uid \in Uids,
         NEW x \in Ids, to.op \in Inserters(Kind(x)), NEW record, to.names = <<<<x, record>>>>, WellFormed(x, record),
         \A y \in Ids : RefersTo(x, record, y) => row[y] # None
  PROVE  Fits(to)
  <1>1. to.op \in Routes /\ to.op # None
    BY NothingAssumption DEF Routes, CatalogRoutes, AccountRoutes
  <1>2. <<x, record>> \in Ids \X Records BY RecordsThere
  <1>3. to.names \in Seq(Ids \X Records) /\ Len(to.names) = 1 /\ to.names[1] = <<x, record>>
    BY <1>2
  <1>4. Pending(to) = {<<x, record>>} BY <1>3 DEF Pending
  <1>5. Typed(to) BY <1>1, <1>3, IdleFields DEF Typed
  <1>6. InProgram(to) BY <1>1, <1>3, IdleFields DEF InProgram, NamingRoutes
  <1>7. Updates(to) /\ Relinks(to) BY IdleFields DEF Updates, Relinks
  <1>8. Inserts(to) BY <1>4, IdleFields DEF Inserts, Secured
  <1>9. Footprint(to) BY <1>4, IdleFields DEF Footprint
  <1>10. QED BY <1>5, <1>6, <1>7, <1>8, <1>9 DEF Fits

\* The calls of the role catalog.
LEMMA CatalogCallKeepsBase ==
  ASSUME Base, NEW r \in Requests, NEW u \in Users, CatalogCall(r, u), UNCHANGED outside
  PROVE  Base'
  <1>1. /\ "delete_permission" \in Plain /\ "delete_role" \in Plain
        /\ TableOf("delete_permission") = "permission" /\ TableOf("delete_role") = "role"
        /\ ColumnsOf("delete_permission") = {"deleted"} /\ ColumnsOf("delete_role") = {"deleted"}
    BY DEF Plain, NamingRoutes, Routes, CatalogRoutes, TableOf, ColumnsOf, NotificationRoutes,
           FlagRoutes
  <1>2. ASSUME NEW op \in {"create_permission", "create_role"}, NEW x \in Ids, NEW record,
               Begin(r, [Idle EXCEPT !.pc = "insert", !.op = op, !.user = u,
                                     !.names = <<<<x, record>>>>]),
               WellFormed(x, record), op \in Inserters(Kind(x)),
               \A y \in Ids : RefersTo(x, record, y) => row[y] # None
        PROVE  Base'
    <2> DEFINE names == <<<<x, record>>>>
               to == [Idle EXCEPT !.pc = "insert", !.op = op, !.user = u, !.names = names]
    <2>1. Begin(r, to) /\ names = <<<<x, record>>>> BY <1>2
    <2> HIDE DEF names
    <2>2. /\ DOMAIN to = DOMAIN Idle /\ to.pc = "insert" /\ to.op = op /\ to.user = u
          /\ to.names = names /\ to.links = Idle.links /\ to.logged = {} /\ to.next = "done"
          /\ to.todo = {} /\ to.hold = {} /\ to.data = NoColumns /\ to.new = NoRows
      BY DEF Idle
    <2> HIDE DEF to
    <2>3. Fits(to) BY <1>2, <2>1, <2>2, OneNameFits
    <2>4. QED BY <2>1, <2>2, <2>3, IdleFields, BeginKeepsBase
  <1>3. ASSUME NEW n \in PermissionNames, CreatePermission(r, u, n) PROVE Base'
    <2>1. PICK record : record = [deleted |-> FALSE] OBVIOUS
    <2>2. Begin(r, [Idle EXCEPT !.pc = "insert", !.op = "create_permission", !.user = u,
                                !.names = <<<<n, record>>>>])
      BY <1>3, <2>1 DEF CreatePermission
    <2>3. record \in Permission BY <2>1 DEF Permission
    <2>4. /\ n \in Ids /\ WellFormed(n, record) /\ "create_permission" \in Inserters(Kind(n))
          /\ \A y \in Ids : ~RefersTo(n, record, y)
      BY <2>3, KindsOfRows, RecordsOfTables, TablesOfInserters DEF WellFormed, RefersTo
    <2>5. QED BY <1>2, <2>2, <2>4
  <1>4. ASSUME NEW n \in RoleNames, NEW granted \in SUBSET PermissionNames,
               CreateRole(r, u, n, granted)
        PROVE  Base'
    <2>1. PICK record : record = [system |-> FALSE, grants |-> granted, deleted |-> FALSE]
      OBVIOUS
    <2>2. Begin(r, [Idle EXCEPT !.pc = "insert", !.op = "create_role", !.user = u,
                                !.names = <<<<n, record>>>>])
      BY <1>4, <2>1 DEF CreateRole
    <2>3. record \in Role /\ record.grants = granted BY <2>1 DEF Role
    <2>4. \A p \in granted : row[p] # None BY <1>4 DEF CreateRole, Live
    <2>5. /\ n \in Ids /\ WellFormed(n, record) /\ "create_role" \in Inserters(Kind(n))
          /\ \A y \in Ids : RefersTo(n, record, y) => row[y] # None
      BY <2>3, <2>4, KindsOfRows, RecordsOfTables, TablesOfInserters DEF WellFormed, RefersTo
    <2>6. QED BY <1>2, <2>2, <2>5
  <1>5. ASSUME NEW n \in RoleNames, NEW granted \in SUBSET PermissionNames,
               UpdateRole(r, u, n, granted)
        PROVE  Base'
    <2> DEFINE links == [of |-> n, add |-> granted \ row[n].grants,
                         remove |-> row[n].grants \ granted]
               to == [Idle EXCEPT !.pc = "links", !.op = "update_role", !.user = u,
                                  !.links = links]
    <2>1. /\ Begin(r, to) /\ row[n] # None
          /\ \A p \in granted : row[p] # None
      BY <1>5 DEF UpdateRole, Live
    <2>2. n \in Ids /\ row[n] \in Role
      BY <2>1, KindsOfRows, RecordsOfTables DEF Base, RowsFit, WellFormed
    <2>3. row[n].grants \subseteq PermissionNames BY <2>2 DEF Role
    <2>4. /\ links \in [of : RoleNames \cup {None}, add : SUBSET PermissionNames,
                        remove : SUBSET PermissionNames]
          /\ links.of = n /\ links.add \subseteq granted
      BY <2>3
    <2> HIDE DEF links
    <2>5. /\ DOMAIN to = DOMAIN Idle /\ to.pc = "links" /\ to.op = "update_role" /\ to.user = u
          /\ to.names = <<>> /\ to.links = links /\ to.logged = {} /\ to.next = "done"
          /\ to.todo = {} /\ to.hold = {} /\ to.data = NoColumns /\ to.new = NoRows
      BY DEF Idle
    <2> HIDE DEF to
    <2>6. "update_role" \in Routes /\ "update_role" # None
      BY NothingAssumption DEF Routes, CatalogRoutes
    <2>7. Typed(to) BY <2>4, <2>5, <2>6 DEF Typed
    <2>8. InProgram(to) BY <2>5, <2>6 DEF InProgram, NamingRoutes
    <2>9. Updates(to) BY <2>5, IdleFields DEF Updates
    <2>10. Pending(to) = {} BY <2>5 DEF Pending
    <2>11. Inserts(to) BY <2>5, <2>10, IdleFields DEF Inserts
    <2>12. Relinks(to) BY <2>1, <2>4, <2>5 DEF Relinks
    <2>13. Footprint(to) BY <2>5, <2>10, IdleFields DEF Footprint
    <2>14. Fits(to) BY <2>7, <2>8, <2>9, <2>11, <2>12, <2>13 DEF Fits
    <2>15. QED BY <2>1, <2>5, <2>14, IdleFields, BeginKeepsBase
  <1>6. ASSUME NEW n \in PermissionNames, DeletePermission(r, u, n) PROVE Base'
    <2>1. row[n] # None /\ DeleteSoft(r, "delete_permission", u, n)
      BY <1>6 DEF DeletePermission
    <2>2. n \in Ids /\ Kind(n) = "permission" BY KindsOfRows
    <2>3. QED BY <1>1, <2>1, <2>2, DeleteSoftKeepsBase
  <1>7. ASSUME NEW n \in RoleNames, DeleteRole(r, u, n) PROVE Base'
    <2>1. row[n] # None /\ DeleteSoft(r, "delete_role", u, n) BY <1>7 DEF DeleteRole
    <2>2. n \in Ids /\ Kind(n) = "role" BY KindsOfRows
    <2>3. QED BY <1>1, <2>1, <2>2, DeleteSoftKeepsBase
  <1>8. QED BY <1>3, <1>4, <1>5, <1>6, <1>7 DEF CatalogCall

\* The default roles and permissions are pending together.
LEMMA SeedKeepsBase ==
  ASSUME Base, NEW r \in Requests, Seed(r), UNCHANGED outside
  PROVE  Base'
  <1> DEFINE names == [i \in DOMAIN Defaults |-> <<Defaults[i], DefaultRow(Defaults[i])>>]
             to == [Idle EXCEPT !.pc = "lookup", !.op = "seed", !.next = "lookup",
                                !.names = names]
  <1>1. Begin(r, to) BY DEF Seed
  <1>2. ASSUME NEW i \in 1..Len(Defaults)
        PROVE  /\ Defaults[i] \in Ids /\ WellFormed(Defaults[i], DefaultRow(Defaults[i]))
               /\ "seed" \in Inserters(Kind(Defaults[i]))
               /\ \A y \in Ids : RefersTo(Defaults[i], DefaultRow(Defaults[i]), y) =>
                     \E j \in 1..Len(Defaults) : Defaults[j] = y
    <2>1. Defaults[i] \in PermissionNames \cup DOMAIN DefaultGrants BY DefaultsAssumption
    <2>2. CASE Defaults[i] \in PermissionNames
      <3>1. Defaults[i] \in Ids /\ Kind(Defaults[i]) = "permission" BY <2>2, KindsOfRows
      <3>2. DefaultRow(Defaults[i]) \in Permission BY <2>2 DEF DefaultRow, Permission
      <3>3. QED BY <3>1, <3>2, RecordsOfTables, TablesOfInserters DEF WellFormed, RefersTo
    <2>3. CASE Defaults[i] \notin PermissionNames
      <3> DEFINE n == Defaults[i]
      <3>1. n \in DOMAIN DefaultGrants /\ n \in RoleNames BY <2>1, <2>3, DefaultsAssumption
      <3>2. DefaultGrants[n] \subseteq {Defaults[j] : j \in 1..Len(Defaults)} \cap PermissionNames
        BY <3>1, DefaultsAssumption
      <3>3. /\ DefaultRow(n) = [system |-> TRUE, grants |-> DefaultGrants[n], deleted |-> FALSE]
        BY <2>3 DEF DefaultRow
      <3>4. DefaultRow(n) \in Role /\ DefaultRow(n).grants = DefaultGrants[n]
        BY <3>2, <3>3 DEF Role
      <3>5. n \in Ids /\ Kind(n) = "role" BY <3>1, KindsOfRows
      <3>6. QED BY <3>2, <3>4, <3>5, RecordsOfTables, TablesOfInserters DEF WellFormed, RefersTo
    <2>4. QED BY <2>2, <2>3
  <1>3. Defaults \in Seq(PermissionNames \cup DOMAIN DefaultGrants) BY DefaultsAssumption
  <1>4. DOMAIN Defaults = 1..Len(Defaults) /\ Len(Defaults) \in Nat BY <1>3
  <1>5. \A i \in 1..Len(Defaults) : <<Defaults[i], DefaultRow(Defaults[i])>> \in Ids \X Records
    BY <1>2, RecordsThere
  <1>6. names \in Seq(Ids \X Records) /\ Len(names) = Len(Defaults) BY <1>4, <1>5
  <1>7. \A i \in 1..Len(Defaults) : names[i] = <<Defaults[i], DefaultRow(Defaults[i])>>
    BY <1>4
  <1> HIDE DEF names
  <1>8. /\ DOMAIN to = DOMAIN Idle /\ to.pc = "lookup" /\ to.op = "seed" /\ to.user = None
        /\ to.names = names /\ to.links = Idle.links /\ to.logged = {} /\ to.next = "lookup"
        /\ to.todo = {} /\ to.hold = {} /\ to.data = NoColumns /\ to.new = NoRows
    BY DEF Idle
  <1> HIDE DEF to
  <1>9. "seed" \in Routes /\ "seed" # None BY NothingAssumption DEF Routes
  <1>10. Typed(to) BY <1>6, <1>8, <1>9, IdleFields DEF Typed
  <1>11. InProgram(to) BY <1>8, <1>9 DEF InProgram, NamingRoutes
  <1>12. Updates(to) /\ Relinks(to) BY <1>8, IdleFields DEF Updates, Relinks
  <1>13. Pending(to) = {names[i] : i \in 1..Len(Defaults)} BY <1>6, <1>8 DEF Pending
  <1>14. \A y : (\E j \in 1..Len(Defaults) : Defaults[j] = y) => Secured(to, y)
    BY <1>7, <1>13 DEF Secured
  <1>15. ASSUME NEW n \in Pending(to)
         PROVE  /\ WellFormed(n[1], n[2]) /\ "seed" \in Inserters(Kind(n[1]))
                /\ \A y \in Ids : RefersTo(n[1], n[2], y) => Secured(to, y)
    <2>1. PICK i \in 1..Len(Defaults) : n = <<Defaults[i], DefaultRow(Defaults[i])>>
      BY <1>7, <1>13
    <2>2. n[1] = Defaults[i] /\ n[2] = DefaultRow(Defaults[i]) BY <2>1
    <2>3. QED BY <1>2, <1>14, <2>2
  <1>16. Inserts(to) BY <1>8, <1>15, IdleFields DEF Inserts
  <1>17. Footprint(to) BY <1>8, <1>15, IdleFields DEF Footprint
  <1>18. Fits(to) BY <1>10, <1>11, <1>12, <1>16, <1>17 DEF Fits
  <1>19. QED BY <1>1, <1>8, <1>18, IdleFields, BeginKeepsBase

\* The calls of accounts.
LEMMA AccountCallKeepsBase ==
  ASSUME Base, NEW r \in Requests, AccountCall(r)
  PROVE  Base'
  <1>1. ASSUME NEW a \in Addresses, row[a] # None
        PROVE  a \in Ids /\ Kind(a) = "user" /\ row[a].uid \in Uids
    <2>1. a \in Ids /\ row[a] \in User
      BY <1>1, KindsOfRows, RecordsOfTables DEF Base, RowsFit, WellFormed
    <2>2. QED BY <2>1, KindsOfRows DEF User
  <1>2. ASSUME NEW a \in Addresses, NEW v \in Profiles, Register(r, a, v) PROVE Base'
    <2>1. PICK i \in NewUids : i = CHOOSE j \in NewUids : TRUE BY <1>2 DEF Register
    <2>2. PICK user : user = [uid |-> i, verified |-> FALSE, profile |-> v, deleted |-> FALSE]
      OBVIOUS
    <2> DEFINE names == <<<<a, user>>>>
               arg == [to |-> a, uid |-> i]
               to == [Idle EXCEPT !.pc = "insert", !.op = "register", !.next = "mail",
                                  !.arg = arg, !.names = names]
    <2>3. Begin(r, to) /\ UNCHANGED outside BY <1>2, <2>1, <2>2 DEF Register
    <2>4. i \in Uids BY <2>1 DEF NewUids
    <2>5. arg.to = a /\ arg.uid = i /\ names = <<<<a, user>>>> OBVIOUS
    <2> HIDE DEF names, arg
    <2>6. /\ DOMAIN to = DOMAIN Idle /\ to.pc = "insert" /\ to.op = "register" /\ to.user = None
          /\ to.names = names /\ to.links = Idle.links /\ to.logged = {} /\ to.next = "mail"
          /\ to.todo = {} /\ to.hold = {} /\ to.data = NoColumns /\ to.new = NoRows /\ to.arg = arg
      BY DEF Idle
    <2> HIDE DEF to
    <2>7. user \in User BY <2>2, <2>4 DEF User
    <2>8. /\ a \in Ids /\ WellFormed(a, user) /\ "register" \in Inserters(Kind(a))
          /\ \A y \in Ids : ~RefersTo(a, user, y)
      BY <2>7, KindsOfRows, RecordsOfTables, TablesOfInserters DEF WellFormed, RefersTo
    <2>9. Fits(to) BY <2>4, <2>5, <2>6, <2>8, OneNameFits
    <2>10. QED BY <2>3, <2>6, <2>9, IdleFields, BeginKeepsBase
  <1>3. ASSUME NEW to, DOMAIN to = DOMAIN Idle, to.user = None, to.names = <<>>,
               to.links = Idle.links, to.logged = {}, to.next = "done", to.todo = {},
               to.hold = {}, to.data = NoColumns, to.new = NoRows,
               \/ /\ to.pc = "mail" /\ to.op = "resend_verification"
                  /\ to.arg.to \in Addresses /\ to.arg.uid \in Uids
               \/ /\ to.pc = "use" /\ to.op = "verify_email"
                  /\ to.arg.link \in Links /\ to.arg.uid \in Uids,
               Begin(r, to), UNCHANGED outside
        PROVE  Base'
    <2>1. to.op \in Routes /\ to.op # None
      BY <1>3, NothingAssumption DEF Routes, AccountRoutes
    <2>2. Typed(to) BY <1>3, <2>1, IdleFields DEF Typed
    <2>3. InProgram(to) BY <1>3, <2>1 DEF InProgram, NamingRoutes
    <2>4. Updates(to) /\ Relinks(to) BY <1>3, IdleFields DEF Updates, Relinks
    <2>5. Pending(to) = {} BY <1>3 DEF Pending
    <2>6. Inserts(to) BY <1>3, <2>5, IdleFields DEF Inserts
    <2>7. Footprint(to) BY <1>3, <2>5, IdleFields DEF Footprint
    <2>8. Fits(to) BY <2>2, <2>3, <2>4, <2>6, <2>7 DEF Fits
    <2>9. QED BY <1>3, <2>8, IdleFields, BeginKeepsBase
  <1>4. ASSUME NEW a \in Addresses, ResendVerification(r, a) PROVE Base'
    <2> DEFINE arg == [to |-> a, uid |-> row[a].uid]
               to == [Idle EXCEPT !.pc = "mail", !.op = "resend_verification", !.arg = arg]
    <2>1. Begin(r, to) /\ UNCHANGED outside /\ row[a] # None
      BY <1>4 DEF ResendVerification, Live
    <2>2. arg.to = a /\ arg.uid = row[a].uid OBVIOUS
    <2> HIDE DEF arg
    <2>3. /\ DOMAIN to = DOMAIN Idle /\ to.pc = "mail" /\ to.op = "resend_verification"
          /\ to.user = None
          /\ to.names = <<>> /\ to.links = Idle.links /\ to.logged = {} /\ to.next = "done"
          /\ to.todo = {} /\ to.hold = {} /\ to.data = NoColumns /\ to.new = NoRows /\ to.arg = arg
      BY DEF Idle
    <2> HIDE DEF to
    <2>4. row[a].uid \in Uids BY <1>1, <2>1
    <2>5. QED BY <1>3, <2>1, <2>2, <2>3, <2>4
  <1>5. ASSUME NEW t \in Links, VerifyEmail(r, t) PROVE Base'
    <2> DEFINE arg == [link |-> t, uid |-> link[t]]
               to == [Idle EXCEPT !.pc = "use", !.op = "verify_email", !.arg = arg]
    <2>1. Begin(r, to) /\ UNCHANGED outside /\ link[t] # None BY <1>5 DEF VerifyEmail
    <2>2. arg.link = t /\ arg.uid = link[t] OBVIOUS
    <2> HIDE DEF arg
    <2>3. /\ DOMAIN to = DOMAIN Idle /\ to.pc = "use" /\ to.op = "verify_email"
          /\ to.user = None
          /\ to.names = <<>> /\ to.links = Idle.links /\ to.logged = {} /\ to.next = "done"
          /\ to.todo = {} /\ to.hold = {} /\ to.data = NoColumns /\ to.new = NoRows /\ to.arg = arg
      BY DEF Idle
    <2> HIDE DEF to
    <2>4. link[t] \in Uids BY <2>1 DEF Base
    <2>5. QED BY <1>3, <2>1, <2>2, <2>3, <2>4
  <1>6. ASSUME NEW a \in Addresses, NEW v \in Profiles, UpdateProfile(r, a, v) PROVE Base'
    <2> DEFINE data == [profile |-> v]
    <2>1. Update(r, "update_profile", None, a, data) /\ UNCHANGED outside
      BY <1>6 DEF UpdateProfile
    <2>2. DOMAIN data = {"profile"} /\ data["profile"] = v OBVIOUS
    <2> HIDE DEF data
    <2>3. /\ "update_profile" \in Plain /\ TableOf("update_profile") = "user"
          /\ ColumnsOf("update_profile") = {"profile"}
      BY DEF Plain, NamingRoutes, Routes, AccountRoutes, TableOf, ColumnsOf, NotificationRoutes,
             FlagRoutes
    <2>4. \A c \in DOMAIN data : c \in ColumnsOf("update_profile") /\ data[c] \in Column(c)
      BY <2>2, <2>3, ColumnValues
    <2>5. a \in Ids /\ Kind(a) = "user" BY KindsOfRows
    <2>6. QED BY <2>1, <2>3, <2>4, <2>5, UpdateKeepsBase
  <1>7. QED BY <1>2, <1>4, <1>5, <1>6 DEF AccountCall

-----------------------------------------------------------------------------
\* The fields of a request.
LEMMA Fields ==
  ASSUME NEW q, Typed(q)
  PROVE  DOMAIN q = {"pc", "op", "user", "data", "todo", "hold", "next", "new", "logged",
                     "names", "links", "arg"}
  BY DEF Typed, Idle

\* A step that inserts nothing further.
LEMMA MoveKeepsBase ==
  ASSUME Base, NEW r \in Requests, NEW to, Continue(r, to),
         link' \in [Links -> Uids \cup {None}], mail' \subseteq Links \X Addresses \X Uids,
         DOMAIN to = DOMAIN req[r], to.pc \in {"write", "version", "insert", "open", "done"},
         to.op = req[r].op, to.user = req[r].user, to.next = req[r].next,
         to.logged = req[r].logged, to.links = req[r].links, to.new = req[r].new,
         to.names = req[r].names, Updates(to), InProgram(to),
         to.todo # {} => to.pc = "write", to.pc \in {"write", "version"} => DOMAIN to.new = {},
         \A q \in Requests \ {r} : to.hold \cap req[q].hold = {}
  PROVE  Base'
  <1>1. Fits(req[r]) BY DEF Base
  <1>2. Typed(to) BY <1>1 DEF Fits, Typed
  <1>3. Inserts(to) BY <1>1 DEF Fits, Inserts, Secured, Pending
  <1>4. Relinks(to) BY <1>1 DEF Fits, Relinks
  <1>5. Footprint(to) BY <1>1 DEF Fits, Footprint, Pending
  <1>6. Fits(to) BY <1>2, <1>3, <1>4, <1>5 DEF Fits
  <1>7. \A q \in Requests \ {r} : Parted(to, req[q]) BY DEF Base, Parted
  <1>8. QED BY <1>6, <1>7, ContinueKeepsBase

\* The mail of a link.
LEMMA MailLinkKeepsBase ==
  ASSUME Base, NEW r \in Requests, MailLink(r)
  PROVE  Base'
  <1>1. /\ Typed(req[r]) /\ InProgram(req[r]) /\ Updates(req[r]) /\ Footprint(req[r])
        /\ req[r].pc = "mail"
    BY DEF MailLink, At, Base, Fits
  <1>2. req[r].arg.to \in Addresses /\ req[r].arg.uid \in Uids BY <1>1 DEF InProgram
  <1>3. PICK t \in Links :
          /\ link' = [link EXCEPT ![t] = req[r].arg.uid]
          /\ \/ /\ mail' = mail \cup {<<t, req[r].arg.to, req[r].arg.uid>>}
                /\ Continue(r, [req[r] EXCEPT !.pc = "done"])
             \/ Abort(r) /\ UNCHANGED mail
    BY DEF MailLink
  <1>4. link' \in [Links -> Uids \cup {None}] BY <1>2, <1>3 DEF Base
  <1>5. mail' \subseteq Links \X Addresses \X Uids BY <1>2, <1>3 DEF Base
  <1>6. CASE Abort(r) BY <1>4, <1>5, <1>6, AbortKeepsBase
  <1>7. CASE Continue(r, [req[r] EXCEPT !.pc = "done"])
    <2> DEFINE to == [req[r] EXCEPT !.pc = "done"]
    <2>1. /\ DOMAIN to = DOMAIN req[r] /\ to.pc = "done" /\ to.op = req[r].op
          /\ to.user = req[r].user /\ to.next = req[r].next /\ to.logged = req[r].logged
          /\ to.links = req[r].links /\ to.new = req[r].new /\ to.names = req[r].names
          /\ to.data = req[r].data /\ to.todo = req[r].todo /\ to.hold = req[r].hold
          /\ to.arg = req[r].arg
      BY <1>1, Fields
    <2>2. Continue(r, to) BY <1>7
    <2> HIDE DEF to
    <2>3. Updates(to) BY <1>1, <2>1 DEF Updates
    <2>4. InProgram(to) BY <1>1, <2>1 DEF InProgram
    <2>5. \A q \in Requests \ {r} : to.hold \cap req[q].hold = {} BY <2>1 DEF Base, Parted
    <2>6. to.todo = {} BY <1>1, <2>1 DEF Footprint
    <2>7. QED BY <1>4, <1>5, <2>1, <2>2, <2>3, <2>4, <2>5, <2>6, MoveKeepsBase
  <1>8. QED BY <1>3, <1>6, <1>7

\* The key of a link is read and deleted.
LEMMA UseLinkKeepsBase ==
  ASSUME Base, NEW r \in Requests, UseLink(r)
  PROVE  Base'
  <1>1. /\ Typed(req[r]) /\ InProgram(req[r]) /\ Updates(req[r]) /\ Footprint(req[r])
        /\ req[r].pc = "use"
    BY DEF UseLink, At, Base, Fits
  <1> DEFINE to == [req[r] EXCEPT !.pc = "open"]
  <1>2. /\ DOMAIN to = DOMAIN req[r] /\ to.pc = "open" /\ to.op = req[r].op
        /\ to.user = req[r].user /\ to.next = req[r].next /\ to.logged = req[r].logged
        /\ to.links = req[r].links /\ to.new = req[r].new /\ to.names = req[r].names
        /\ to.data = req[r].data /\ to.todo = req[r].todo /\ to.hold = req[r].hold
        /\ to.arg = req[r].arg
    BY <1>1, Fields
  <1>3. /\ Continue(r, to) /\ link' = [link EXCEPT ![req[r].arg.link] = None]
        /\ UNCHANGED mail
    BY DEF UseLink
  <1> HIDE DEF to
  <1>4. link' \in [Links -> Uids \cup {None}] /\ mail' \subseteq Links \X Addresses \X Uids
    BY <1>3 DEF Base
  <1>5. Updates(to) BY <1>1, <1>2 DEF Updates
  <1>6. InProgram(to) BY <1>1, <1>2 DEF InProgram
  <1>7. \A q \in Requests \ {r} : to.hold \cap req[q].hold = {} BY <1>2 DEF Base, Parted
  <1>8. to.todo = {} BY <1>1, <1>2 DEF Footprint
  <1>9. QED BY <1>2, <1>3, <1>4, <1>5, <1>6, <1>7, <1>8, MoveKeepsBase

\* The account of a link is looked up.
LEMMA OpenAccountKeepsBase ==
  ASSUME Base, NEW r \in Requests, OpenAccount(r)
  PROVE  Base'
  <1>1. /\ Typed(req[r]) /\ InProgram(req[r]) /\ Updates(req[r]) /\ Footprint(req[r])
        /\ req[r].pc = "open"
    BY DEF OpenAccount, At, Base, Fits
  <1>2. req[r].op = "verify_email" BY <1>1 DEF InProgram
  <1>3. link' \in [Links -> Uids \cup {None}] /\ mail' \subseteq Links \X Addresses \X Uids
    BY DEF OpenAccount, Open, outside, Base
  <1>4. \A q \in Requests \ {r} : req[r].hold \cap req[q].hold = {} BY DEF Base, Parted
  <1>5. CASE Abort(r) BY <1>3, <1>5, AbortKeepsBase
  <1>6. CASE Continue(r, [req[r] EXCEPT !.pc = "done"])
    <2> DEFINE to == [req[r] EXCEPT !.pc = "done"]
    <2>1. /\ DOMAIN to = DOMAIN req[r] /\ to.pc = "done" /\ to.op = req[r].op
          /\ to.user = req[r].user /\ to.next = req[r].next /\ to.logged = req[r].logged
          /\ to.links = req[r].links /\ to.new = req[r].new /\ to.names = req[r].names
          /\ to.data = req[r].data /\ to.todo = req[r].todo /\ to.hold = req[r].hold
          /\ to.arg = req[r].arg
      BY <1>1, Fields
    <2>2. Continue(r, to) BY <1>6
    <2> HIDE DEF to
    <2>3. Updates(to) BY <1>1, <2>1 DEF Updates
    <2>4. InProgram(to) BY <1>1, <1>2, <2>1 DEF InProgram, NamingRoutes
    <2>5. to.todo = {} BY <1>1, <2>1 DEF Footprint
    <2>6. QED BY <1>3, <1>4, <2>1, <2>2, <2>3, <2>4, <2>5, MoveKeepsBase
  <1>7. ASSUME NEW a \in Addresses, row[a] # None,
               Continue(r, [req[r] EXCEPT !.pc = "write", !.todo = {a},
                                          !.data = [verified |-> TRUE]])
        PROVE  Base'
    <2> DEFINE data == [verified |-> TRUE]
               to == [req[r] EXCEPT !.pc = "write", !.todo = {a}, !.data = data]
    <2>1. Continue(r, to) BY <1>7
    <2>2. DOMAIN data = {"verified"} /\ data["verified"] = TRUE OBVIOUS
    <2> HIDE DEF data
    <2>3. /\ DOMAIN to = DOMAIN req[r] /\ to.pc = "write" /\ to.op = req[r].op
          /\ to.user = req[r].user /\ to.next = req[r].next /\ to.logged = req[r].logged
          /\ to.links = req[r].links /\ to.new = req[r].new /\ to.names = req[r].names
          /\ to.data = data /\ to.todo = {a} /\ to.hold = req[r].hold
          /\ to.arg = req[r].arg
      BY <1>1, Fields
    <2> HIDE DEF to
    <2>4. TableOf("verify_email") = "user" /\ ColumnsOf("verify_email") = {"verified"}
      BY DEF TableOf, ColumnsOf, NotificationRoutes, FlagRoutes
    <2>5. a \in Ids /\ Kind(a) = "user" BY KindsOfRows
    <2>6. Updates(to)
      <3>1. \A c \in DOMAIN to.data : c \in ColumnsOf(to.op) /\ to.data[c] \in Column(c)
        BY <1>2, <2>2, <2>3, <2>4, ColumnValues
      <3>2. \A x \in to.todo \cup to.hold : x \in Ids /\ Kind(x) = TableOf(to.op) /\ row[x] # None
        BY <1>1, <1>2, <1>7, <2>3, <2>4, <2>5 DEF Updates
      <3>3. QED BY <3>1, <3>2 DEF Updates
    <2>7. InProgram(to) BY <1>1, <1>2, <2>3 DEF InProgram, NamingRoutes
    <2>8. DOMAIN to.new = {}
      <3>1. \A x \in DOMAIN to.new : x \in Ids /\ "verify_email" \in Inserters(Kind(x))
        BY <1>1, <1>2, <2>3 DEF Base, Fits, Inserts, Footprint
      <3>2. QED BY <3>1, TableOfKind, TablesOfInserters DEF Tables
    <2>9. QED BY <1>3, <1>4, <2>1, <2>3, <2>6, <2>7, <2>8, MoveKeepsBase
  <1>8. QED BY <1>5, <1>6, <1>7 DEF OpenAccount, Open

\* The UPDATE of one row.
LEMMA WriteKeepsBase ==
  ASSUME Base, NEW r \in Requests, Write(r), UNCHANGED outside
  PROVE  Base'
  <1>1. /\ Typed(req[r]) /\ InProgram(req[r]) /\ Updates(req[r]) /\ Footprint(req[r])
        /\ req[r].pc = "write"
    BY DEF Write, At, Base, Fits
  <1>2. link' \in [Links -> Uids \cup {None}] /\ mail' \subseteq Links \X Addresses \X Uids
    BY DEF outside, Base
  <1>3. PICK x \in req[r].todo :
          /\ ~Waits(r, x)
          /\ Continue(r, [req[r] EXCEPT
                            !.pc = IF req[r].todo \ {x} = {} THEN req[r].next ELSE @,
                            !.todo = req[r].todo \ {x}, !.hold = @ \cup {x}])
    BY DEF Write
  <1> DEFINE pc == IF req[r].todo \ {x} = {} THEN req[r].next ELSE req[r].pc
             rest == req[r].todo \ {x}
             hold == req[r].hold \cup {x}
             to == [req[r] EXCEPT !.pc = pc, !.todo = rest, !.hold = hold]
  <1>4. Continue(r, to) BY <1>1, <1>3, Fields
  <1>5. pc \in {"write", req[r].next} BY <1>1
  <1> HIDE DEF pc, rest, hold
  <1>6. /\ DOMAIN to = DOMAIN req[r] /\ to.pc = pc /\ to.op = req[r].op
        /\ to.user = req[r].user /\ to.next = req[r].next /\ to.logged = req[r].logged
        /\ to.links = req[r].links /\ to.new = req[r].new /\ to.names = req[r].names
        /\ to.data = req[r].data /\ to.todo = rest /\ to.hold = hold /\ to.arg = req[r].arg
    BY <1>1, Fields
  <1> HIDE DEF to
  <1>7. Updates(to) BY <1>1, <1>6 DEF Updates, rest, hold
  <1>8. req[r].op \notin NamingRoutes /\ req[r].next \in {"done", "version"}
    BY <1>1 DEF InProgram, NamingRoutes, Typed
  <1>9. InProgram(to) BY <1>1, <1>5, <1>6, <1>8 DEF InProgram, NamingRoutes
  <1>10. to.pc \in {"write", "version", "done"} BY <1>1, <1>5, <1>6, <1>8
  <1>11. \A q \in Requests \ {r} : to.hold \cap req[q].hold = {}
    <2>1. \A q \in Requests \ {r} : x \notin req[q].hold BY <1>3 DEF Waits
    <2>2. \A q \in Requests \ {r} : req[r].hold \cap req[q].hold = {} BY DEF Base, Parted
    <2>3. QED BY <1>6, <2>1, <2>2 DEF hold
  <1>12. /\ to.todo # {} => to.pc = "write"
         /\ to.pc \in {"write", "version"} => DOMAIN to.new = {}
    BY <1>1, <1>6 DEF pc, rest, Footprint
  <1>13. QED BY <1>2, <1>4, <1>6, <1>7, <1>9, <1>10, <1>11, <1>12, MoveKeepsBase

\* A step that inserts one row further, and leaves the rows to update alone.
LEMMA InsertKeepsBase ==
  ASSUME Base, NEW r \in Requests, NEW to, Continue(r, to), UNCHANGED outside,
         DOMAIN to = DOMAIN req[r], to.pc \in {"lookup", "mail", "done"},
         to.op = req[r].op, to.user = req[r].user, to.next = req[r].next,
         to.logged = req[r].logged, to.links = req[r].links, to.data = req[r].data,
         to.todo = req[r].todo, to.hold = req[r].hold, to.arg = req[r].arg,
         to.names \in Seq(Ids \X Records), InProgram(to), Inserts(to),
         to.todo = {}, \A x \in DOMAIN to.new : to.op \in Inserters(Kind(x)),
         \A n \in Pending(to) : to.op \in Inserters(Kind(n[1])),
         \A q \in Requests \ {r} : DOMAIN to.new \cap DOMAIN req[q].new = {}
  PROVE  Base'
  <1>1. Fits(req[r]) BY DEF Base
  <1>2. Typed(to) BY <1>1 DEF Fits, Typed
  <1>3. Updates(to) BY <1>1 DEF Fits, Updates
  <1>4. Relinks(to) BY <1>1 DEF Fits, Relinks
  <1>5. Footprint(to) BY <1>1 DEF Fits, Footprint
  <1>6. Fits(to) BY <1>2, <1>3, <1>4, <1>5 DEF Fits
  <1>7. \A q \in Requests \ {r} : Parted(to, req[q]) BY DEF Base, Parted
  <1>8. link' \in [Links -> Uids \cup {None}] /\ mail' \subseteq Links \X Addresses \X Uids
    BY DEF outside, Base
  <1>9. QED BY <1>6, <1>7, <1>8, ContinueKeepsBase

\* The versions of a memo can be counted.
LEMMA VersionsAreFinite ==
  ASSUME NEW m
  PROVE  IsFiniteSet(VersionsOf(m)) /\ Cardinality(VersionsOf(m)) \in Nat
  <1>1. VersionsOf(m) \subseteq VersionIds BY DEF VersionsOf, All
  <1>2. QED BY <1>1, FinitenessAssumption, FS_Subset, FS_CardinalityType

\* A version is added.
LEMMA AddVersionKeepsBase ==
  ASSUME Base, NEW r \in Requests, AddVersion(r), UNCHANGED outside
  PROVE  Base'
  <1>1. /\ Typed(req[r]) /\ InProgram(req[r]) /\ Updates(req[r]) /\ Inserts(req[r])
        /\ Footprint(req[r]) /\ req[r].pc = "version"
    BY DEF AddVersion, At, Base, Fits
  <1>2. /\ req[r].op = "update_memo" /\ "content" \in DOMAIN req[r].data
        /\ req[r].names = <<>>
    BY <1>1 DEF InProgram, NamingRoutes
  <1>3. PICK m \in req[r].hold :
          IF Fresh(VersionIds) = {} THEN Abort(r)
          ELSE Continue(r, [req[r] EXCEPT !.pc = "done",
                              !.new = Row(Some(VersionIds),
                                          Version(m, req[r].data.content,
                                                  Cardinality(VersionsOf(m)) + 1))])
    BY DEF AddVersion
  <1>4. CASE Abort(r) BY <1>4, AbortKeepsBase DEF outside, Base
  <1>5. CASE Fresh(VersionIds) # {} /\ ~Abort(r)
    <2>1. PICK x, version : /\ x = Some(VersionIds)
                            /\ version = Version(m, req[r].data.content,
                                                 Cardinality(VersionsOf(m)) + 1)
      OBVIOUS
    <2> DEFINE new == Row(x, version)
               to == [req[r] EXCEPT !.pc = "done", !.new = new]
    <2>2. Continue(r, to) BY <1>3, <1>5, <2>1
    <2>3. DOMAIN new = {x} /\ new[x] = version BY RowFields
    <2> HIDE DEF new
    <2>4. /\ DOMAIN to = DOMAIN req[r] /\ to.pc = "done" /\ to.op = req[r].op
          /\ to.user = req[r].user /\ to.next = req[r].next /\ to.logged = req[r].logged
          /\ to.links = req[r].links /\ to.new = new /\ to.names = req[r].names
          /\ to.data = req[r].data /\ to.todo = req[r].todo /\ to.hold = req[r].hold
          /\ to.arg = req[r].arg
      BY <1>1, Fields
    <2> HIDE DEF to
    <2>5. /\ x \in VersionIds /\ row[x] = None
          /\ \A q \in Requests : x \notin DOMAIN req[q].new
      BY <1>5, <2>1, SomeFresh
    <2>6. TableOf("update_memo") = "memo" BY DEF TableOf, NotificationRoutes, FlagRoutes
    <2>7. m \in MemoIds /\ row[m] # None
      BY <1>1, <1>2, <2>6, TableOfKind DEF Updates
    <2>8. req[r].data.content \in Contents BY <1>1, <1>2, ColumnValues DEF Updates
    <2>9. version \in MemoVersion /\ version.memo = m
      BY <2>1, <2>7, <2>8, VersionsAreFinite DEF Version, MemoVersion
    <2>10. /\ x \in Ids /\ WellFormed(x, version)
           /\ \A y \in Ids : RefersTo(x, version, y) => y = m
      BY <2>5, <2>9, KindsOfRows, RecordsOfTables DEF WellFormed, RefersTo
    <2>11. Pending(to) = {} BY <1>2, <2>4 DEF Pending
    <2>12. Inserts(to) BY <2>3, <2>4, <2>5, <2>7, <2>10, <2>11 DEF Inserts, Secured
    <2>13. InProgram(to) BY <1>1, <1>2, <2>4 DEF InProgram, NamingRoutes
    <2>14. /\ to.todo = {} /\ \A y \in DOMAIN to.new : to.op \in Inserters(Kind(y))
           /\ \A n \in Pending(to) : to.op \in Inserters(Kind(n[1]))
      BY <1>1, <1>2, <2>3, <2>4, <2>5, <2>11, KindsOfRows, TablesOfInserters DEF Footprint
    <2>15. QED BY <1>1, <2>2, <2>3, <2>4, <2>5, <2>12, <2>13, <2>14, InsertKeepsBase DEF Typed
  <1>6. QED BY <1>3, <1>4, <1>5

\* The rows to insert by name: the next one, and those after it.
LEMMA PendingOfTail ==
  ASSUME NEW q, NEW to, NEW S, q.names \in Seq(S), q.names # <<>>, to.names = Tail(q.names)
  PROVE  /\ Head(q.names) \in S /\ to.names \in Seq(S)
         /\ Pending(q) = {Head(q.names)} \cup Pending(to)
         /\ Len(to.names) = Len(q.names) - 1
  <1>1. /\ Head(q.names) = q.names[1] /\ Head(q.names) \in S
        /\ to.names \in Seq(S) /\ Len(to.names) = Len(q.names) - 1
        /\ \A i \in 1..Len(to.names) : to.names[i] = q.names[i + 1]
        /\ Len(q.names) \in Nat \ {0}
    OBVIOUS
  <1>2. \A n \in Pending(to) : n \in Pending(q)
    BY <1>1 DEF Pending
  <1>3. Head(q.names) \in Pending(q) BY <1>1 DEF Pending
  <1>4. ASSUME NEW i \in 1..Len(q.names) PROVE q.names[i] \in {Head(q.names)} \cup Pending(to)
    <2>1. CASE i = 1 BY <1>1, <2>1
    <2>2. CASE i # 1
      <3>1. i - 1 \in 1..Len(to.names) /\ (i - 1) + 1 = i BY <1>1, <2>2
      <3>2. to.names[i - 1] = q.names[i] BY <1>1, <3>1
      <3>3. to.names[i - 1] \in Pending(to) BY <3>1 DEF Pending
      <3>4. QED BY <3>2, <3>3
    <2>3. QED BY <2>1, <2>2
  <1>5. Pending(q) = {Head(q.names)} \cup Pending(to) BY <1>2, <1>3, <1>4 DEF Pending
  <1>6. QED BY <1>1, <1>5

\* A row is inserted by name, or its name is taken.
LEMMA InsertNameKeepsBase ==
  ASSUME Base, NEW r \in Requests, InsertName(r), UNCHANGED outside
  PROVE  Base'
  <1>1. /\ Typed(req[r]) /\ InProgram(req[r]) /\ Updates(req[r]) /\ Inserts(req[r])
        /\ Footprint(req[r]) /\ req[r].pc = "insert"
    BY DEF InsertName, At, Base, Fits
  <1>2. req[r].op \in NamingRoutes /\ req[r].names # <<>> /\ req[r].names \in Seq(Ids \X Records)
    BY <1>1 DEF InProgram, Typed
  <1>3. PICK name, record : name = Head(req[r].names)[1] /\ record = Head(req[r].names)[2]
    OBVIOUS
  <1>4. /\ \A q \in Requests \ {r} : name \notin DOMAIN req[q].new
        /\ IF row[name] # None THEN Abort(r)
           ELSE Continue(r, [req[r] EXCEPT !.pc = req[r].next, !.names = Tail(@),
                                           !.new = Both(@, Row(name, record))])
    BY <1>3 DEF InsertName
  <1>5. CASE row[name] # None BY <1>4, <1>5, AbortKeepsBase DEF outside, Base
  <1>6. CASE row[name] = None
    <2> DEFINE names == Tail(req[r].names)
               one == Row(name, record)
               new == Both(req[r].new, one)
               to == [req[r] EXCEPT !.pc = req[r].next, !.names = names, !.new = new]
    <2>1. Continue(r, to) BY <1>1, <1>4, <1>6, Fields
    <2>2. DOMAIN one = {name} /\ one[name] = record BY RowFields
    <2> HIDE DEF one
    <2>3. /\ DOMAIN new = DOMAIN req[r].new \cup DOMAIN one
          /\ \A x \in DOMAIN req[r].new : new[x] = req[r].new[x]
          /\ \A x \in DOMAIN one \ DOMAIN req[r].new : new[x] = one[x]
      BY DEF Both
    <2>4. names = Tail(req[r].names) OBVIOUS
    <2> HIDE DEF new, names
    <2>5. /\ DOMAIN to = DOMAIN req[r] /\ to.pc = req[r].next /\ to.op = req[r].op
          /\ to.user = req[r].user /\ to.next = req[r].next /\ to.logged = req[r].logged
          /\ to.links = req[r].links /\ to.new = new /\ to.names = names
          /\ to.data = req[r].data /\ to.todo = req[r].todo /\ to.hold = req[r].hold
          /\ to.arg = req[r].arg
      BY <1>1, Fields
    <2> HIDE DEF to
    <2>6. /\ Head(req[r].names) \in Ids \X Records /\ to.names \in Seq(Ids \X Records)
          /\ Pending(req[r]) = {Head(req[r].names)} \cup Pending(to)
          /\ Len(to.names) = Len(req[r].names) - 1
      BY <1>2, <2>4, <2>5, PendingOfTail
    <2>7. name \in Ids /\ WellFormed(name, record)
      BY <1>1, <1>3, <2>6 DEF Inserts
    <2>8. \A y \in Ids : Secured(req[r], y) => Secured(to, y)
      BY <1>3, <2>2, <2>3, <2>5, <2>6 DEF Secured
    <2>9. \A y \in Ids : RefersTo(name, record, y) => Secured(req[r], y)
      BY <1>1, <1>3, <2>6 DEF Inserts
    <2>10. ASSUME NEW x \in DOMAIN to.new
           PROVE  /\ x \in Ids /\ row[x] = None /\ WellFormed(x, to.new[x])
                  /\ \A y \in Ids : RefersTo(x, to.new[x], y) => Secured(to, y)
      <3>1. CASE x \in DOMAIN req[r].new BY <1>1, <2>3, <2>5, <2>8, <3>1 DEF Inserts
      <3>2. CASE x \notin DOMAIN req[r].new
        <4>1. x = name /\ to.new[x] = record BY <2>2, <2>3, <2>5, <3>2
        <4>2. QED BY <1>6, <2>7, <2>8, <2>9, <4>1
      <3>3. QED BY <3>1, <3>2
    <2>11. ASSUME NEW n \in Pending(to)
           PROVE  /\ WellFormed(n[1], n[2])
                  /\ \A y \in Ids : RefersTo(n[1], n[2], y) => Secured(to, y)
      BY <1>1, <2>6, <2>8 DEF Inserts
    <2>12. Inserts(to) BY <2>10, <2>11 DEF Inserts
    <2>13. /\ req[r].next \in {"lookup", "mail", "done"}
           /\ req[r].op # "seed" => to.names = <<>>
      <3>1. req[r].next \in {"done", "version", "lookup", "mail"} BY <1>1 DEF Typed
      <3>2. req[r].next # "version" BY <1>1, <1>2 DEF InProgram, NamingRoutes
      <3>3. req[r].op # "seed" => Len(req[r].names) <= 1
        BY <1>1, <1>2 DEF InProgram, NamingRoutes
      <3>4. req[r].op # "seed" => to.names = <<>>
        BY <1>2, <2>6, <3>3
      <3>5. QED BY <3>1, <3>2, <3>4
    <2>14. InProgram(to)
      <3>1. req[r].op \in {"seed", "create_permission", "create_role", "register"}
        BY <1>2 DEF NamingRoutes
      <3>2. to.op # "seed" => Len(to.names) <= 1 BY <2>5, <2>13
      <3>3. QED BY <1>1, <2>5, <2>13, <3>1, <3>2 DEF InProgram, NamingRoutes
    <2>15. \A q \in Requests \ {r} : DOMAIN to.new \cap DOMAIN req[q].new = {}
      BY <1>4, <2>2, <2>3, <2>5 DEF Base, Parted
    <2>16. /\ to.todo = {} /\ \A x \in DOMAIN to.new : to.op \in Inserters(Kind(x))
           /\ \A n \in Pending(to) : to.op \in Inserters(Kind(n[1]))
      BY <1>1, <1>3, <2>2, <2>3, <2>5, <2>6 DEF Footprint
    <2>17. QED BY <2>1, <2>5, <2>6, <2>12, <2>13, <2>14, <2>15, <2>16, InsertKeepsBase
  <1>7. QED BY <1>5, <1>6

\* A default is looked up: one that is there is skipped.
LEMMA LookUpNameKeepsBase ==
  ASSUME Base, NEW r \in Requests, LookUpName(r), UNCHANGED outside
  PROVE  Base'
  <1>1. /\ Typed(req[r]) /\ InProgram(req[r]) /\ Updates(req[r]) /\ Inserts(req[r])
        /\ Footprint(req[r]) /\ req[r].pc = "lookup"
    BY DEF LookUpName, At, Base, Fits
  <1>2. req[r].op = "seed" /\ req[r].names \in Seq(Ids \X Records)
    BY <1>1 DEF InProgram, Typed
  <1>3. link' \in [Links -> Uids \cup {None}] /\ mail' \subseteq Links \X Addresses \X Uids
    BY DEF outside, Base
  <1>4. ASSUME NEW pc, \/ pc = "done" /\ req[r].names = <<>>
                       \/ pc = "insert" /\ req[r].names # <<>>,
               Continue(r, [req[r] EXCEPT !.pc = pc])
        PROVE  Base'
    <2> DEFINE to == [req[r] EXCEPT !.pc = pc]
    <2>1. Continue(r, to) BY <1>4
    <2>2. /\ DOMAIN to = DOMAIN req[r] /\ to.pc = pc /\ to.op = req[r].op
          /\ to.user = req[r].user /\ to.next = req[r].next /\ to.logged = req[r].logged
          /\ to.links = req[r].links /\ to.new = req[r].new /\ to.names = req[r].names
          /\ to.data = req[r].data /\ to.todo = req[r].todo /\ to.hold = req[r].hold
          /\ to.arg = req[r].arg
      BY <1>1, Fields
    <2> HIDE DEF to
    <2>3. Updates(to) BY <1>1, <2>2 DEF Updates
    <2>4. InProgram(to) BY <1>1, <1>2, <1>4, <2>2 DEF InProgram, NamingRoutes
    <2>5. \A q \in Requests \ {r} : to.hold \cap req[q].hold = {} BY <2>2 DEF Base, Parted
    <2>6. to.todo = {} BY <1>1, <2>2 DEF Footprint
    <2>7. to.pc \notin {"write", "version"} BY <1>4, <2>2
    <2>8. QED BY <1>3, <1>4, <2>1, <2>2, <2>3, <2>4, <2>5, <2>6, <2>7, MoveKeepsBase
  <1>5. ASSUME req[r].names # <<>>, Live(Head(req[r].names)[1]),
               Continue(r, [req[r] EXCEPT !.names = Tail(@)])
        PROVE  Base'
    <2> DEFINE names == Tail(req[r].names)
               to == [req[r] EXCEPT !.names = names]
    <2>1. Continue(r, to) BY <1>1, <1>5, Fields
    <2>2. names = Tail(req[r].names) OBVIOUS
    <2> HIDE DEF names
    <2>3. /\ DOMAIN to = DOMAIN req[r] /\ to.pc = req[r].pc /\ to.op = req[r].op
          /\ to.user = req[r].user /\ to.next = req[r].next /\ to.logged = req[r].logged
          /\ to.links = req[r].links /\ to.new = req[r].new /\ to.names = names
          /\ to.data = req[r].data /\ to.todo = req[r].todo /\ to.hold = req[r].hold
          /\ to.arg = req[r].arg
      BY <1>1, Fields
    <2> HIDE DEF to
    <2>4. /\ Head(req[r].names) \in Ids \X Records /\ to.names \in Seq(Ids \X Records)
          /\ Pending(req[r]) = {Head(req[r].names)} \cup Pending(to)
      BY <1>2, <1>5, <2>2, <2>3, PendingOfTail
    <2>5. \A y \in Ids : Secured(req[r], y) => Secured(to, y)
      BY <1>5, <2>3, <2>4 DEF Secured, Live
    <2>6. Inserts(to) BY <1>1, <2>3, <2>4, <2>5 DEF Inserts
    <2>7. InProgram(to) BY <1>1, <1>2, <2>3 DEF InProgram, NamingRoutes
    <2>8. \A q \in Requests \ {r} : DOMAIN to.new \cap DOMAIN req[q].new = {}
      BY <2>3 DEF Base, Parted
    <2>9. /\ to.todo = {} /\ \A x \in DOMAIN to.new : to.op \in Inserters(Kind(x))
          /\ \A n \in Pending(to) : to.op \in Inserters(Kind(n[1]))
      BY <1>1, <2>3, <2>4 DEF Footprint
    <2>10. QED BY <1>1, <2>1, <2>3, <2>4, <2>6, <2>7, <2>8, <2>9, InsertKeepsBase
  <1>6. QED BY <1>4, <1>5 DEF LookUpName

\* The permissions of a role are changed.
LEMMA ChangeLinksKeepsBase ==
  ASSUME Base, NEW r \in Requests, ChangeLinks(r), UNCHANGED outside
  PROVE  Base'
  <1>1. /\ Typed(req[r]) /\ InProgram(req[r]) /\ Updates(req[r]) /\ Footprint(req[r])
        /\ req[r].pc = "links"
    BY DEF ChangeLinks, At, Base, Fits
  <1>2. link' \in [Links -> Uids \cup {None}] /\ mail' \subseteq Links \X Addresses \X Uids
    BY DEF outside, Base
  <1>3. CASE Abort(r) BY <1>2, <1>3, AbortKeepsBase
  <1>4. CASE Continue(r, [req[r] EXCEPT !.pc = "done"])
    <2> DEFINE to == [req[r] EXCEPT !.pc = "done"]
    <2>1. Continue(r, to) BY <1>4
    <2>2. /\ DOMAIN to = DOMAIN req[r] /\ to.pc = "done" /\ to.op = req[r].op
          /\ to.user = req[r].user /\ to.next = req[r].next /\ to.logged = req[r].logged
          /\ to.links = req[r].links /\ to.new = req[r].new /\ to.names = req[r].names
          /\ to.data = req[r].data /\ to.todo = req[r].todo /\ to.hold = req[r].hold
          /\ to.arg = req[r].arg
      BY <1>1, Fields
    <2> HIDE DEF to
    <2>3. Updates(to) BY <1>1, <2>2 DEF Updates
    <2>4. InProgram(to) BY <1>1, <2>2 DEF InProgram, NamingRoutes
    <2>5. \A q \in Requests \ {r} : to.hold \cap req[q].hold = {} BY <2>2 DEF Base, Parted
    <2>6. to.todo = {} BY <1>1, <2>2 DEF Footprint
    <2>7. QED BY <1>2, <2>1, <2>2, <2>3, <2>4, <2>5, <2>6, MoveKeepsBase
  <1>5. QED BY <1>3, <1>4 DEF ChangeLinks

-----------------------------------------------------------------------------
\* What a commit makes of a row that is not one of those inserted: a row stays away, or it
\* stays there, with the columns that the request sets or with the permissions that it changes.
ColumnWritten(q, x, c, before, after) ==
    \/ x \in q.hold /\ c \in DOMAIN q.data /\ after = q.data[c]
    \/ /\ x = q.links.of /\ x \in RoleNames /\ c = "grants"
       /\ after = (before \ q.links.remove) \cup q.links.add

\* The columns that a request writes belong to the table of the row.
LEMMA ColumnsOfTable ==
  ASSUME NEW q, Updates(q), NEW x \in q.hold
  PROVE  /\ x \in Ids /\ row[x] # None /\ Kind(x) \in DOMAIN Tables
         /\ \A c \in DOMAIN q.data : c \in Updatable(Kind(x)) /\ q.data[c] \in Column(c)
  <1>1. /\ x \in Ids /\ Kind(x) = TableOf(q.op) /\ row[x] # None
        /\ \A c \in DOMAIN q.data : c \in ColumnsOf(q.op) /\ q.data[c] \in Column(c)
    BY DEF Updates
  <1>2. Kind(x) \in DOMAIN Tables BY <1>1, TableOfKind
  <1>3. TableOf(q.op) # "none" BY <1>1, <1>2 DEF Tables
  <1>4. QED BY <1>1, <1>2, <1>3, ColumnsOfRoutes

\* What a row becomes.
LEMMA CommittedRow ==
  ASSUME Base, NEW r \in Requests, req[r].pc = "done", NEW x \in Ids, x \notin DOMAIN req[r].new
  PROVE  /\ row[x] = None => RowOf(r, x) = None
         /\ row[x] # None =>
               /\ WellFormed(x, RowOf(r, x)) /\ DOMAIN RowOf(r, x) = DOMAIN row[x]
               /\ \A c \in DOMAIN row[x] :
                     \/ RowOf(r, x)[c] = row[x][c]
                     \/ ColumnWritten(req[r], x, c, row[x][c], RowOf(r, x)[c])
  <1>1. Updates(req[r]) /\ Relinks(req[r]) /\ Typed(req[r]) BY DEF Base, Fits
  <1>2. row[x] # None => WellFormed(x, row[x]) BY DEF Base, RowsFit
  <1>3. CASE x \in req[r].hold
    <2>1. RowOf(r, x) = Written(row[x], req[r].data)
      <3>1. Kind(x) = TableOf(req[r].op) /\ Kind(x) \in DOMAIN Tables
        BY <1>1, <1>3, TableOfKind DEF Updates
      <3>2. TableOf("update_role") = "none" BY DEF TableOf, NotificationRoutes, FlagRoutes
      <3>3. req[r].op # "update_role" BY <3>1, <3>2 DEF Tables
      <3>4. req[r].links.of # x BY <1>1, <3>3, NoneAssumption DEF Relinks
      <3>5. QED BY <1>3, <3>4 DEF RowOf
    <2>2. /\ row[x] # None /\ Kind(x) \in DOMAIN Tables
          /\ \A c \in DOMAIN req[r].data :
                c \in Updatable(Kind(x)) /\ req[r].data[c] \in Column(c)
      BY <1>1, <1>3, ColumnsOfTable
    <2>3. row[x] \in RecordsOf(Kind(x)) BY <1>2, <2>2 DEF WellFormed
    <2>4. Written(row[x], req[r].data) \in RecordsOf(Kind(x))
      BY <2>2, <2>3, WrittenWellFormed
    <2>5. /\ DOMAIN Written(row[x], req[r].data) = DOMAIN row[x]
          /\ \A c \in DOMAIN row[x] :
               /\ c \in DOMAIN req[r].data => Written(row[x], req[r].data)[c] = req[r].data[c]
               /\ c \notin DOMAIN req[r].data => Written(row[x], req[r].data)[c] = row[x][c]
      BY WrittenColumns
    <2>6. QED BY <1>3, <2>1, <2>2, <2>4, <2>5 DEF WellFormed, ColumnWritten
  <1>4. CASE x \notin req[r].hold /\ x = req[r].links.of
    <2> DEFINE links == req[r].links
               grants == (row[x].grants \ links.remove) \cup links.add
    <2>1. RowOf(r, x) = [row[x] EXCEPT !.grants = grants] BY <1>4 DEF RowOf
    <2>2. x # None BY NoneAssumption
    <2>3. x \in RoleNames /\ row[x] # None BY <1>1, <1>4, <2>2 DEF Relinks
    <2>4. row[x] \in Role /\ Kind(x) = "role"
      BY <1>2, <2>3, KindsOfRows, RecordsOfTables DEF WellFormed
    <2>5. links.add \subseteq PermissionNames /\ row[x].grants \subseteq PermissionNames
      BY <1>1, <2>4 DEF Typed, Role
    <2>6. grants \subseteq PermissionNames BY <2>5
    <2> HIDE DEF grants
    <2>7. /\ RowOf(r, x) \in Role /\ DOMAIN RowOf(r, x) = DOMAIN row[x]
          /\ RowOf(r, x).grants = grants
          /\ \A c \in DOMAIN row[x] : c # "grants" => RowOf(r, x)[c] = row[x][c]
      BY <2>1, <2>4, <2>6 DEF Role
    <2>8. WellFormed(x, RowOf(r, x)) BY <2>4, <2>7, RecordsOfTables DEF WellFormed
    <2>9. \A c \in DOMAIN row[x] :
             \/ RowOf(r, x)[c] = row[x][c]
             \/ ColumnWritten(req[r], x, c, row[x][c], RowOf(r, x)[c])
      BY <1>4, <2>3, <2>7 DEF ColumnWritten, grants
    <2>10. QED BY <2>3, <2>7, <2>8, <2>9
  <1>5. CASE x \notin req[r].hold /\ x # req[r].links.of
    <2>1. RowOf(r, x) = row[x] BY <1>5 DEF RowOf
    <2>2. QED BY <1>2, <2>1
  <1>6. QED BY <1>3, <1>4, <1>5

\* What the rows are after a commit.
LEMMA CommittedRows ==
  ASSUME Base, NEW r \in Requests, Commit(r)
  PROVE  /\ DOMAIN row' = Ids
         /\ \A x \in DOMAIN req[r].new :
               /\ x \in Ids /\ row[x] = None /\ row'[x] = req[r].new[x] /\ row'[x] # None
               /\ WellFormed(x, row'[x])
         /\ \A x \in Ids \ DOMAIN req[r].new :
               /\ row[x] = None => row'[x] = None
               /\ row[x] # None =>
                     /\ row'[x] # None /\ WellFormed(x, row'[x]) /\ DOMAIN row'[x] = DOMAIN row[x]
                     /\ \A c \in DOMAIN row[x] :
                           \/ row'[x][c] = row[x][c]
                           \/ ColumnWritten(req[r], x, c, row[x][c], row'[x][c])
         /\ \A x \in Ids : row[x] # None => row'[x] # None
  <1>1. row' = [x \in Ids |-> RowOf(r, x)] /\ req[r].pc = "done" BY DEF Commit, At
  <1>2. Inserts(req[r]) BY DEF Base, Fits
  <1>3. ASSUME NEW x \in DOMAIN req[r].new
        PROVE  /\ x \in Ids /\ row[x] = None /\ row'[x] = req[r].new[x] /\ row'[x] # None
               /\ WellFormed(x, row'[x])
    <2>1. x \in Ids /\ row[x] = None /\ WellFormed(x, req[r].new[x]) BY <1>2 DEF Inserts
    <2>2. row'[x] = req[r].new[x]
      <3>1. Updates(req[r]) /\ Relinks(req[r]) /\ x # None BY <2>1, NoneAssumption DEF Base, Fits
      <3>2. x \notin req[r].hold /\ x # req[r].links.of BY <2>1, <3>1 DEF Updates, Relinks
      <3>3. RowOf(r, x) = req[r].new[x] BY <3>2 DEF RowOf
      <3>4. row'[x] = RowOf(r, x) BY <1>1, <2>1
      <3>5. QED BY <3>3, <3>4
    <2>3. QED BY <2>1, <2>2, RecordsThere
  <1>4. ASSUME NEW x \in Ids \ DOMAIN req[r].new
        PROVE  /\ row[x] = None => row'[x] = None
               /\ row[x] # None =>
                     /\ row'[x] # None /\ WellFormed(x, row'[x]) /\ DOMAIN row'[x] = DOMAIN row[x]
                     /\ \A c \in DOMAIN row[x] :
                           \/ row'[x][c] = row[x][c]
                           \/ ColumnWritten(req[r], x, c, row[x][c], row'[x][c])
    <2>1. row'[x] = RowOf(r, x) BY <1>1
    <2>2. PICK after : after = RowOf(r, x) OBVIOUS
    <2>3. /\ row[x] = None => after = None
          /\ row[x] # None =>
               /\ WellFormed(x, after) /\ DOMAIN after = DOMAIN row[x]
               /\ \A c \in DOMAIN row[x] :
                     after[c] = row[x][c] \/ ColumnWritten(req[r], x, c, row[x][c], after[c])
      BY <1>1, <2>2, CommittedRow
    <2>4. WellFormed(x, after) => after # None BY RecordsThere
    <2>5. after = row'[x] BY <2>1, <2>2
    <2>6. QED BY <2>3, <2>4, <2>5
  <1>5. DOMAIN row' = Ids BY <1>1
  <1>6. QED BY <1>3, <1>4, <1>5

\* A commit keeps the references of a row, but for permissions that it adds to a role.
LEMMA CommittedReferences ==
  ASSUME Base, NEW r \in Requests, Commit(r), NEW x \in Ids \ DOMAIN req[r].new, row[x] # None,
         NEW y \in Ids, RefersTo(x, row'[x], y)
  PROVE  RefersTo(x, row[x], y) \/ y \in req[r].links.add
  <1>1. PICK after : after = row'[x] OBVIOUS
  <1>2. /\ WellFormed(x, after) /\ WellFormed(x, row[x]) /\ DOMAIN after = DOMAIN row[x]
        /\ \A c \in DOMAIN row[x] :
              after[c] = row[x][c] \/ ColumnWritten(req[r], x, c, row[x][c], after[c])
    BY <1>1, CommittedRows DEF Base, RowsFit
  <1>3. RefersTo(x, after, y) BY <1>1
  <1>4. Updates(req[r]) BY DEF Base, Fits
  <1>5. \A c \in DOMAIN row[x] : c \notin Updatable(Kind(x)) \cup {"grants"} => after[c] = row[x][c]
    BY <1>2, <1>4, ColumnsOfTable DEF ColumnWritten
  <1>6. CASE Kind(x) = "share"
    <2>1. row[x] \in Share BY <1>2, <1>6, RecordsOfTables DEF WellFormed
    <2>2. "entry" \in DOMAIN row[x] BY <2>1 DEF Share
    <2>3. "entry" \notin Updatable(Kind(x)) BY <1>6 DEF Updatable
    <2>4. QED BY <1>3, <1>5, <1>6, <2>2, <2>3 DEF RefersTo
  <1>7. CASE Kind(x) = "notification"
    <2>1. row[x] \in Notification BY <1>2, <1>7, RecordsOfTables DEF WellFormed
    <2>2. "entry" \in DOMAIN row[x] BY <2>1 DEF Notification
    <2>3. "entry" \notin Updatable(Kind(x)) BY <1>7 DEF Updatable
    <2>4. QED BY <1>3, <1>5, <1>7, <2>2, <2>3 DEF RefersTo
  <1>8. CASE Kind(x) = "version"
    <2>1. row[x] \in MemoVersion BY <1>2, <1>8, RecordsOfTables DEF WellFormed
    <2>2. "memo" \in DOMAIN row[x] BY <2>1 DEF MemoVersion
    <2>3. "memo" \notin Updatable(Kind(x)) BY <1>8 DEF Updatable
    <2>4. QED BY <1>3, <1>5, <1>8, <2>2, <2>3 DEF RefersTo
  <1>9. CASE Kind(x) = "assignment"
    <2>1. row[x] \in ProjectAssignment BY <1>2, <1>9, RecordsOfTables DEF WellFormed
    <2>2. "project" \in DOMAIN row[x] BY <2>1 DEF ProjectAssignment
    <2>3. "project" \notin Updatable(Kind(x)) BY <1>9 DEF Updatable
    <2>4. QED BY <1>3, <1>5, <1>9, <2>2, <2>3 DEF RefersTo
  <1>10. CASE Kind(x) = "task"
    <2>1. row[x] \in Task BY <1>2, <1>10, RecordsOfTables DEF WellFormed
    <2>2. "project" \in DOMAIN row[x] BY <2>1 DEF Task
    <2>3. "project" \notin Updatable(Kind(x)) BY <1>10 DEF Updatable
    <2>4. QED BY <1>3, <1>5, <1>10, <2>2, <2>3 DEF RefersTo
  <1>11. CASE Kind(x) = "role"
    <2>1. row[x] \in Role BY <1>2, <1>11, RecordsOfTables DEF WellFormed
    <2>2. "grants" \in DOMAIN row[x] BY <2>1 DEF Role
    <2>3. "grants" \notin Updatable(Kind(x)) BY <1>11 DEF Updatable
    <2>4. x \in req[r].hold => "grants" \notin DOMAIN req[r].data
      BY <1>4, <2>3, ColumnsOfTable
    <2>5. \/ after["grants"] = row[x]["grants"]
          \/ after["grants"] = (row[x]["grants"] \ req[r].links.remove) \cup req[r].links.add
      BY <1>2, <2>2, <2>4 DEF ColumnWritten
    <2>6. QED BY <1>3, <1>11, <2>5 DEF RefersTo
  <1>12. QED BY <1>3, <1>6, <1>7, <1>8, <1>9, <1>10, <1>11 DEF RefersTo

\* A commit.
LEMMA CommitKeepsBase ==
  ASSUME Base, NEW r \in Requests, Commit(r), UNCHANGED outside
  PROVE  Base'
  <1>1. Fits(req[r]) /\ req[r].pc = "done" BY DEF Commit, At, Base
  <1>2. /\ req' = [req EXCEPT ![r] = Idle] /\ log' = log \cup req[r].logged
        /\ link' = link /\ mail' = mail
    BY DEF Commit, outside
  <1>3. req'[r] = Idle /\ (\A q \in Requests \ {r} : req'[q] = req[q]) /\ DOMAIN req' = Requests
    BY <1>2 DEF Base
  <1>4. Typed(req[r]) /\ Inserts(req[r]) /\ Relinks(req[r]) /\ Pending(req[r]) = {}
    BY <1>1 DEF Fits, InProgram, Pending
  <1>5. log' \subseteq Entries \X Users \X Actions BY <1>2, <1>4 DEF Base, Typed
  <1>6. \A x \in Ids : row'[x] # None => WellFormed(x, row'[x]) BY CommittedRows
  <1>7. ASSUME NEW x \in Ids, NEW y \in Ids, row'[x] # None, RefersTo(x, row'[x], y)
        PROVE  row'[y] # None
    <2>1. CASE x \in DOMAIN req[r].new
      <3>1. row'[x] = req[r].new[x] BY <2>1, CommittedRows
      <3>2. PICK record : record = req[r].new[x] OBVIOUS
      <3>3. RefersTo(x, record, y) BY <1>7, <3>1, <3>2
      <3>4. row[y] # None \/ y \in DOMAIN req[r].new
        BY <1>4, <2>1, <3>2, <3>3 DEF Inserts, Secured
      <3>5. QED BY <3>4, CommittedRows
    <2>2. CASE x \notin DOMAIN req[r].new
      <3>1. row[x] # None BY <1>7, <2>2, CommittedRows
      <3>2. RefersTo(x, row[x], y) \/ y \in req[r].links.add
        BY <1>7, <2>2, <3>1, CommittedReferences
      <3>3. row[y] # None BY <1>4, <3>1, <3>2 DEF Base, RowsFit, Relinks
      <3>4. QED BY <3>3, CommittedRows
    <2>3. QED BY <2>1, <2>2
  <1>8. RowsFit'
    <2>1. DOMAIN row' = Ids BY CommittedRows
    <2>2. (\A x \in Ids : row[x] # None => WellFormed(x, row[x]))' BY <1>6
    <2>3. (\A x, y \in Ids : row[x] # None /\ RefersTo(x, row[x], y) => row[y] # None)' BY <1>7
    <2>4. QED BY <2>1, <2>2, <2>3 DEF RowsFit
  <1>9. ASSUME NEW q \in Requests PROVE Fits(req[q])'
    <2>1. PICK s : s = req'[q] OBVIOUS
    <2>2. Fits(s) BY <1>3, <2>1, IdleFits DEF Base
    <2>3. \A x \in DOMAIN s.new : row'[x] = row[x]
      <3>1. CASE q = r BY <1>3, <2>1, <3>1, IdleFields
      <3>2. CASE q # r
        <4>1. s = req[q] /\ Parted(req[r], req[q]) BY <1>3, <2>1, <3>2 DEF Base
        <4>2. \A x \in DOMAIN s.new : x \in Ids /\ row[x] = None BY <2>2 DEF Fits, Inserts
        <4>3. \A x \in DOMAIN s.new : x \notin DOMAIN req[r].new BY <4>1 DEF Parted
        <4>4. QED BY <4>2, <4>3, CommittedRows
      <3>3. QED BY <3>1, <3>2
    <2>4. \A x \in Ids : row[x] # None => row'[x] # None BY CommittedRows
    <2>5. QED BY <2>1, <2>2, <2>3, <2>4, StaysFit
  <1>10. (\A p, q \in Requests : p # q => Parted(req[p], req[q]))'
    BY <1>2, IdleFits, StayParted
  <1>11. link' \in [Links -> Uids \cup {None}] /\ mail' \subseteq Links \X Addresses \X Uids
    BY <1>2 DEF Base
  <1>12. QED BY <1>3, <1>5, <1>8, <1>9, <1>10, <1>11 DEF Base

\* A share expires.
LEMMA ExpireKeepsBase ==
  ASSUME Base, NEW s \in Shares, Expire(s), UNCHANGED outside
  PROVE  Base'
  <1> DEFINE after == [row[s] EXCEPT !.expired = TRUE]
  <1>1. row' = [row EXCEPT ![s] = after] /\ row[s] # None BY DEF Expire
  <1>2. UNCHANGED <<log, req, link, mail>> BY DEF Expire, outside
  <1>3. s \in Ids /\ Kind(s) = "share" BY KindsOfRows
  <1>4. row[s] \in Share BY <1>1, <1>3, RecordsOfTables DEF Base, RowsFit, WellFormed
  <1>5. after \in Share /\ after.entry = row[s].entry BY <1>4 DEF Share
  <1> HIDE DEF after
  <1>6. WellFormed(s, after) BY <1>3, <1>5, RecordsOfTables DEF WellFormed
  <1>7. after # None BY <1>3, <1>6, RecordsThere
  <1>8. DOMAIN row' = Ids /\ row'[s] = after /\ \A x \in Ids \ {s} : row'[x] = row[x]
    BY <1>1, <1>3 DEF Base, RowsFit
  <1>9. \A y : RefersTo(s, after, y) => RefersTo(s, row[s], y) BY <1>3, <1>5 DEF RefersTo
  <1>10. RowsFit'
    <2>1. ASSUME NEW x \in Ids, row'[x] # None PROVE WellFormed(x, row'[x])
      BY <1>6, <1>8, <2>1 DEF Base, RowsFit
    <2>2. ASSUME NEW x \in Ids, NEW y \in Ids, row'[x] # None, RefersTo(x, row'[x], y)
          PROVE  row'[y] # None
      <3>1. row[x] # None /\ RefersTo(x, row[x], y) BY <1>1, <1>8, <1>9, <2>2
      <3>2. QED BY <1>7, <1>8, <3>1 DEF Base, RowsFit
    <2>3. (\A x \in Ids : row[x] # None => WellFormed(x, row[x]))' BY <2>1
    <2>4. (\A x, y \in Ids : row[x] # None /\ RefersTo(x, row[x], y) => row[y] # None)' BY <2>2
    <2>5. QED BY <1>8, <2>3, <2>4 DEF RowsFit
  <1>11. ASSUME NEW q \in Requests PROVE Fits(req[q])'
    <2>1. PICK p : p = req'[q] OBVIOUS
    <2>2. Fits(p) BY <1>2, <2>1 DEF Base
    <2>3. \A x \in DOMAIN p.new : row'[x] = row[x] BY <1>1, <1>8, <2>2 DEF Fits, Inserts
    <2>4. \A x \in Ids : row[x] # None => row'[x] # None BY <1>7, <1>8
    <2>5. QED BY <2>1, <2>2, <2>3, <2>4, StaysFit
  <1>12. (\A p, q \in Requests : p # q => Parted(req[p], req[q]))' BY <1>2 DEF Base, Parted
  <1>13. /\ log' \subseteq Entries \X Users \X Actions
         /\ link' \in [Links -> Uids \cup {None}] /\ mail' \subseteq Links \X Addresses \X Uids
         /\ DOMAIN req' = Requests
    BY <1>2 DEF Base
  <1>14. QED BY <1>10, <1>11, <1>12, <1>13 DEF Base

\* A step that changes the keys in Redis only, or nothing.
LEMMA OutsideKeepsBase ==
  ASSUME Base, UNCHANGED vars,
         link' \in [Links -> Uids \cup {None}], mail' \subseteq Links \X Addresses \X Uids
  PROVE  Base'
  <1>1. row' = row /\ log' = log /\ req' = req BY DEF vars
  <1>2. RowsFit' BY <1>1 DEF Base, RowsFit
  <1>3. ASSUME NEW q \in Requests PROVE Fits(req[q])'
    <2>1. PICK p : p = req'[q] OBVIOUS
    <2>2. Fits(p) BY <1>1, <2>1 DEF Base
    <2>3. QED BY <1>1, <2>1, <2>2, StaysFit
  <1>4. (\A p, q \in Requests : p # q => Parted(req[p], req[q]))' BY <1>1 DEF Base, Parted
  <1>5. log' \subseteq Entries \X Users \X Actions /\ DOMAIN req' = Requests BY <1>1 DEF Base
  <1>6. QED BY <1>2, <1>3, <1>4, <1>5 DEF Base

-----------------------------------------------------------------------------
\* Every step keeps Base.
LEMMA StepKeepsBase == Base /\ [Next]_all => Base'
  <1> SUFFICES ASSUME Base, [Next]_all PROVE Base' OBVIOUS
  <1>1. UNCHANGED outside =>
           link' \in [Links -> Uids \cup {None}] /\ mail' \subseteq Links \X Addresses \X Uids
    BY DEF outside, Base
  <1>2. ASSUME NEW r \in Requests, Call(r) PROVE Base'
    BY <1>2, AccountCallKeepsBase, SeedKeepsBase, VaultCallKeepsBase, LabelCallKeepsBase,
       MemoCallKeepsBase, ProjectCallKeepsBase, EventCallKeepsBase, CatalogCallKeepsBase
       DEF Call
  <1>3. ASSUME NEW r \in Requests, Step(r) PROVE Base'
    BY <1>3, MailLinkKeepsBase, UseLinkKeepsBase, OpenAccountKeepsBase, WriteKeepsBase,
       AddVersionKeepsBase, LookUpNameKeepsBase, InsertNameKeepsBase, ChangeLinksKeepsBase,
       CommitKeepsBase
       DEF Step, AccountStep
  <1>4. ASSUME NEW r \in Requests, Cancel(r), UNCHANGED outside PROVE Base'
    BY <1>1, <1>4, AbortKeepsBase DEF Cancel
  <1>5. ASSUME NEW t \in Links, LinkExpires(t) PROVE Base'
    <2>1. link' \in [Links -> Uids \cup {None}] /\ UNCHANGED <<vars, mail>>
      BY <1>5 DEF LinkExpires, Base
    <2>2. mail' \subseteq Links \X Addresses \X Uids BY <2>1 DEF Base
    <2>3. QED BY <2>1, <2>2, OutsideKeepsBase
  <1>6. ASSUME UNCHANGED all PROVE Base'
    BY <1>1, <1>6, OutsideKeepsBase DEF all
  <1>7. ASSUME NEW s \in Shares, Expire(s), UNCHANGED outside PROVE Base'
    BY <1>7, ExpireKeepsBase
  <1>8. QED BY <1>2, <1>3, <1>4, <1>5, <1>6, <1>7 DEF Next, Refused

\* Base holds in every state.
THEOREM BaseInvariance == Spec => []Base
  <1>1. Init => Base BY InitBase
  <1>2. Base /\ [Next]_all => Base' BY StepKeepsBase
  <1>3. QED BY <1>1, <1>2, PTL DEF Spec

\* Types and foreign keys.
THEOREM TypeCorrectness == Spec => []TypeOK
  <1>1. ASSUME Base PROVE TypeOK
    <2>1. ASSUME NEW x \in Ids PROVE row[x] \in RecordsOf(Kind(x)) \cup {None}
      BY <1>1 DEF Base, RowsFit, WellFormed
    <2>2. /\ Table(Entries, Entry) /\ Table(Shares, Share) /\ Table(Notifications, Notification)
          /\ Table(LabelIds, Label)
      BY <2>1, KindsOfRows, RecordsOfTables DEF Table
    <2>3. /\ Table(MemoIds, Memo) /\ Table(VersionIds, MemoVersion)
          /\ Table(ProjectIds, Project) /\ Table(AssignmentIds, ProjectAssignment)
          /\ Table(TaskIds, Task)
      BY <2>1, KindsOfRows, RecordsOfTables DEF Table
    <2>4. /\ Table(EventIds, Event) /\ Table(PermissionNames, Permission)
          /\ Table(RoleNames, Role) /\ Table(Addresses, User)
      BY <2>1, KindsOfRows, RecordsOfTables DEF Table
    <2>5. ASSUME NEW x \in Ids, NEW y \in Ids, row[x] # None, RefersTo(x, row[x], y)
          PROVE  row[y] # None
      BY <1>1, <2>5 DEF Base, RowsFit
    <2>6. Refers(Shares, "entry")
      <3>1. ASSUME NEW x \in Shares, row[x] # None PROVE row[row[x]["entry"]] # None
        <4>1. row[x] \in Share BY <2>2, <3>1 DEF Table
        <4>2. row[x].entry \in Entries BY <4>1 DEF Share
        <4>3. QED BY <2>5, <3>1, <4>2, KindsOfRows DEF RefersTo
      <3>2. QED BY <3>1 DEF Refers
    <2>7. Refers(Notifications, "entry")
      <3>1. ASSUME NEW x \in Notifications, row[x] # None PROVE row[row[x]["entry"]] # None
        <4>1. row[x] \in Notification BY <2>2, <3>1 DEF Table
        <4>2. row[x].entry \in Entries BY <4>1 DEF Notification
        <4>3. QED BY <2>5, <3>1, <4>2, KindsOfRows DEF RefersTo
      <3>2. QED BY <3>1 DEF Refers
    <2>8. Refers(VersionIds, "memo")
      <3>1. ASSUME NEW x \in VersionIds, row[x] # None PROVE row[row[x]["memo"]] # None
        <4>1. row[x] \in MemoVersion BY <2>3, <3>1 DEF Table
        <4>2. row[x].memo \in MemoIds BY <4>1 DEF MemoVersion
        <4>3. QED BY <2>5, <3>1, <4>2, KindsOfRows DEF RefersTo
      <3>2. QED BY <3>1 DEF Refers
    <2>9. Refers(AssignmentIds, "project")
      <3>1. ASSUME NEW x \in AssignmentIds, row[x] # None PROVE row[row[x]["project"]] # None
        <4>1. row[x] \in ProjectAssignment BY <2>3, <3>1 DEF Table
        <4>2. row[x].project \in ProjectIds BY <4>1 DEF ProjectAssignment
        <4>3. QED BY <2>5, <3>1, <4>2, KindsOfRows DEF RefersTo
      <3>2. QED BY <3>1 DEF Refers
    <2>10. Refers(TaskIds, "project")
      <3>1. ASSUME NEW x \in TaskIds, row[x] # None PROVE row[row[x]["project"]] # None
        <4>1. row[x] \in Task BY <2>3, <3>1 DEF Table
        <4>2. row[x].project \in ProjectIds BY <4>1 DEF Task
        <4>3. QED BY <2>5, <3>1, <4>2, KindsOfRows DEF RefersTo
      <3>2. QED BY <3>1 DEF Refers
    <2>11. \A n \in RoleNames : row[n] # None => \A p \in row[n].grants : row[p] # None
      <3>1. ASSUME NEW n \in RoleNames, row[n] # None, NEW p \in row[n].grants
            PROVE  row[p] # None
        <4>1. row[n] \in Role BY <2>4, <3>1 DEF Table
        <4>2. p \in PermissionNames BY <4>1 DEF Role
        <4>3. QED BY <2>5, <3>1, <4>2, KindsOfRows DEF RefersTo
      <3>2. QED BY <3>1
    <2>12. \A r \in Requests : [pc |-> req[r].pc, op |-> req[r].op, user |-> req[r].user] \in Request
      BY <1>1 DEF Base, Fits, Typed, Request
    <2>13. DOMAIN row = Ids BY <1>1 DEF Base, RowsFit
    <2>14. /\ log \subseteq Entries \X Users \X Actions
           /\ link \in [Links -> Uids \cup {None}] /\ mail \subseteq Links \X Addresses \X Uids
      BY <1>1 DEF Base
    <2>15. QED
      BY <2>2, <2>3, <2>4, <2>6, <2>7, <2>8, <2>9, <2>10, <2>11, <2>12, <2>13, <2>14 DEF TypeOK
  <1>2. QED BY <1>1, BaseInvariance, PTL

-----------------------------------------------------------------------------
\* A call changes the record of its request only.
LEMMA CallsContinue ==
  ASSUME NEW r \in Requests, Call(r)
  PROVE  \E to : Begin(r, to)
  <1>1. \A op, u, T, record : Create(r, op, u, T, record) => \E to : Begin(r, to)
    BY Zenon DEF Create
  <1>2. \A op, u, x, data : Update(r, op, u, x, data) => \E to : Begin(r, to)
    BY Zenon DEF Update
  <1>3. \A op, u, x : DeleteSoft(r, op, u, x) => \E to : Begin(r, to)
    BY Zenon DEF DeleteSoft
  <1>4. \A op, u, e, data, action : OnEntry(r, op, u, e, data, action) => \E to : Begin(r, to)
    BY Zenon DEF OnEntry
  <1>5. \A u \in Users : VaultCall(r, u) => \E to : Begin(r, to)
    BY <1>4, Zenon DEF VaultCall, CreateEntry, GetEntry, UpdateEntry, DeleteEntry, ShareEntry,
                MarkRead, MarkAllRead
  <1>6. \A u \in Users : LabelCall(r, u) => \E to : Begin(r, to)
    BY <1>1, <1>2, <1>3, Zenon DEF LabelCall, CreateCategory, CreateVaultTag, CreateFolder, CreateMemoTag,
                CreateProjectTag, NewLabel, UpdateCategory, UpdateVaultTag, UpdateProjectTag,
                DeleteCategory, DeleteVaultTag, DeleteFolder, DeleteMemoTag, DeleteProjectTag
  <1>7. \A u \in Users : MemoCall(r, u) => \E to : Begin(r, to)
    BY <1>2, <1>3, Zenon DEF MemoCall, CreateMemo, UpdateMemo, PinMemo, UnpinMemo, FavoriteMemo, UnfavoriteMemo,
                DeleteMemo
  <1>8. \A u \in Users : ProjectCall(r, u) => \E to : Begin(r, to)
    BY <1>1, <1>2, <1>3, Zenon DEF ProjectCall, CreateProject, UpdateProject, DeleteProject, ArchiveProject,
                RestoreProject, AddAssignee, RemoveAssignee, CreateTask, UpdateTask, DeleteTask
  <1>9. \A u \in Users : EventCall(r, u) => \E to : Begin(r, to)
    BY <1>1, <1>2, <1>3, Zenon DEF EventCall, CreateEvent, UpdateEvent, DeleteEvent
  <1>10. \A u \in Users : CatalogCall(r, u) => \E to : Begin(r, to)
    BY <1>3, Zenon DEF CatalogCall, CreatePermission, DeletePermission, CreateRole, UpdateRole, DeleteRole
  <1>11. AccountCall(r) => \E to : Begin(r, to)
    BY <1>2, Zenon DEF AccountCall, Register, ResendVerification, VerifyEmail, UpdateProfile
  <1>12. Seed(r) => \E to : Begin(r, to) BY Zenon DEF Seed
  <1>13. QED BY <1>5, <1>6, <1>7, <1>8, <1>9, <1>10, <1>11, <1>12 DEF Call

\* A step takes one request further, commits one, lets a share expire, or leaves all the tables
\* and requests alone.
LEMMA Steps ==
  ASSUME [Next]_all
  PROVE  \/ \E r \in Requests : \E to : Continue(r, to)
         \/ \E r \in Requests : Commit(r) /\ UNCHANGED outside
         \/ \E s \in Shares : Expire(s) /\ UNCHANGED outside
         \/ UNCHANGED vars
  <1>1. \A r \in Requests : Call(r) => \E to : Continue(r, to)
    BY CallsContinue DEF Begin
  <1>2. \A r \in Requests : AccountStep(r) => \E to : Continue(r, to)
    BY Zenon DEF AccountStep, MailLink, UseLink, OpenAccount, Open, Abort
  <1>3. \A r \in Requests : Write(r) \/ AddVersion(r) => \E to : Continue(r, to)
    BY Zenon DEF Write, AddVersion, Abort
  <1>4. \A r \in Requests : LookUpName(r) \/ InsertName(r) \/ ChangeLinks(r) =>
           \E to : Continue(r, to)
    BY Zenon DEF LookUpName, InsertName, ChangeLinks, Abort
  <1>5. \A r \in Requests : Step(r) =>
           \/ \E to : Continue(r, to)
           \/ Commit(r) /\ UNCHANGED outside
    BY <1>2, <1>3, <1>4, Zenon DEF Step
  <1>6. \A r \in Requests : Cancel(r) => \E to : Continue(r, to)
    BY Zenon DEF Cancel, Abort
  <1>7. \A r \in Requests : Refused(r) => UNCHANGED vars BY DEF Refused, all
  <1>8. \A t \in Links : LinkExpires(t) => UNCHANGED vars BY DEF LinkExpires
  <1>9. UNCHANGED all => UNCHANGED vars BY DEF all
  <1>10. QED BY <1>1, <1>5, <1>6, <1>7, <1>8, <1>9, Zenon DEF Next

\* Rows change with a commit, or when a share expires.
LEMMA RowsChangeAtCommit ==
  ASSUME [Next]_all, row' # row \/ log' # log
  PROVE  \/ \E r \in Requests : Commit(r) /\ UNCHANGED outside
         \/ \E s \in Shares : Expire(s) /\ UNCHANGED outside
  BY Steps DEF Continue, tables, vars

\* The columns that a request writes are those of its route.
LEMMA ColumnsWritten ==
  ASSUME NEW q, NEW x \in Ids, NEW c, NEW before, NEW after, Updates(q), Relinks(q),
         ColumnWritten(q, x, c, before, after)
  PROVE  /\ c \in ColumnsOf(q.op)
         /\ c \in {"deleted", "read", "verified"} => after \in {TRUE}
  <1>1. CASE x \in q.hold /\ c \in DOMAIN q.data /\ after = q.data[c]
    BY <1>1, ColumnValues DEF Updates
  <1>2. CASE /\ x = q.links.of /\ c = "grants"
             /\ after = (before \ q.links.remove) \cup q.links.add
    <2>1. q.op = "update_role" BY <1>2, NoneAssumption DEF Relinks
    <2>2. ColumnsOf("update_role") = {"grants"} BY DEF ColumnsOf
    <2>3. QED BY <1>2, <2>1, <2>2
  <1>3. QED BY <1>1, <1>2 DEF ColumnWritten

\* An update leaves the columns alone that others set: a column changes only with the commit of a
\* request whose route sets it, nothing that is deleted, read or verified becomes what it was
\* before, and no row goes away.
THEOREM UpdatesKeepOtherColumns == Spec => OnlyItsColumnsChange
  <1> DEFINE ItsColumns ==
        \A x \in Ids \ Shares :
          row[x] # None =>
             /\ row'[x] # None
             /\ \A c \in DOMAIN row[x] :
                   row'[x][c] # row[x][c] =>
                      /\ \E r \in Requests :
                            At(r, "done") /\ At(r, "idle")' /\ c \in ColumnsOf(req[r].op)
                      /\ c \in {"deleted", "read", "verified"} => row'[x][c]
  <1>1. ASSUME Base, [Next]_all, NEW x \in Ids \ Shares, row[x] # None
        PROVE  /\ row'[x] # None
               /\ \A c \in DOMAIN row[x] :
                     row'[x][c] # row[x][c] =>
                        /\ \E r \in Requests :
                              At(r, "done") /\ At(r, "idle")' /\ c \in ColumnsOf(req[r].op)
                        /\ c \in {"deleted", "read", "verified"} => row'[x][c]
    <2>1. CASE row' = row BY <1>1, <2>1
    <2>2. CASE \E s \in Shares : Expire(s)
      <3>1. row'[x] = row[x] BY <1>1, <2>2 DEF Expire, Base, RowsFit
      <3>2. QED BY <1>1, <3>1
    <2>3. CASE \E r \in Requests : Commit(r)
      <3>1. PICK r \in Requests : Commit(r) BY <2>3
      <3>2. Updates(req[r]) /\ Relinks(req[r]) /\ Inserts(req[r]) BY <1>1 DEF Base, Fits
      <3>3. x \notin DOMAIN req[r].new BY <1>1, <3>2 DEF Inserts
      <3>4. /\ row'[x] # None
            /\ \A c \in DOMAIN row[x] :
                  \/ row'[x][c] = row[x][c]
                  \/ ColumnWritten(req[r], x, c, row[x][c], row'[x][c])
        BY <1>1, <3>1, <3>3, CommittedRows
      <3>5. At(r, "done") /\ At(r, "idle")'
        BY <1>1, <3>1, IdleFields DEF Commit, At, Base
      <3>6. ASSUME NEW c \in DOMAIN row[x], row'[x][c] # row[x][c]
            PROVE  /\ c \in ColumnsOf(req[r].op)
                   /\ c \in {"deleted", "read", "verified"} => row'[x][c]
        <4>1. PICK q, before, after : q = req[r] /\ before = row[x][c] /\ after = row'[x][c]
          OBVIOUS
        <4>2. Updates(q) /\ Relinks(q) /\ ColumnWritten(q, x, c, before, after)
          BY <3>2, <3>4, <3>6, <4>1
        <4>3. /\ c \in ColumnsOf(q.op)
              /\ c \in {"deleted", "read", "verified"} => after \in {TRUE}
          BY <4>2, ColumnsWritten
        <4>4. c \in {"deleted", "read", "verified"} => row'[x][c] = TRUE BY <4>1, <4>3
        <4>5. QED BY <4>1, <4>3, <4>4, Zenon
      <3>7. QED BY <3>4, <3>5, <3>6
    <2>4. QED BY <1>1, <2>1, <2>2, <2>3, RowsChangeAtCommit
  <1>2. Base /\ [Next]_all => [ItsColumns]_all BY <1>1
  <1>3. QED BY <1>2, BaseInvariance, PTL DEF Spec, OnlyItsColumnsChange

-----------------------------------------------------------------------------
\* For the proofs about the parts: which request takes which step.

\* A step of a request changes no row and no other request.
LEMMA Continued ==
  ASSUME Base, NEW r \in Requests, NEW to, Continue(r, to)
  PROVE  /\ req'[r] = to /\ (\A q \in Requests \ {r} : req'[q] = req[q])
         /\ row' = row /\ log' = log
  BY DEF Continue, tables, Base

\* The routes of the calls that several parts make alike.
LEMMA OpsOfCalls ==
  ASSUME Base, NEW r \in Requests
  PROVE  /\ \A to : Begin(r, to) => req'[r] = to
         /\ \A op, u, T, record : Create(r, op, u, T, record) => req'[r].op = op
         /\ \A op, u, x, data : Update(r, op, u, x, data) => req'[r].op = op
         /\ \A op, u, x : DeleteSoft(r, op, u, x) => req'[r].op = op
         /\ \A op, u, e, data, action : OnEntry(r, op, u, e, data, action) => req'[r].op = op
  <1>1. \A to : Begin(r, to) => req'[r] = to BY Continued DEF Begin
  <1>2. \A op, v, T, record : Create(r, op, v, T, record) => req'[r].op = op
    BY <1>1 DEF Create, Idle
  <1>3. \A op, v, x, data : Update(r, op, v, x, data) => req'[r].op = op
    BY <1>1 DEF Update, Idle
  <1>4. \A op, v, x : DeleteSoft(r, op, v, x) => req'[r].op = op
    BY <1>1 DEF DeleteSoft, Idle
  <1>5. \A op, v, e, data, action : OnEntry(r, op, v, e, data, action) => req'[r].op = op
    BY <1>1 DEF OnEntry, Idle
  <1>6. QED BY <1>1, <1>2, <1>3, <1>4, <1>5

\* The routes of the calls.
LEMMA RoutesOfCalls ==
  ASSUME Base, NEW r \in Requests, NEW u
  PROVE  /\ VaultCall(r, u) => req'[r].op \in VaultRoutes \cup NotificationRoutes
         /\ LabelCall(r, u) =>
               req'[r].op \in CategoryRoutes \cup VaultTagRoutes \cup FolderRoutes
                              \cup MemoTagRoutes \cup ProjectTagRoutes
         /\ MemoCall(r, u) => req'[r].op \in MemoRoutes \cup FlagRoutes
         /\ ProjectCall(r, u) => req'[r].op \in ProjectRoutes \cup AssigneeRoutes \cup TaskRoutes
         /\ EventCall(r, u) => req'[r].op \in EventRoutes
         /\ CatalogCall(r, u) => req'[r].op \in CatalogRoutes
         /\ AccountCall(r) => req'[r].op \in AccountRoutes
         /\ Seed(r) => req'[r].op = "seed"
  <1>1. \A to : Begin(r, to) => req'[r] = to BY OpsOfCalls
  <1>2. \A op, v, T, record : Create(r, op, v, T, record) => req'[r].op = op BY OpsOfCalls
  <1>3. \A op, v, x, data : Update(r, op, v, x, data) => req'[r].op = op BY OpsOfCalls
  <1>4. \A op, v, x : DeleteSoft(r, op, v, x) => req'[r].op = op BY OpsOfCalls
  <1>5. \A op, v, e, data, action : OnEntry(r, op, v, e, data, action) => req'[r].op = op
    BY OpsOfCalls
  <1>6. VaultCall(r, u) => req'[r].op \in VaultRoutes \cup NotificationRoutes
    <2>1. ASSUME NEW v \in Values, CreateEntry(r, u, v) PROVE req'[r].op = "create_entry"
      BY <1>1, <2>1 DEF CreateEntry, Idle
    <2>2. ASSUME NEW e \in Entries, NEW v \in Users \cup {None}, ShareEntry(r, u, e, v)
          PROVE  req'[r].op = "share_entry"
      BY <1>1, <2>2 DEF ShareEntry, Idle
    <2>3. ASSUME NEW n \in Notifications, MarkRead(r, u, n) PROVE req'[r].op = "mark_read"
      BY <1>1, <2>3 DEF MarkRead, Idle
    <2>4. ASSUME MarkAllRead(r, u) PROVE req'[r].op = "mark_all_read"
      BY <1>1, <2>4 DEF MarkAllRead, Idle
    <2>5. QED
      BY <1>5, <2>1, <2>2, <2>3, <2>4
         DEF VaultCall, GetEntry, UpdateEntry, DeleteEntry, VaultRoutes, NotificationRoutes
  <1>7. LabelCall(r, u) =>
           req'[r].op \in CategoryRoutes \cup VaultTagRoutes \cup FolderRoutes
                          \cup MemoTagRoutes \cup ProjectTagRoutes
    BY <1>2, <1>3, <1>4
       DEF LabelCall, CreateCategory, CreateVaultTag, CreateFolder, CreateMemoTag,
           CreateProjectTag, NewLabel, UpdateCategory, UpdateVaultTag, UpdateProjectTag,
           DeleteCategory, DeleteVaultTag, DeleteFolder, DeleteMemoTag, DeleteProjectTag,
           CategoryRoutes, VaultTagRoutes, FolderRoutes, MemoTagRoutes, ProjectTagRoutes
  <1>8. MemoCall(r, u) => req'[r].op \in MemoRoutes \cup FlagRoutes
    <2>1. ASSUME NEW c \in Contents, CreateMemo(r, u, c) PROVE req'[r].op = "create_memo"
      BY <1>1, <2>1 DEF CreateMemo, Idle
    <2>2. ASSUME NEW m \in MemoIds, NEW c \in Contents, UpdateMemo(r, u, m, c)
          PROVE  req'[r].op = "update_memo"
      BY <1>1, <2>2 DEF UpdateMemo, Idle
    <2>3. QED
      BY <1>3, <1>4, <2>1, <2>2
         DEF MemoCall, PinMemo, UnpinMemo, FavoriteMemo, UnfavoriteMemo, DeleteMemo, MemoRoutes,
             FlagRoutes
  <1>9. ProjectCall(r, u) => req'[r].op \in ProjectRoutes \cup AssigneeRoutes \cup TaskRoutes
    <2>1. ASSUME NEW v \in Statuses, CreateProject(r, u, v) PROVE req'[r].op = "create_project"
      BY <1>1, <2>1 DEF CreateProject, Idle
    <2>2. QED
      BY <1>2, <1>3, <1>4, <2>1
         DEF ProjectCall, UpdateProject, DeleteProject, ArchiveProject, RestoreProject,
             AddAssignee, RemoveAssignee, CreateTask, UpdateTask, DeleteTask, ProjectRoutes,
             AssigneeRoutes, TaskRoutes
  <1>10. EventCall(r, u) => req'[r].op \in EventRoutes
    BY <1>2, <1>3, <1>4 DEF EventCall, CreateEvent, UpdateEvent, DeleteEvent, EventRoutes
  <1>11. CatalogCall(r, u) => req'[r].op \in CatalogRoutes
    <2>1. ASSUME NEW n \in PermissionNames, CreatePermission(r, u, n)
          PROVE  req'[r].op = "create_permission"
      BY <1>1, <2>1 DEF CreatePermission, Idle
    <2>2. ASSUME NEW n \in RoleNames, NEW g \in SUBSET PermissionNames, CreateRole(r, u, n, g)
          PROVE  req'[r].op = "create_role"
      BY <1>1, <2>2 DEF CreateRole, Idle
    <2>3. ASSUME NEW n \in RoleNames, NEW g \in SUBSET PermissionNames, UpdateRole(r, u, n, g)
          PROVE  req'[r].op = "update_role"
      BY <1>1, <2>3 DEF UpdateRole, Idle
    <2>4. QED
      BY <1>4, <2>1, <2>2, <2>3 DEF CatalogCall, DeletePermission, DeleteRole, CatalogRoutes
  <1>12. AccountCall(r) => req'[r].op \in AccountRoutes
    <2>1. ASSUME NEW a \in Addresses, NEW v \in Profiles, Register(r, a, v)
          PROVE  req'[r].op = "register"
      BY <1>1, <2>1 DEF Register, Idle
    <2>2. ASSUME NEW a \in Addresses, ResendVerification(r, a)
          PROVE  req'[r].op = "resend_verification"
      BY <1>1, <2>2 DEF ResendVerification, Idle
    <2>3. ASSUME NEW t \in Links, VerifyEmail(r, t) PROVE req'[r].op = "verify_email"
      BY <1>1, <2>3 DEF VerifyEmail, Idle
    <2>4. QED BY <1>3, <2>1, <2>2, <2>3 DEF AccountCall, UpdateProfile, AccountRoutes
  <1>13. Seed(r) => req'[r].op = "seed" BY <1>1 DEF Seed, Idle
  <1>14. QED BY <1>6, <1>7, <1>8, <1>9, <1>10, <1>11, <1>12, <1>13

\* The call of a request with a route.
LEMMA CallsByRoute ==
  ASSUME Base, NEW r \in Requests, Call(r)
  PROVE  /\ req'[r].op \in VaultRoutes \cup NotificationRoutes => \E u \in Users : VaultCall(r, u)
         /\ req'[r].op \in MemoRoutes \cup FlagRoutes => \E u \in Users : MemoCall(r, u)
         /\ req'[r].op \in ProjectRoutes => \E u \in Users : ProjectCall(r, u)
         /\ req'[r].op \in CatalogRoutes => \E u \in Users : CatalogCall(r, u)
         /\ req'[r].op = "seed" => Seed(r)
         /\ req'[r].op \in AccountRoutes => AccountCall(r)
         /\ row' = row /\ log' = log /\ req[r].pc = "idle"
         /\ \A q \in Requests \ {r} : req'[q] = req[q]
  <1>1. PICK to : Begin(r, to) BY CallsContinue
  <1>2. /\ row' = row /\ log' = log /\ req[r].pc = "idle"
        /\ \A q \in Requests \ {r} : req'[q] = req[q]
    BY <1>1, Continued DEF Begin, At
  <1>3. \/ AccountCall(r) \/ Seed(r)
        \/ \E u \in Users : \/ VaultCall(r, u) \/ LabelCall(r, u) \/ MemoCall(r, u)
                            \/ ProjectCall(r, u) \/ EventCall(r, u) \/ CatalogCall(r, u)
    BY DEF Call
  <1> DEFINE op == req'[r].op
             labels == CategoryRoutes \cup VaultTagRoutes \cup FolderRoutes \cup MemoTagRoutes
                       \cup ProjectTagRoutes
             parts == <<VaultRoutes \cup NotificationRoutes, labels, MemoRoutes \cup FlagRoutes,
                        ProjectRoutes \cup AssigneeRoutes \cup TaskRoutes, EventRoutes,
                        CatalogRoutes, {"seed"}, AccountRoutes>>
  <1>4. \A i, j \in 1..8 : i # j => parts[i] \cap parts[j] = {}
    BY DEF VaultRoutes, NotificationRoutes, CategoryRoutes, VaultTagRoutes, FolderRoutes,
           MemoTagRoutes, ProjectTagRoutes, MemoRoutes, FlagRoutes, ProjectRoutes,
           AssigneeRoutes, TaskRoutes, EventRoutes, CatalogRoutes, AccountRoutes
  <1>5. \A u \in Users :
          /\ VaultCall(r, u) => op \in parts[1]
          /\ LabelCall(r, u) => op \in parts[2]
          /\ MemoCall(r, u) => op \in parts[3]
          /\ ProjectCall(r, u) => op \in parts[4]
          /\ EventCall(r, u) => op \in parts[5]
          /\ CatalogCall(r, u) => op \in parts[6]
    BY RoutesOfCalls
  <1>6. (Seed(r) => op \in parts[7]) /\ (AccountCall(r) => op \in parts[8])
    BY RoutesOfCalls
  <1>7. /\ VaultRoutes \cup NotificationRoutes = parts[1] /\ MemoRoutes \cup FlagRoutes = parts[3]
        /\ ProjectRoutes \subseteq parts[4] /\ CatalogRoutes = parts[6]
        /\ "seed" \in parts[7] /\ AccountRoutes = parts[8]
    OBVIOUS
  <1> HIDE DEF parts, op
  <1>8. /\ op \in parts[1] => \E u \in Users : VaultCall(r, u)
        /\ op \in parts[3] => \E u \in Users : MemoCall(r, u)
        /\ op \in parts[4] => \E u \in Users : ProjectCall(r, u)
        /\ op \in parts[6] => \E u \in Users : CatalogCall(r, u)
        /\ op \in parts[7] => Seed(r)
        /\ op \in parts[8] => AccountCall(r)
    BY <1>3, <1>4, <1>5, <1>6
  <1>9. QED BY <1>2, <1>7, <1>8 DEF op

\* The calls that insert memos, projects and entries.
LEMMA CreationsByRoute ==
  ASSUME Base, NEW r \in Requests, Call(r)
  PROVE  /\ req'[r].op = "create_memo" => \E u \in Users, c \in Contents : CreateMemo(r, u, c)
         /\ req'[r].op = "create_project" =>
               \E u \in Users, v \in Statuses : CreateProject(r, u, v)
         /\ req'[r].op = "create_entry" => \E u \in Users, v \in Values : CreateEntry(r, u, v)
  <1>1. \A to : Begin(r, to) => req'[r] = to BY OpsOfCalls
  <1>2. CASE req'[r].op = "create_memo"
    <2>1. PICK u \in Users : MemoCall(r, u) BY <1>2, CallsByRoute DEF MemoRoutes
    <2>2. ASSUME NEW m \in MemoIds, NEW c \in Contents, UpdateMemo(r, u, m, c)
          PROVE  req'[r].op = "update_memo"
      BY <1>1, <2>2 DEF UpdateMemo, Idle
    <2>3. \E c \in Contents : CreateMemo(r, u, c)
      BY <1>2, <2>1, <2>2, OpsOfCalls
         DEF MemoCall, PinMemo, UnpinMemo, FavoriteMemo, UnfavoriteMemo, DeleteMemo
    <2>4. QED BY <1>2, <2>3
  <1>3. CASE req'[r].op = "create_project"
    <2>1. PICK u \in Users : ProjectCall(r, u) BY <1>3, CallsByRoute DEF ProjectRoutes
    <2>2. \E v \in Statuses : CreateProject(r, u, v)
      BY <1>3, <2>1, OpsOfCalls
         DEF ProjectCall, UpdateProject, DeleteProject, ArchiveProject, RestoreProject,
             AddAssignee, RemoveAssignee, CreateTask, UpdateTask, DeleteTask
    <2>3. QED BY <1>3, <2>2
  <1>4. CASE req'[r].op = "create_entry"
    <2>1. PICK u \in Users : VaultCall(r, u) BY <1>4, CallsByRoute DEF VaultRoutes
    <2>2. ASSUME NEW e \in Entries, NEW v \in Users \cup {None}, ShareEntry(r, u, e, v)
          PROVE  req'[r].op = "share_entry"
      BY <1>1, <2>2 DEF ShareEntry, Idle
    <2>3. ASSUME NEW n \in Notifications, MarkRead(r, u, n) PROVE req'[r].op = "mark_read"
      BY <1>1, <2>3 DEF MarkRead, Idle
    <2>4. ASSUME MarkAllRead(r, u) PROVE req'[r].op = "mark_all_read"
      BY <1>1, <2>4 DEF MarkAllRead, Idle
    <2>5. \E v \in Values : CreateEntry(r, u, v)
      BY <1>4, <2>1, <2>2, <2>3, <2>4, OpsOfCalls
         DEF VaultCall, GetEntry, UpdateEntry, DeleteEntry
    <2>6. QED BY <1>4, <2>5
  <1>5. QED BY <1>2, <1>3, <1>4

\* The step of a request whose record changes: it ends, or begins, or goes on.
LEMMA RequestSteps ==
  ASSUME Base, [Next]_all, NEW q \in Requests, req'[q] # req[q]
  PROVE  \/ req'[q] = Idle
         \/ Call(q)
         \/ (Write(q) \/ AddVersion(q) \/ LookUpName(q) \/ InsertName(q) \/ ChangeLinks(q))
            /\ UNCHANGED outside
         \/ AccountStep(q)
  <1>1. ASSUME NEW r \in Requests, NEW to, Continue(r, to) PROVE r = q
    BY <1>1, Continued
  <1>2. ASSUME NEW r \in Requests, Call(r) PROVE r = q
    BY <1>1, <1>2, CallsContinue DEF Begin
  <1>3. ASSUME NEW r \in Requests, AccountStep(r) PROVE r = q
    <2>1. \E to : Continue(r, to)
      BY <1>3, Zenon DEF AccountStep, MailLink, UseLink, OpenAccount, Open, Abort
    <2>2. QED BY <1>1, <2>1
  <1>4. ASSUME NEW r \in Requests, Write(r) \/ AddVersion(r) PROVE r = q
    <2>1. \E to : Continue(r, to) BY <1>4, Zenon DEF Write, AddVersion, Abort
    <2>2. QED BY <1>1, <2>1
  <1>5. ASSUME NEW r \in Requests, LookUpName(r) \/ InsertName(r) \/ ChangeLinks(r) PROVE r = q
    <2>1. \E to : Continue(r, to)
      BY <1>5, Zenon DEF LookUpName, InsertName, ChangeLinks, Abort
    <2>2. QED BY <1>1, <2>1
  <1>6. ASSUME NEW r \in Requests, Commit(r) PROVE req'[q] = Idle
    BY <1>6 DEF Commit, Base
  <1>7. ASSUME NEW r \in Requests, Cancel(r) PROVE req'[q] = Idle
    BY <1>1, <1>7, Continued DEF Cancel, Abort
  <1>8. ASSUME UNCHANGED req PROVE FALSE BY <1>8
  <1>9. /\ \A r \in Requests : Refused(r) => UNCHANGED req
        /\ \A s \in Shares : Expire(s) => UNCHANGED req
        /\ \A t \in Links : LinkExpires(t) => UNCHANGED req
        /\ UNCHANGED all => UNCHANGED req
    BY DEF Refused, Expire, LinkExpires, all, vars
  <1>10. QED BY <1>2, <1>3, <1>4, <1>5, <1>6, <1>7, <1>8, <1>9, Zenon DEF Next, Step

\* The UPDATE of one row, as it changes the record of its request.
LEMMA WriteFields ==
  ASSUME Base, NEW r \in Requests, Write(r)
  PROVE  /\ req'[r].op = req[r].op /\ req'[r].user = req[r].user /\ req'[r].data = req[r].data
         /\ req'[r].next = req[r].next /\ req'[r].new = req[r].new /\ req'[r].arg = req[r].arg
         /\ req'[r].logged = req[r].logged /\ req'[r].names = req[r].names
         /\ req'[r].todo \cup req'[r].hold = req[r].todo \cup req[r].hold
         /\ req'[r].pc = IF req'[r].todo = {} THEN req[r].next ELSE "write"
         /\ req[r].pc = "write" /\ row' = row /\ log' = log
  <1>1. Typed(req[r]) /\ req[r].pc = "write" BY DEF Write, At, Base, Fits
  <1>2. PICK x \in req[r].todo :
          Continue(r, [req[r] EXCEPT
                         !.pc = IF req[r].todo \ {x} = {} THEN req[r].next ELSE @,
                         !.todo = req[r].todo \ {x}, !.hold = @ \cup {x}])
    BY DEF Write
  <1> DEFINE pc == IF req[r].todo \ {x} = {} THEN req[r].next ELSE req[r].pc
             rest == req[r].todo \ {x}
             hold == req[r].hold \cup {x}
             to == [req[r] EXCEPT !.pc = pc, !.todo = rest, !.hold = hold]
  <1>3. Continue(r, to) BY <1>1, <1>2, Fields
  <1>4. pc = (IF rest = {} THEN req[r].next ELSE "write") BY <1>1
  <1>5. rest \cup hold = req[r].todo \cup req[r].hold OBVIOUS
  <1> HIDE DEF pc, rest, hold
  <1>6. /\ to.pc = pc /\ to.op = req[r].op /\ to.user = req[r].user /\ to.next = req[r].next
        /\ to.logged = req[r].logged /\ to.new = req[r].new /\ to.names = req[r].names
        /\ to.data = req[r].data /\ to.todo = rest /\ to.hold = hold /\ to.arg = req[r].arg
    BY <1>1, Fields
  <1> HIDE DEF to
  <1>7. QED BY <1>1, <1>3, <1>4, <1>5, <1>6, Continued

\* The INSERT of a row by name, as it changes the record of its request.
LEMMA InsertNameFields ==
  ASSUME Base, NEW r \in Requests, InsertName(r), req'[r] # Idle
  PROVE  \E name, record :
            /\ req[r].names # <<>> /\ <<name, record>> = Head(req[r].names)
            /\ Pending(req[r]) = {<<name, record>>} \cup Pending(req'[r])
            /\ row[name] = None /\ \A q \in Requests \ {r} : name \notin DOMAIN req[q].new
            /\ DOMAIN req'[r].new = DOMAIN req[r].new \cup {name}
            /\ \A x \in DOMAIN req'[r].new :
                  \/ x \in DOMAIN req[r].new /\ req'[r].new[x] = req[r].new[x]
                  \/ x = name /\ req'[r].new[x] = record
            /\ req'[r].pc = req[r].next /\ req'[r].op = req[r].op /\ req'[r].arg = req[r].arg
            /\ req'[r].next = req[r].next /\ req'[r].todo = req[r].todo
            /\ req'[r].hold = req[r].hold /\ req'[r].data = req[r].data
  <1>1. Typed(req[r]) /\ InProgram(req[r]) /\ req[r].pc = "insert"
    BY DEF InsertName, At, Base, Fits
  <1>2. req[r].names # <<>> /\ req[r].names \in Seq(Ids \X Records)
    BY <1>1 DEF InProgram, Typed
  <1>3. PICK name, record : name = Head(req[r].names)[1] /\ record = Head(req[r].names)[2]
    OBVIOUS
  <1>4. /\ \A q \in Requests \ {r} : name \notin DOMAIN req[q].new
        /\ IF row[name] # None THEN Abort(r)
           ELSE Continue(r, [req[r] EXCEPT !.pc = req[r].next, !.names = Tail(@),
                                           !.new = Both(@, Row(name, record))])
    BY <1>3 DEF InsertName
  <1>5. row[name] = None BY <1>4, Continued DEF Abort
  <1> DEFINE names == Tail(req[r].names)
             one == Row(name, record)
             new == Both(req[r].new, one)
             to == [req[r] EXCEPT !.pc = req[r].next, !.names = names, !.new = new]
  <1>6. Continue(r, to) BY <1>1, <1>4, <1>5, Fields
  <1>7. DOMAIN one = {name} /\ one[name] = record BY RowFields
  <1> HIDE DEF one
  <1>8. /\ DOMAIN new = DOMAIN req[r].new \cup {name}
        /\ \A x \in DOMAIN new :
              \/ x \in DOMAIN req[r].new /\ new[x] = req[r].new[x]
              \/ x = name /\ new[x] = record
    BY <1>7 DEF Both
  <1>9. names = Tail(req[r].names) OBVIOUS
  <1> HIDE DEF new, names
  <1>10. /\ to.pc = req[r].next /\ to.op = req[r].op /\ to.next = req[r].next
         /\ to.new = new /\ to.names = names /\ to.arg = req[r].arg
         /\ to.data = req[r].data /\ to.todo = req[r].todo /\ to.hold = req[r].hold
    BY <1>1, Fields
  <1> HIDE DEF to
  <1>11. /\ Head(req[r].names) \in Ids \X Records /\ to.names \in Seq(Ids \X Records)
         /\ Pending(req[r]) = {Head(req[r].names)} \cup Pending(to)
         /\ Len(to.names) = Len(req[r].names) - 1
    BY <1>2, <1>9, <1>10, PendingOfTail
  <1>12. <<name, record>> = Head(req[r].names) BY <1>3, <1>11
  <1>13. req'[r] = to BY <1>6, Continued
  <1>14. /\ req[r].names # <<>> /\ <<name, record>> = Head(req[r].names)
         /\ Pending(req[r]) = {<<name, record>>} \cup Pending(req'[r])
         /\ row[name] = None /\ \A q \in Requests \ {r} : name \notin DOMAIN req[q].new
    BY <1>2, <1>4, <1>5, <1>11, <1>12, <1>13
  <1>15. /\ DOMAIN req'[r].new = DOMAIN req[r].new \cup {name}
         /\ \A x \in DOMAIN req'[r].new :
               \/ x \in DOMAIN req[r].new /\ req'[r].new[x] = req[r].new[x]
               \/ x = name /\ req'[r].new[x] = record
    BY <1>8, <1>10, <1>13
  <1>16. /\ req'[r].pc = req[r].next /\ req'[r].op = req[r].op /\ req'[r].arg = req[r].arg
         /\ req'[r].next = req[r].next /\ req'[r].todo = req[r].todo
         /\ req'[r].hold = req[r].hold /\ req'[r].data = req[r].data
    BY <1>10, <1>13
  <1>17. QED BY <1>14, <1>15, <1>16, Zenon

\* The lookup of a default: it is skipped if it is there.
LEMMA LookUpNameFields ==
  ASSUME Base, NEW r \in Requests, LookUpName(r)
  PROVE  /\ req'[r].new = req[r].new /\ req'[r].op = req[r].op /\ req'[r].arg = req[r].arg
         /\ \A n \in Pending(req[r]) : n \in Pending(req'[r]) \/ row[n[1]] # None
         /\ \A n \in Pending(req'[r]) : n \in Pending(req[r])
  <1>1. Typed(req[r]) BY DEF Base, Fits
  <1>2. \A to : Continue(r, to) => req'[r] = to BY Continued
  <1>3. ASSUME NEW pc, Continue(r, [req[r] EXCEPT !.pc = pc])
        PROVE  /\ req'[r].new = req[r].new /\ req'[r].op = req[r].op /\ req'[r].arg = req[r].arg
               /\ req'[r].names = req[r].names
    BY <1>1, <1>2, <1>3, Fields
  <1>4. ASSUME req[r].names # <<>>, Live(Head(req[r].names)[1]),
               Continue(r, [req[r] EXCEPT !.names = Tail(@)])
        PROVE  /\ req'[r].new = req[r].new /\ req'[r].op = req[r].op /\ req'[r].arg = req[r].arg
               /\ Pending(req[r]) = {Head(req[r].names)} \cup Pending(req'[r])
               /\ row[Head(req[r].names)[1]] # None
    <2> DEFINE names == Tail(req[r].names)
               to == [req[r] EXCEPT !.names = names]
    <2>1. Continue(r, to) BY <1>1, <1>4, Fields
    <2>2. names = Tail(req[r].names) OBVIOUS
    <2> HIDE DEF names
    <2>3. to.new = req[r].new /\ to.op = req[r].op /\ to.arg = req[r].arg /\ to.names = names
      BY <1>1, Fields
    <2> HIDE DEF to
    <2>4. Pending(req[r]) = {Head(req[r].names)} \cup Pending(to)
      BY <1>1, <1>4, <2>2, <2>3, PendingOfTail DEF Typed
    <2>5. QED BY <1>2, <1>4, <2>1, <2>3, <2>4 DEF Live
  <1>5. QED BY <1>3, <1>4 DEF LookUpName, Pending

\* The other steps keep the route, unless they end the request.
LEMMA RoutesOfSteps ==
  ASSUME Base, NEW r \in Requests
  PROVE  /\ AddVersion(r) => /\ req[r].op = "update_memo" /\ row' = row
                             /\ req'[r] = Idle \/ req'[r].op = req[r].op
         /\ LookUpName(r) => /\ req[r].op = "seed" /\ req'[r].op = req[r].op /\ row' = row
         /\ InsertName(r) => /\ req[r].op \in NamingRoutes /\ row' = row
                             /\ req'[r] = Idle \/ req'[r].op = req[r].op
         /\ ChangeLinks(r) => /\ req[r].op = "update_role" /\ row' = row
                              /\ req'[r] = Idle \/ req'[r].op = req[r].op
         /\ AccountStep(r) =>
               /\ req[r].op \in {"register", "resend_verification", "verify_email"} /\ row' = row
               /\ req'[r] = Idle \/ req'[r].op = req[r].op
  <1>1. Typed(req[r]) /\ InProgram(req[r]) BY DEF Base, Fits
  <1>2. DOMAIN req[r] = DOMAIN Idle BY <1>1 DEF Typed
  <1>3. \A to : Continue(r, to) => req'[r] = to /\ row' = row BY Continued
  <1>4. ASSUME AddVersion(r)
        PROVE  /\ req[r].op = "update_memo" /\ row' = row
               /\ req'[r] = Idle \/ req'[r].op = req[r].op
    <2>1. PICK to : Continue(r, to) /\ (to = Idle \/ to.op = req[r].op)
      <3>1. PICK new : Abort(r) \/ Continue(r, [req[r] EXCEPT !.pc = "done", !.new = new])
        BY <1>4, Zenon DEF AddVersion
      <3>2. [req[r] EXCEPT !.pc = "done", !.new = new].op = req[r].op BY <1>1, Fields
      <3>3. QED BY <3>1, <3>2, Zenon DEF Abort
    <2>2. QED BY <1>1, <1>3, <1>4, <2>1 DEF AddVersion, At, InProgram
  <1>5. ASSUME LookUpName(r) PROVE req[r].op = "seed" /\ req'[r].op = req[r].op /\ row' = row
    <2>1. PICK to : Continue(r, to) /\ to.op = req[r].op
      BY <1>1, <1>5, Fields DEF LookUpName
    <2>2. QED BY <1>1, <1>3, <1>5, <2>1 DEF LookUpName, At, InProgram
  <1>6. ASSUME InsertName(r)
        PROVE  /\ req[r].op \in NamingRoutes /\ row' = row
               /\ req'[r] = Idle \/ req'[r].op = req[r].op
    <2>1. PICK to : Continue(r, to) /\ (to = Idle \/ to.op = req[r].op)
      <3>1. PICK pc, names, new :
              Abort(r) \/ Continue(r, [req[r] EXCEPT !.pc = pc, !.names = names, !.new = new])
        <4>1. PICK one : \/ Abort(r)
                         \/ Continue(r, [req[r] EXCEPT !.pc = req[r].next, !.names = Tail(@),
                                                       !.new = Both(@, one)])
          BY <1>6, Zenon DEF InsertName
        <4>2. [req[r] EXCEPT !.pc = req[r].next, !.names = Tail(@), !.new = Both(@, one)]
                = [req[r] EXCEPT !.pc = req[r].next, !.names = Tail(req[r].names),
                                 !.new = Both(req[r].new, one)]
          BY <1>1, Fields
        <4>3. QED BY <4>1, <4>2, Zenon
      <3>2. [req[r] EXCEPT !.pc = pc, !.names = names, !.new = new].op = req[r].op
        BY <1>1, Fields
      <3>3. QED BY <3>1, <3>2, Zenon DEF Abort
    <2>2. QED BY <1>1, <1>3, <1>6, <2>1 DEF InsertName, At, InProgram
  <1>7. ASSUME ChangeLinks(r)
        PROVE  /\ req[r].op = "update_role" /\ row' = row
               /\ req'[r] = Idle \/ req'[r].op = req[r].op
    <2>1. PICK to : Continue(r, to) /\ (to = Idle \/ to.op = req[r].op)
      BY <1>1, <1>7, Fields DEF ChangeLinks, Abort
    <2>2. QED BY <1>1, <1>3, <1>7, <2>1 DEF ChangeLinks, At, InProgram
  <1>8. ASSUME AccountStep(r)
        PROVE  /\ req[r].op \in {"register", "resend_verification", "verify_email"} /\ row' = row
               /\ req'[r] = Idle \/ req'[r].op = req[r].op
    <2>1. PICK to : Continue(r, to) /\ (to = Idle \/ to.op = req[r].op)
      <3>1. /\ [req[r] EXCEPT !.pc = "done"].op = req[r].op
            /\ [req[r] EXCEPT !.pc = "open"].op = req[r].op
            /\ \A a : [req[r] EXCEPT !.pc = "write", !.todo = {a},
                                     !.data = [verified |-> TRUE]].op = req[r].op
        BY <1>1, Fields
      <3>2. CASE MailLink(r) BY <3>1, <3>2, Zenon DEF MailLink, Abort
      <3>3. CASE UseLink(r) BY <3>1, <3>3, Zenon DEF UseLink
      <3>4. CASE OpenAccount(r)
        <4>1. CASE Abort(r) BY <4>1, Zenon DEF Abort
        <4>2. CASE ~Abort(r)
          <5>1. PICK a : \/ Continue(r, [req[r] EXCEPT !.pc = "done"])
                         \/ Continue(r, [req[r] EXCEPT !.pc = "write", !.todo = {a},
                                                       !.data = [verified |-> TRUE]])
            BY <3>4, <4>2 DEF OpenAccount, Open
          <5>2. QED BY <3>1, <5>1, Zenon
        <4>3. QED BY <4>1, <4>2
      <3>5. QED BY <1>8, <3>2, <3>3, <3>4 DEF AccountStep
    <2>2. QED
      BY <1>1, <1>3, <1>8, <2>1 DEF AccountStep, MailLink, UseLink, OpenAccount, At, InProgram
  <1>9. QED BY <1>4, <1>5, <1>6, <1>7, <1>8

\* A column that no route sets stays as it is, in a row that stays there.
LEMMA FixedColumns ==
  ASSUME Base, [Next]_all, NEW x \in Ids, row[x] # None
  PROVE  /\ row'[x] # None /\ DOMAIN row'[x] = DOMAIN row[x]
         /\ \A c \in DOMAIN row[x] :
               c \notin Updatable(Kind(x)) \cup {"grants", "expired"} => row'[x][c] = row[x][c]
  <1>1. CASE row' = row BY <1>1
  <1>2. ASSUME NEW s \in Shares, Expire(s)
        PROVE  /\ row'[x] # None /\ DOMAIN row'[x] = DOMAIN row[x]
               /\ \A c \in DOMAIN row[x] : c # "expired" => row'[x][c] = row[x][c]
    <2>1. row' = [row EXCEPT ![s].expired = TRUE] /\ s \in Ids BY <1>2, KindsOfRows DEF Expire
    <2>2. CASE x # s BY <2>1, <2>2 DEF Base, RowsFit
    <2>3. CASE x = s
      <3>1. row[x] \in Share BY <2>3, KindsOfRows, RecordsOfTables DEF Base, RowsFit, WellFormed
      <3>2. row'[x] = [row[x] EXCEPT !.expired = TRUE] BY <2>1, <2>3 DEF Base, RowsFit
      <3>3. row'[x] \in Share BY <3>1, <3>2 DEF Share
      <3>4. row'[x] # None
        BY <2>3, <3>3, KindsOfRows, RecordsOfTables, RecordsThere DEF WellFormed
      <3>5. QED BY <3>1, <3>2, <3>4 DEF Share
    <2>4. QED BY <2>2, <2>3
  <1>3. ASSUME NEW r \in Requests, Commit(r)
        PROVE  /\ row'[x] # None /\ DOMAIN row'[x] = DOMAIN row[x]
               /\ \A c \in DOMAIN row[x] :
                     c \notin Updatable(Kind(x)) \cup {"grants"} => row'[x][c] = row[x][c]
    <2>1. Updates(req[r]) /\ Inserts(req[r]) BY DEF Base, Fits
    <2>2. x \notin DOMAIN req[r].new BY <2>1 DEF Inserts
    <2>3. PICK after : after = row'[x] OBVIOUS
    <2>4. /\ after # None /\ DOMAIN after = DOMAIN row[x]
          /\ \A c \in DOMAIN row[x] :
                after[c] = row[x][c] \/ ColumnWritten(req[r], x, c, row[x][c], after[c])
      BY <1>3, <2>2, <2>3, CommittedRows
    <2>5. \A c \in DOMAIN row[x] :
             c \notin Updatable(Kind(x)) \cup {"grants"} => after[c] = row[x][c]
      BY <2>1, <2>4, ColumnsOfTable DEF ColumnWritten
    <2>6. QED BY <2>3, <2>4, <2>5
  <1>4. QED BY <1>1, <1>2, <1>3, RowsChangeAtCommit

\* A row that is not one of those that a request updates stays as it is at its commit.
LEMMA UntouchedRows ==
  ASSUME Base, NEW r \in Requests, Commit(r), NEW x \in Ids, x \notin RoleNames,
         x \notin DOMAIN req[r].new, x \notin req[r].hold
  PROVE  row'[x] = row[x]
  <1>1. Relinks(req[r]) /\ x # None BY NoneAssumption DEF Base, Fits
  <1>2. x # req[r].links.of BY <1>1 DEF Relinks
  <1>3. row'[x] = RowOf(r, x) BY DEF Commit
  <1>4. QED BY <1>2, <1>3 DEF RowOf

\* A row comes to be with the commit of a request that inserts it.
LEMMA RowsAppearAtCommit ==
  ASSUME Base, [Next]_all, NEW x \in Ids, row[x] = None, row'[x] # None
  PROVE  \E r \in Requests :
            /\ Commit(r) /\ UNCHANGED outside
            /\ x \in DOMAIN req[r].new /\ row'[x] = req[r].new[x]
            /\ req[r].op \in Inserters(Kind(x)) /\ req[r].pc = "done"
  <1>1. ASSUME NEW s \in Shares, Expire(s) PROVE FALSE
    BY <1>1, KindsOfRows DEF Expire, Base, RowsFit
  <1>2. PICK r \in Requests : Commit(r) /\ UNCHANGED outside BY <1>1, RowsChangeAtCommit
  <1>3. x \in DOMAIN req[r].new /\ row'[x] = req[r].new[x] BY <1>2, CommittedRows
  <1>4. req[r].op \in Inserters(Kind(x)) BY <1>3 DEF Base, Fits, Footprint
  <1>5. QED BY <1>2, <1>3, <1>4 DEF Commit, At

-----------------------------------------------------------------------------
(***************************************************************************)
(* What a route inserts in several tables is there together                *)
(***************************************************************************)

\* The rows that a request inserts are complete.
Whole(q) ==
    /\ \A m \in DOMAIN q.new \cap MemoIds :
          \E x \in DOMAIN q.new \cap VersionIds : q.new[x].memo = m /\ ~q.new[x].deleted
    /\ \A p \in DOMAIN q.new \cap ProjectIds :
          \E x \in DOMAIN q.new \cap AssignmentIds :
             q.new[x].project = p /\ q.new[x].user = q.new[p].owner
    /\ \A e \in DOMAIN q.new \cap Entries : <<e, q.new[e].owner, "create">> \in q.logged

WholeRequests == \A r \in Requests : Whole(req[r])

\* The requests of other routes insert none of the rows that go together.
LEMMA WholeElsewhere ==
  ASSUME NEW q, \A x \in DOMAIN q.new : q.op \in Inserters(Kind(x)),
         q.op \notin {"create_memo", "create_project", "create_entry"}
  PROVE  Whole(q)
  <1>1. \A x \in DOMAIN q.new : x \notin MemoIds \cup ProjectIds \cup Entries
    BY KindsOfRows, TablesOfInserters
  <1>2. QED BY <1>1 DEF Whole

\* The calls that insert rows that go together.
LEMMA CallsAreWhole ==
  ASSUME Base, Base', NEW r \in Requests, Call(r)
  PROVE  Whole(req'[r])
  <1>1. ASSUME NEW u \in Users, NEW c \in Contents, CreateMemo(r, u, c) PROVE Whole(req'[r])
    <2>1. PICK m, x : m = Some(MemoIds) /\ x = Some(VersionIds) OBVIOUS
    <2>2. PICK memo, version :
            /\ memo = [content |-> c, pinned |-> FALSE, favorite |-> FALSE, deleted |-> FALSE]
            /\ version = Version(m, c, 1)
      OBVIOUS
    <2>3. m \in MemoIds /\ x \in VersionIds BY <1>1, <2>1, SomeFresh DEF CreateMemo
    <2>4. m \notin VersionIds \cup ProjectIds \cup Entries
          /\ x \notin MemoIds \cup ProjectIds \cup Entries
      BY <2>3, KindsOfRows
    <2> DEFINE one == Row(m, memo)
               other == Row(x, version)
               new == Both(one, other)
               to == [Idle EXCEPT !.pc = "done", !.op = "create_memo", !.user = u, !.new = new]
    <2>5. Begin(r, to) BY <1>1, <2>1, <2>2 DEF CreateMemo
    <2>6. DOMAIN one = {m} /\ DOMAIN other = {x} /\ other[x] = version BY RowFields
    <2> HIDE DEF one, other
    <2>7. DOMAIN new = {m, x} /\ new[x] = version BY <2>3, <2>4, <2>6 DEF Both
    <2> HIDE DEF new
    <2>8. to.new = new BY DEF Idle
    <2> HIDE DEF to
    <2>9. Whole(to) BY <2>2, <2>3, <2>4, <2>7, <2>8 DEF Whole, Version
    <2>10. QED BY <2>5, <2>9, Continued DEF Begin
  <1>2. ASSUME NEW u \in Users, NEW v \in Statuses, CreateProject(r, u, v) PROVE Whole(req'[r])
    <2>1. PICK p, a : p = Some(ProjectIds) /\ a = Some(AssignmentIds) OBVIOUS
    <2>2. PICK project, assignment :
            /\ project = [owner |-> u, status |-> v, archived |-> FALSE, deleted |-> FALSE]
            /\ assignment = NewAssignment(p, u)
      OBVIOUS
    <2>3. p \in ProjectIds /\ a \in AssignmentIds BY <1>2, <2>1, SomeFresh DEF CreateProject
    <2>4. p \notin AssignmentIds \cup MemoIds \cup Entries
          /\ a \notin ProjectIds \cup MemoIds \cup Entries
      BY <2>3, KindsOfRows
    <2> DEFINE one == Row(p, project)
               other == Row(a, assignment)
               new == Both(one, other)
               to == [Idle EXCEPT !.pc = "done", !.op = "create_project", !.user = u, !.new = new]
    <2>5. Begin(r, to) BY <1>2, <2>1, <2>2 DEF CreateProject
    <2>6. /\ DOMAIN one = {p} /\ one[p] = project
          /\ DOMAIN other = {a} /\ other[a] = assignment
      BY RowFields
    <2> HIDE DEF one, other
    <2>7. DOMAIN new = {p, a} /\ new[p] = project /\ new[a] = assignment
      BY <2>3, <2>4, <2>6 DEF Both
    <2> HIDE DEF new
    <2>8. to.new = new BY DEF Idle
    <2> HIDE DEF to
    <2>9. Whole(to) BY <2>2, <2>3, <2>4, <2>7, <2>8 DEF Whole, NewAssignment
    <2>10. QED BY <2>5, <2>9, Continued DEF Begin
  <1>3. ASSUME NEW u \in Users, NEW v \in Values, CreateEntry(r, u, v) PROVE Whole(req'[r])
    <2>1. PICK e : e = Some(Entries) OBVIOUS
    <2>2. PICK entry : entry = [owner |-> u, value |-> v, deleted |-> FALSE] OBVIOUS
    <2>3. e \in Entries /\ e \notin MemoIds \cup ProjectIds
      BY <1>3, <2>1, SomeFresh, KindsOfRows DEF CreateEntry
    <2> DEFINE new == Row(e, entry)
               to == [Idle EXCEPT !.pc = "done", !.op = "create_entry", !.user = u, !.new = new,
                                  !.logged = {<<e, u, "create">>}]
    <2>4. Begin(r, to) BY <1>3, <2>1, <2>2 DEF CreateEntry
    <2>5. DOMAIN new = {e} /\ new[e] = entry BY RowFields
    <2> HIDE DEF new
    <2>6. to.new = new /\ to.logged = {<<e, u, "create">>} BY DEF Idle
    <2> HIDE DEF to
    <2>7. Whole(to) BY <2>2, <2>3, <2>5, <2>6 DEF Whole
    <2>8. QED BY <2>4, <2>7, Continued DEF Begin
  <1>4. CASE req'[r].op \in {"create_memo", "create_project", "create_entry"}
    <2>1. \/ \E u \in Users, c \in Contents : CreateMemo(r, u, c)
          \/ \E u \in Users, v \in Statuses : CreateProject(r, u, v)
          \/ \E u \in Users, v \in Values : CreateEntry(r, u, v)
      BY <1>4, CreationsByRoute
    <2>2. QED BY <1>1, <1>2, <1>3, <2>1
  <1>5. CASE req'[r].op \notin {"create_memo", "create_project", "create_entry"}
    <2>1. PICK q : q = req'[r] OBVIOUS
    <2>2. \A x \in DOMAIN q.new : q.op \in Inserters(Kind(x)) BY <2>1 DEF Base, Fits, Footprint
    <2>3. QED BY <1>5, <2>1, <2>2, WholeElsewhere
  <1>6. QED BY <1>4, <1>5

\* Every step keeps the rows that a request inserts complete.
LEMMA StepKeepsWhole ==
  ASSUME Base, Base', WholeRequests, [Next]_all
  PROVE  WholeRequests'
  <1>1. ASSUME NEW r \in Requests PROVE Whole(req'[r])
    <2>1. PICK q : q = req'[r] OBVIOUS
    <2>2. \A x \in DOMAIN q.new : q.op \in Inserters(Kind(x)) BY <2>1 DEF Base, Fits, Footprint
    <2>3. CASE req'[r] = req[r] BY <2>3 DEF WholeRequests
    <2>4. CASE q = Idle
      <3>1. DOMAIN q.new = {} BY <2>4, IdleFields
      <3>2. QED BY <2>1, <3>1 DEF Whole
    <2>5. CASE Call(r) BY <2>5, CallsAreWhole
    <2>6. CASE Write(r)
      <3>1. q.new = req[r].new /\ q.logged = req[r].logged BY <2>1, <2>6, WriteFields
      <3>2. QED BY <2>1, <3>1 DEF WholeRequests, Whole
    <2>7. CASE q.op \in NamingRoutes \cup {"update_memo", "update_role", "resend_verification",
                                            "verify_email"}
      BY <2>1, <2>2, <2>7, WholeElsewhere DEF NamingRoutes
    <2>8. CASE \/ AddVersion(r) \/ LookUpName(r) \/ InsertName(r) \/ ChangeLinks(r)
               \/ AccountStep(r)
      BY <2>1, <2>4, <2>7, <2>8, RoutesOfSteps DEF NamingRoutes
    <2>9. QED BY <2>1, <2>3, <2>4, <2>5, <2>6, <2>8, RequestSteps
  <1>2. QED BY <1>1 DEF WholeRequests

\* Every step keeps what is there complete.
LEMMA StepKeepsCreatedWhole ==
  ASSUME Base, WholeRequests, CreatedWhole, [Next]_all
  PROVE  CreatedWhole'
  <1>1. ASSUME NEW m \in MemoIds, row'[m] # None
        PROVE  \E x \in VersionIds : row'[x] # None /\ ~row'[x].deleted /\ row'[x].memo = m
    <2>1. CASE row[m] # None
      <3>1. PICK x \in VersionIds : row[x] # None /\ ~row[x].deleted /\ row[x].memo = m
        BY <2>1 DEF CreatedWhole, VersionsOf, All, Live
      <3>2. x \in Ids /\ Kind(x) = "version" BY KindsOfRows
      <3>3. row[x] \in MemoVersion
        BY <3>1, <3>2, RecordsOfTables DEF Base, RowsFit, WellFormed
      <3>4. {"memo", "deleted"} \subseteq DOMAIN row[x] BY <3>3 DEF MemoVersion
      <3>5. Updatable(Kind(x)) = {} BY <3>2 DEF Updatable
      <3>6. row'[x] # None /\ row'[x]["memo"] = row[x]["memo"]
            /\ row'[x]["deleted"] = row[x]["deleted"]
        BY <3>1, <3>2, <3>4, <3>5, FixedColumns
      <3>7. QED BY <3>1, <3>6
    <2>2. CASE row[m] = None
      <3>1. PICK r \in Requests :
              Commit(r) /\ m \in DOMAIN req[r].new
        BY <1>1, <2>2, KindsOfRows, RowsAppearAtCommit
      <3>2. PICK x \in DOMAIN req[r].new \cap VersionIds :
              req[r].new[x].memo = m /\ ~req[r].new[x].deleted
        BY <3>1 DEF WholeRequests, Whole
      <3>3. row'[x] = req[r].new[x] /\ row'[x] # None BY <3>1, <3>2, CommittedRows
      <3>4. QED BY <3>2, <3>3
    <2>3. QED BY <2>1, <2>2
  <1>2. ASSUME NEW p \in ProjectIds, row'[p] # None
        PROVE  \E x \in AssignmentIds :
                  row'[x] # None /\ row'[x].project = p /\ row'[x].user = row'[p].owner
    <2>1. CASE row[p] # None
      <3>1. PICK x \in AssignmentIds :
              row[x] # None /\ row[x].project = p /\ row[x].user = row[p].owner
        BY <2>1 DEF CreatedWhole
      <3>2. /\ x \in Ids /\ Kind(x) = "assignment" /\ p \in Ids /\ Kind(p) = "project"
        BY KindsOfRows
      <3>3. row[x] \in ProjectAssignment /\ row[p] \in Project
        BY <2>1, <3>1, <3>2, RecordsOfTables DEF Base, RowsFit, WellFormed
      <3>4. {"project", "user"} \subseteq DOMAIN row[x] /\ "owner" \in DOMAIN row[p]
        BY <3>3 DEF ProjectAssignment, Project
      <3>5. {"project", "user"} \cap Updatable("assignment") = {}
            /\ "owner" \notin Updatable("project")
        BY DEF Updatable
      <3>6. row'[p]["owner"] = row[p]["owner"] BY <2>1, <3>2, <3>4, <3>5, FixedColumns
      <3>7. row'[x] # None /\ row'[x]["project"] = row[x]["project"]
            /\ row'[x]["user"] = row[x]["user"]
        BY <3>1, <3>2, <3>4, <3>5, FixedColumns
      <3>8. QED BY <3>1, <3>6, <3>7
    <2>2. CASE row[p] = None
      <3>1. PICK r \in Requests :
              Commit(r) /\ p \in DOMAIN req[r].new
        BY <1>2, <2>2, KindsOfRows, RowsAppearAtCommit
      <3>2. PICK x \in DOMAIN req[r].new \cap AssignmentIds :
              req[r].new[x].project = p /\ req[r].new[x].user = req[r].new[p].owner
        BY <3>1 DEF WholeRequests, Whole
      <3>3. row'[x] = req[r].new[x] /\ row'[x] # None /\ row'[p] = req[r].new[p]
        BY <3>1, <3>2, CommittedRows
      <3>4. QED BY <3>2, <3>3
    <2>3. QED BY <2>1, <2>2
  <1>3. log \subseteq log' BY RowsChangeAtCommit DEF Commit, Expire
  <1>4. ASSUME NEW e \in Entries, row'[e] # None PROVE <<e, row'[e].owner, "create">> \in log'
    <2>1. CASE row[e] # None
      <3>1. e \in Ids /\ Kind(e) = "entry" BY KindsOfRows
      <3>2. row[e] \in Entry BY <2>1, <3>1, RecordsOfTables DEF Base, RowsFit, WellFormed
      <3>3. "owner" \in DOMAIN row[e] /\ "owner" \notin Updatable("entry")
        BY <3>2 DEF Entry, Updatable
      <3>4. row'[e]["owner"] = row[e]["owner"] BY <2>1, <3>1, <3>3, FixedColumns
      <3>5. QED BY <1>3, <2>1, <3>4 DEF CreatedWhole
    <2>2. CASE row[e] = None
      <3>1. PICK r \in Requests :
              Commit(r) /\ e \in DOMAIN req[r].new /\ row'[e] = req[r].new[e]
        BY <1>4, <2>2, KindsOfRows, RowsAppearAtCommit
      <3>2. <<e, req[r].new[e].owner, "create">> \in req[r].logged
        BY <3>1 DEF WholeRequests, Whole
      <3>3. QED BY <3>1, <3>2 DEF Commit
    <2>3. QED BY <2>1, <2>2
  <1>5. \A m \in MemoIds : row'[m] # None => VersionsOf(m)' # {}
    BY <1>1 DEF VersionsOf, All, Live
  <1>6. QED BY <1>2, <1>4, <1>5 DEF CreatedWhole

\* A memo is never without a version, nor a project without an assignment of its owner, nor an
\* entry without its line in the log: a request commits all of what it creates, or nothing.
THEOREM CreationsAreWhole == Spec => []CreatedWhole
  <1>1. Init => WholeRequests /\ CreatedWhole
    <2> SUFFICES ASSUME Init PROVE WholeRequests /\ CreatedWhole OBVIOUS
    <2>1. \A r \in Requests : DOMAIN req[r].new = {} BY IdleFields DEF Init
    <2>2. \A x \in MemoIds \cup ProjectIds \cup Entries : row[x] = None
      BY KindsOfRows DEF Init
    <2>3. QED BY <2>1, <2>2 DEF WholeRequests, Whole, CreatedWhole
  <1>2. Base /\ Base' /\ WholeRequests /\ CreatedWhole /\ [Next]_all =>
           WholeRequests' /\ CreatedWhole'
    BY StepKeepsWhole, StepKeepsCreatedWhole
  <1>3. QED BY <1>1, <1>2, BaseInvariance, PTL DEF Spec
=============================================================================
