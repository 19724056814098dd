------------------------------ MODULE Vault_proofs ------------------------------
(***************************************************************************)
(* Theorems about the vault, for any number of requests: its log tells     *)
(* what has been done to an entry, and whoever an entry is shared with has *)
(* been told.  The proof adds to Base what the requests of the vault are   *)
(* going to write and to log: VaultFit.                                    *)
(***************************************************************************)
EXTENDS Workspace_proofs

\* A request that creates an entry inserts it, and logs that its owner has done so.
CreatesEntry(q) ==
    /\ q.pc = "done"
    /\ \E e \in Entries :
          /\ DOMAIN q.new = {e} /\ ~q.new[e].deleted
          /\ q.logged = {<<e, q.new[e].owner, "create">>}

\* A request that shares an entry inserts the share, and its announcement if the share is with
\* a user; the owner of the entry has made it.
SharesEntry(q) ==
    /\ q.pc = "done"
    /\ \E e \in Entries, v \in Users \cup {None}, s \in Shares, n \in Notifications :
          /\ row[e] # None /\ q.logged = {<<e, row[e].owner, "share">>}
          /\ DOMAIN q.new = IF v = None THEN {s} ELSE {s, n}
          /\ q.new[s] = ShareRow(e, v)
          /\ v # None => q.new[n] = Announcement(e, v)

\* Whoever reads an entry is its owner, or has a share of it.
Reads(e, u) ==
    \/ u = row[e].owner
    \/ \E s \in Shares : row[s] # None /\ row[s].entry = e /\ row[s].user = u

\* A request that updates an entry logs it; the line says "delete" just if the entry is deleted.
TouchesEntry(q, action) ==
    /\ q.pc \in {"write", "done"} /\ q.next = "done"
    /\ q.pc = "done" => q.todo = {}
    /\ \E e \in Entries, u \in Users :
          /\ q.todo \cup q.hold = {e} /\ row[e] # None
          /\ q.logged = {<<e, u, action>>}
          /\ IF action = "view" THEN Reads(e, u) ELSE u = row[e].owner
          /\ "deleted" \in DOMAIN q.data <=> action = "delete"

VaultPlan(q) ==
    /\ q.op = "create_entry" => CreatesEntry(q)
    /\ q.op = "share_entry" => SharesEntry(q)
    /\ q.op = "get_entry" => TouchesEntry(q, "view")
    /\ q.op = "update_entry" => TouchesEntry(q, "update")
    /\ q.op = "delete_entry" => TouchesEntry(q, "delete")

VaultPlans == \A r \in Requests : VaultPlan(req[r])

\* What the log says is of entries that are there.
LogOfRows == \A line \in log : row[line[1]] # None

VaultFit == VaultPlans /\ LogOfRows /\ LogMatchesRows

-----------------------------------------------------------------------------
\* What never changes of a row that is there.
LEMMA ColumnsStay ==
  ASSUME Base, [Next]_all
  PROVE  /\ \A e \in Entries : row[e] # None => row'[e] # None /\ row'[e].owner = row[e].owner
         /\ \A x \in Shares \cup Notifications :
               row[x] # None =>
                  /\ row'[x] # None
                  /\ row'[x].entry = row[x].entry /\ row'[x].user = row[x].user
  <1>1. ASSUME NEW e \in Entries, row[e] # None
        PROVE  row'[e] # None /\ row'[e].owner = row[e].owner
    <2>1. e \in Ids /\ Kind(e) = "entry" BY KindsOfRows
    <2>2. row[e] \in Entry BY <1>1, <2>1, RecordsOfTables DEF Base, RowsFit, WellFormed
    <2>3. "owner" \in DOMAIN row[e] /\ "owner" \notin Updatable("entry")
      BY <2>2 DEF Entry, Updatable
    <2>4. row'[e] # None /\ row'[e]["owner"] = row[e]["owner"]
      BY <1>1, <2>1, <2>3, FixedColumns
    <2>5. QED BY <2>4
  <1>2. ASSUME NEW x \in Shares \cup Notifications, row[x] # None
        PROVE  /\ row'[x] # None
               /\ row'[x].entry = row[x].entry /\ row'[x].user = row[x].user
    <2>1. x \in Ids /\ Kind(x) \in {"share", "notification"} BY KindsOfRows
    <2>2. row[x] \in Share \cup Notification
      BY <1>2, <2>1, RecordsOfTables DEF Base, RowsFit, WellFormed
    <2>3. {"entry", "user"} \subseteq DOMAIN row[x] BY <2>2 DEF Share, Notification
    <2>4. {"entry", "user"} \cap Updatable(Kind(x)) = {} BY <2>1 DEF Updatable
    <2>5. row'[x] # None /\ row'[x]["entry"] = row[x]["entry"]
          /\ row'[x]["user"] = row[x]["user"]
      BY <1>2, <2>1, <2>3, <2>4, FixedColumns
    <2>6. QED BY <2>5
  <1>3. QED BY <1>1, <1>2

\* A plan says of the rows what stays as it is.
LEMMA PlanStays ==
  ASSUME Base, [Next]_all, NEW q, VaultPlan(q), NEW r, req'[r] = q
  PROVE  VaultPlan(req[r])'
  <1>1. \A e \in Entries : row[e] # None => row'[e] # None /\ row'[e].owner = row[e].owner
    BY ColumnsStay
  <1>2. \A e \in Entries, u \in Users : row[e] # None /\ Reads(e, u) => Reads(e, u)'
    BY ColumnsStay DEF Reads
  <1>3. CreatesEntry(q) => CreatesEntry(req[r])' BY DEF CreatesEntry
  <1>4. SharesEntry(q) => SharesEntry(req[r])' BY <1>1 DEF SharesEntry
  <1>5. \A action : TouchesEntry(q, action) => TouchesEntry(req[r], action)'
    BY <1>1, <1>2 DEF TouchesEntry
  <1>6. QED BY <1>3, <1>4, <1>5 DEF VaultPlan

\* The calls of the vault.
LEMMA CallsPlanVault ==
  ASSUME Base, NEW r \in Requests, Call(r)
  PROVE  VaultPlan(req'[r])
  <1>1. \A to : Begin(r, to) => req'[r] = to BY OpsOfCalls
  <1>2. ASSUME NEW u \in Users, NEW v \in Values, CreateEntry(r, u, v) PROVE VaultPlan(req'[r])
    <2>1. PICK e : e = Some(Entries) OBVIOUS
    <2>2. PICK entry : entry = [owner |-> u, value |-> v, deleted |-> FALSE] OBVIOUS
    <2>3. e \in Entries BY <1>2, <2>1, SomeFresh DEF CreateEntry
    <2> DEFINE new == Row(e, entry)
               to == [Idle EXCEPT !.pc = "done", !.op = "create_entry", !.user = u, !.new = new,
                                  !.logged = {<<e, u, "create">>}]
    <2>4. Begin(r, to) BY <1>2, <2>1, <2>2 DEF CreateEntry
    <2>5. DOMAIN new = {e} /\ new[e] = entry /\ entry.owner = u /\ ~entry.deleted
      BY <2>2, RowFields
    <2> HIDE DEF new
    <2>6. /\ to.pc = "done" /\ to.op = "create_entry" /\ to.new = new
          /\ to.logged = {<<e, u, "create">>}
      BY DEF Idle
    <2> HIDE DEF to
    <2>7. CreatesEntry(to) BY <2>3, <2>5, <2>6 DEF CreatesEntry
    <2>8. QED BY <1>1, <2>4, <2>6, <2>7 DEF VaultPlan
  <1>3. ASSUME NEW u \in Users, NEW e \in Entries, NEW v \in Users \cup {None},
               ShareEntry(r, u, e, v)
        PROVE  VaultPlan(req'[r])
    <2>1. PICK s, n : s = Some(Shares) /\ n = Some(Notifications) OBVIOUS
    <2>2. PICK share, told : share = ShareRow(e, v) /\ told = Announcement(e, v) OBVIOUS
    <2>3. s \in Shares /\ n \in Notifications /\ row[e] # None /\ row[e].owner = u
      BY <1>3, <2>1, SomeFresh DEF ShareEntry, Live
    <2>4. s # n BY <2>3, KindsOfRows
    <2> DEFINE one == Row(s, share)
               other == Row(n, told)
               both == Both(one, other)
               new == IF v = None THEN one ELSE both
               to == [Idle EXCEPT !.pc = "done", !.op = "share_entry", !.user = u, !.new = new,
                                  !.logged = {<<e, u, "share">>}]
    <2>5. Begin(r, to) BY <1>3, <2>1, <2>2 DEF ShareEntry
    <2>6. DOMAIN one = {s} /\ one[s] = share /\ DOMAIN other = {n} /\ other[n] = told
      BY RowFields
    <2> HIDE DEF one, other
    <2>7. DOMAIN both = {s, n} /\ both[s] = share /\ both[n] = told BY <2>4, <2>6 DEF Both
    <2> HIDE DEF both
    <2>8. /\ DOMAIN new = IF v = None THEN {s} ELSE {s, n}
          /\ new[s] = share /\ (v # None => new[n] = told)
      BY <2>6, <2>7
    <2> HIDE DEF new
    <2>9. /\ to.pc = "done" /\ to.op = "share_entry" /\ to.new = new
          /\ to.logged = {<<e, u, "share">>}
      BY DEF Idle
    <2> HIDE DEF to
    <2>10. SharesEntry(to) BY <2>2, <2>3, <2>8, <2>9 DEF SharesEntry
    <2>11. QED BY <1>1, <2>5, <2>9, <2>10 DEF VaultPlan
  <1>4. ASSUME NEW op, NEW u \in Users, NEW e \in Entries, NEW data, NEW action,
               OnEntry(r, op, u, e, data, action),
               IF action = "view" THEN Reads(e, u) ELSE u = row[e].owner,
               "deleted" \in DOMAIN data <=> action = "delete"
        PROVE  TouchesEntry(req'[r], action)
    <2> DEFINE to == [Idle EXCEPT !.pc = "write", !.op = op, !.user = u, !.data = data,
                                  !.todo = {e}, !.logged = {<<e, u, action>>}]
    <2>1. Begin(r, to) /\ row[e] # None BY <1>4 DEF OnEntry, Live
    <2>2. /\ to.pc = "write" /\ to.op = op /\ to.next = "done" /\ to.todo = {e} /\ to.hold = {}
          /\ to.logged = {<<e, u, action>>} /\ to.data = data
      BY DEF Idle
    <2> HIDE DEF to
    <2>3. TouchesEntry(to, action) BY <1>4, <2>1, <2>2 DEF TouchesEntry
    <2>4. QED BY <1>1, <2>1, <2>3
  <1>5. \A op, u, e, data, action : OnEntry(r, op, u, e, data, action) => req'[r].op = op
    BY OpsOfCalls
  <1>6. ASSUME NEW u \in Users, NEW e \in Entries, GetEntry(r, u, e) PROVE VaultPlan(req'[r])
    <2>1. OnEntry(r, "get_entry", u, e, NoColumns, "view") BY <1>6 DEF GetEntry
    <2>2. Reads(e, u) BY <1>6 DEF GetEntry, MayRead, SharesWith, All, Live, Reads
    <2>3. TouchesEntry(req'[r], "view") BY <1>4, <2>1, <2>2 DEF NoColumns
    <2>4. req'[r].op = "get_entry" BY <1>5, <2>1
    <2>5. QED BY <2>3, <2>4 DEF VaultPlan
  <1>7. ASSUME NEW u \in Users, NEW e \in Entries, NEW v \in Values, UpdateEntry(r, u, e, v)
        PROVE  VaultPlan(req'[r])
    <2>1. PICK data : data = Changed(e, [value |-> v]) OBVIOUS
    <2>2. OnEntry(r, "update_entry", u, e, data, "update") BY <1>7, <2>1 DEF UpdateEntry
    <2>3. u = row[e].owner BY <1>7 DEF UpdateEntry
    <2>4. "deleted" \notin DOMAIN data BY <2>1 DEF Changed
    <2>5. TouchesEntry(req'[r], "update") BY <1>4, <2>2, <2>3, <2>4
    <2>6. req'[r].op = "update_entry" BY <1>5, <2>2
    <2>7. QED BY <2>5, <2>6 DEF VaultPlan
  <1>8. ASSUME NEW u \in Users, NEW e \in Entries, DeleteEntry(r, u, e) PROVE VaultPlan(req'[r])
    <2>1. PICK data : data = [deleted |-> TRUE] OBVIOUS
    <2>2. OnEntry(r, "delete_entry", u, e, data, "delete") BY <1>8, <2>1 DEF DeleteEntry
    <2>3. u = row[e].owner BY <1>8 DEF DeleteEntry
    <2>4. "deleted" \in DOMAIN data BY <2>1
    <2>5. TouchesEntry(req'[r], "delete") BY <1>4, <2>2, <2>3, <2>4
    <2>6. req'[r].op = "delete_entry" BY <1>5, <2>2
    <2>7. QED BY <2>5, <2>6 DEF VaultPlan
  <1>9. CASE req'[r].op \in VaultRoutes
    <2>1. PICK u \in Users : VaultCall(r, u) BY <1>9, CallsByRoute
    <2>2. ASSUME NEW n \in Notifications, MarkRead(r, u, n) PROVE req'[r].op = "mark_read"
      BY <1>1, <2>2 DEF MarkRead, Idle
    <2>3. ASSUME MarkAllRead(r, u) PROVE req'[r].op = "mark_all_read"
      BY <1>1, <2>3 DEF MarkAllRead, Idle
    <2>4. QED
      BY <1>2, <1>3, <1>6, <1>7, <1>8, <1>9, <2>1, <2>2, <2>3 DEF VaultCall, VaultRoutes
  <1>10. CASE req'[r].op \notin VaultRoutes BY <1>10 DEF VaultPlan, VaultRoutes
  <1>11. QED BY <1>9, <1>10

\* Every step keeps the plans.
LEMMA StepKeepsVaultPlans ==
  ASSUME Base, VaultPlans, [Next]_all
  PROVE  VaultPlans'
  <1>1. ASSUME NEW r \in Requests PROVE VaultPlan(req'[r])
    <2>1. PICK p, q : p = req[r] /\ q = req'[r] OBVIOUS
    <2>2. VaultPlan(p) BY <2>1 DEF VaultPlans
    <2>3. CASE q = p BY <2>1, <2>2, <2>3
    <2>4. CASE Call(r) BY <2>4, CallsPlanVault
    <2>5. CASE Write(r)
      <3>1. /\ q.op = p.op /\ q.data = p.data /\ q.next = p.next /\ q.new = p.new
            /\ q.todo \cup q.hold = p.todo \cup p.hold /\ q.logged = p.logged
            /\ q.pc = IF q.todo = {} THEN p.next ELSE "write"
            /\ p.pc = "write"
        BY <2>1, <2>5, WriteFields
      <3>2. ~CreatesEntry(p) /\ ~SharesEntry(p) BY <3>1 DEF CreatesEntry, SharesEntry
      <3>3. \A action : TouchesEntry(p, action) => TouchesEntry(q, action)
        BY <3>1 DEF TouchesEntry
      <3>4. VaultPlan(q) BY <2>2, <3>1, <3>2, <3>3 DEF VaultPlan
      <3>5. QED BY <2>1, <3>4
    <2>6. CASE q.op \notin VaultRoutes BY <2>1, <2>6 DEF VaultPlan, VaultRoutes
    <2>7. CASE q = Idle
      <3>1. Idle.op \notin VaultRoutes BY IdleFields, NothingAssumption DEF Routes
      <3>2. QED BY <2>6, <2>7, <3>1
    <2>8. CASE \/ AddVersion(r) \/ LookUpName(r) \/ InsertName(r) \/ ChangeLinks(r)
               \/ AccountStep(r)
      BY <2>1, <2>6, <2>7, <2>8, RoutesOfSteps DEF NamingRoutes, VaultRoutes
    <2>9. QED BY <2>1, <2>3, <2>4, <2>5, <2>7, <2>8, RequestSteps
  <1>2. ASSUME NEW r \in Requests PROVE VaultPlan(req[r])'
    <2>1. PICK q : q = req'[r] OBVIOUS
    <2>2. QED BY <1>1, <2>1, PlanStays
  <1>3. QED BY <1>2 DEF VaultPlans

-----------------------------------------------------------------------------
(***************************************************************************)
(* What a step makes of the entries, shares and notifications              *)
(***************************************************************************)
Inserted(T) == {x \in T : row[x] = None /\ row'[x] # None}
DeletesOnly(S) ==
    \A e \in Entries :
       row[e] # None => (row'[e].deleted <=> row[e].deleted \/ e \in S)

\* Nothing that the log tells of.
Quiet ==
    /\ log' = log /\ DeletesOnly({})
    /\ Inserted(Entries) = {} /\ Inserted(Shares) = {} /\ Inserted(Notifications) = {}

Creation(e) ==
    /\ log' = log \cup {<<e, row'[e].owner, "create">>} /\ DeletesOnly({})
    /\ Inserted(Entries) = {e} /\ ~row'[e].deleted
    /\ Inserted(Shares) = {} /\ Inserted(Notifications) = {}

Sharing(e, v, s, n) ==
    /\ row[e] # None
    /\ log' = log \cup {<<e, row[e].owner, "share">>} /\ DeletesOnly({})
    /\ Inserted(Entries) = {}
    /\ Inserted(Shares) = {s} /\ row'[s].entry = e /\ row'[s].user = v
    /\ IF v = None THEN Inserted(Notifications) = {}
       ELSE Inserted(Notifications) = {n} /\ row'[n].entry = e /\ row'[n].user = v

Access(e, u, action) ==
    /\ row[e] # None /\ action \in {"view", "update", "delete"}
    /\ log' = log \cup {<<e, u, action>>}
    /\ DeletesOnly(IF action = "delete" THEN {e} ELSE {})
    /\ IF action = "view" THEN Reads(e, u) ELSE u = row[e].owner
    /\ Inserted(Entries) = {} /\ Inserted(Shares) = {} /\ Inserted(Notifications) = {}

\* The rows that a commit inserts are those of the request.
LEMMA InsertedAtCommit ==
  ASSUME Base, NEW r \in Requests, Commit(r)
  PROVE  /\ Inserted(Entries) = DOMAIN req[r].new \cap Entries
         /\ Inserted(Shares) = DOMAIN req[r].new \cap Shares
         /\ Inserted(Notifications) = DOMAIN req[r].new \cap Notifications
  <1>1. \A x \in DOMAIN req[r].new : row[x] = None /\ row'[x] # None BY CommittedRows
  <1>2. \A x \in Ids \ DOMAIN req[r].new : row[x] = None => row'[x] = None BY CommittedRows
  <1>3. QED BY <1>1, <1>2, KindsOfRows DEF Inserted

\* A commit deletes the entries that its request has written, if it sets deleted_at.
LEMMA DeletedAtCommit ==
  ASSUME Base, NEW r \in Requests, Commit(r)
  PROVE  DeletesOnly(IF "deleted" \in DOMAIN req[r].data THEN req[r].hold ELSE {})
  <1>1. ASSUME NEW e \in Entries, row[e] # None
        PROVE  row'[e].deleted <=>
                  \/ row[e].deleted
                  \/ "deleted" \in DOMAIN req[r].data /\ e \in req[r].hold
    <2>1. e \in Ids /\ Kind(e) = "entry" /\ e \notin RoleNames BY KindsOfRows
    <2>2. Updates(req[r]) /\ Inserts(req[r]) BY DEF Base, Fits
    <2>3. e \notin DOMAIN req[r].new BY <1>1, <2>2 DEF Inserts
    <2>4. CASE e \notin req[r].hold BY <2>1, <2>3, <2>4, UntouchedRows
    <2>5. CASE e \in req[r].hold
      <3>1. row[e] \in Entry BY <1>1, <2>1, RecordsOfTables DEF Base, RowsFit, WellFormed
      <3>2. "deleted" \in DOMAIN row[e] BY <3>1 DEF Entry
      <3>3. row'[e] = Written(row[e], req[r].data)
        <4>1. e # req[r].links.of
          BY <2>1, NoneAssumption DEF Base, Fits, Relinks
        <4>2. RowOf(r, e) = Written(row[e], req[r].data) BY <2>3, <2>5, <4>1 DEF RowOf
        <4>3. QED BY <2>1, <4>2 DEF Commit
      <3>4. CASE "deleted" \in DOMAIN req[r].data
        <4>1. row'[e]["deleted"] = req[r].data["deleted"] BY <3>2, <3>3, <3>4 DEF Written
        <4>2. req[r].data["deleted"] \in {TRUE} BY <2>2, <3>4, ColumnValues DEF Updates
        <4>3. QED BY <2>5, <3>4, <4>1, <4>2
      <3>5. CASE "deleted" \notin DOMAIN req[r].data
        <4>1. row'[e]["deleted"] = row[e]["deleted"] BY <3>2, <3>3, <3>5 DEF Written
        <4>2. QED BY <3>5, <4>1
      <3>6. QED BY <3>4, <3>5
    <2>6. QED BY <2>4, <2>5
  <1>2. QED BY <1>1 DEF DeletesOnly

\* A commit creates an entry, shares one, lets one be read, changed or deleted, or has nothing
\* to do with them.
LEMMA CommitsOfVault ==
  ASSUME Base, VaultPlans, NEW r \in Requests, Commit(r)
  PROVE  \/ Quiet
         \/ \E e \in Entries : Creation(e)
         \/ \E e \in Entries, v \in Users \cup {None}, s \in Shares, n \in Notifications :
               Sharing(e, v, s, n)
         \/ \E e \in Entries, u \in Users, action \in Actions : Access(e, u, action)
  <1>1. PICK q : q = req[r] OBVIOUS
  <1>2. /\ q.pc = "done" /\ Updates(q) /\ Inserts(q) /\ Footprint(q) /\ VaultPlan(q)
        /\ log' = log \cup q.logged
    BY <1>1 DEF Commit, At, Base, Fits, VaultPlans
  <1>3. /\ Inserted(Entries) = DOMAIN q.new \cap Entries
        /\ Inserted(Shares) = DOMAIN q.new \cap Shares
        /\ Inserted(Notifications) = DOMAIN q.new \cap Notifications
    BY <1>1, InsertedAtCommit
  <1>4. DeletesOnly(IF "deleted" \in DOMAIN q.data THEN q.hold ELSE {}) BY <1>1, DeletedAtCommit
  <1>5. \A x \in DOMAIN q.new : row'[x] = q.new[x] BY <1>1, CommittedRows
  <1>6. \A x \in DOMAIN q.new : q.op \in Inserters(Kind(x)) BY <1>2 DEF Footprint
  <1>7. /\ q.op # "create_entry" => DOMAIN q.new \cap Entries = {}
        /\ q.op # "share_entry" =>
              DOMAIN q.new \cap Shares = {} /\ DOMAIN q.new \cap Notifications = {}
    BY <1>6, KindsOfRows, TablesOfInserters
  <1>8. CASE q.op = "create_entry"
    <2>1. PICK e \in Entries :
            /\ DOMAIN q.new = {e} /\ ~q.new[e].deleted
            /\ q.logged = {<<e, q.new[e].owner, "create">>}
      BY <1>2, <1>8 DEF VaultPlan, CreatesEntry
    <2>2. PICK u : u = q.new[e].owner OBVIOUS
    <2>3. row'[e] = q.new[e] BY <1>5, <2>1
    <2>4. log' = log \cup {<<e, row'[e].owner, "create">>} BY <1>2, <2>1, <2>3
    <2>5. "deleted" \notin DOMAIN q.data
      <3>1. ColumnsOf("create_entry") = {} BY DEF ColumnsOf
      <3>2. QED BY <1>2, <1>8, <3>1 DEF Updates
    <2>6. ~row'[e].deleted BY <2>1, <2>3
    <2>7. Creation(e) BY <1>3, <1>4, <1>7, <1>8, <2>1, <2>4, <2>5, <2>6 DEF Creation
    <2>8. QED BY <2>7
  <1>9. CASE q.op = "share_entry"
    <2>1. PICK e \in Entries, v \in Users \cup {None}, s \in Shares, n \in Notifications :
            /\ row[e] # None /\ q.logged = {<<e, row[e].owner, "share">>}
            /\ DOMAIN q.new = IF v = None THEN {s} ELSE {s, n}
            /\ q.new[s] = ShareRow(e, v)
            /\ v # None => q.new[n] = Announcement(e, v)
      BY <1>2, <1>9 DEF VaultPlan, SharesEntry
    <2>2. s \notin Notifications /\ n \notin Shares /\ s \notin Entries /\ n \notin Entries
      BY KindsOfRows
    <2>3. "deleted" \notin DOMAIN q.data
      <3>1. ColumnsOf("share_entry") = {} BY DEF ColumnsOf
      <3>2. QED BY <1>2, <1>9, <3>1 DEF Updates
    <2>4. row'[s].entry = e /\ row'[s].user = v BY <1>5, <2>1 DEF ShareRow
    <2>5. v # None => row'[n].entry = e /\ row'[n].user = v BY <1>5, <2>1 DEF Announcement
    <2>6. /\ Inserted(Entries) = {} /\ Inserted(Shares) = {s}
          /\ Inserted(Notifications) = IF v = None THEN {} ELSE {n}
      BY <1>3, <2>1, <2>2
    <2>7. Sharing(e, v, s, n)
      BY <1>2, <1>4, <2>1, <2>3, <2>4, <2>5, <2>6 DEF Sharing
    <2>8. QED BY <2>7
  <1>10. ASSUME NEW action \in {"view", "update", "delete"}, TouchesEntry(q, action),
                q.op \notin {"create_entry", "share_entry"}
         PROVE  \E e \in Entries, u \in Users, act \in Actions : Access(e, u, act)
    <2>1. PICK e \in Entries, u \in Users :
            /\ q.todo \cup q.hold = {e} /\ row[e] # None
            /\ q.logged = {<<e, u, action>>}
            /\ IF action = "view" THEN Reads(e, u) ELSE u = row[e].owner
            /\ "deleted" \in DOMAIN q.data <=> action = "delete"
      BY <1>10 DEF TouchesEntry
    <2>2. q.hold = {e} BY <1>2, <1>10, <2>1 DEF TouchesEntry
    <2>3. DeletesOnly(IF action = "delete" THEN {e} ELSE {}) BY <1>4, <2>1, <2>2
    <2>4. Access(e, u, action) BY <1>2, <1>3, <1>7, <1>10, <2>1, <2>3 DEF Access
    <2>5. QED BY <2>4 DEF Actions
  <1>11. CASE q.op \in {"get_entry", "update_entry", "delete_entry"}
    <2>1. \E action \in {"view", "update", "delete"} : TouchesEntry(q, action)
      BY <1>2, <1>11 DEF VaultPlan
    <2>2. QED BY <1>10, <1>11, <2>1
  <1>12. CASE q.op \notin VaultRoutes
    <2>1. q.logged = {} BY <1>2, <1>12 DEF Footprint
    <2>2. \A e \in q.hold : e \notin Entries
      <3>1. TableOf(q.op) # "entry"
        BY <1>12 DEF TableOf, VaultRoutes, NotificationRoutes, FlagRoutes
      <3>2. QED BY <1>2, <3>1, KindsOfRows DEF Updates
    <2>3. DeletesOnly({}) BY <1>4, <2>2 DEF DeletesOnly
    <2>4. Quiet BY <1>2, <1>3, <1>7, <1>12, <2>1, <2>3 DEF Quiet, VaultRoutes
    <2>5. QED BY <2>4
  <1>13. QED BY <1>8, <1>9, <1>11, <1>12 DEF VaultRoutes

\* So does every step.
LEMMA StepsOfVault ==
  ASSUME Base, VaultPlans, [Next]_all
  PROVE  \/ Quiet
         \/ \E e \in Entries : Creation(e)
         \/ \E e \in Entries, v \in Users \cup {None}, s \in Shares, n \in Notifications :
               Sharing(e, v, s, n)
         \/ \E e \in Entries, u \in Users, action \in Actions : Access(e, u, action)
  <1>1. CASE row' = row /\ log' = log BY <1>1 DEF Quiet, DeletesOnly, Inserted
  <1>2. ASSUME NEW s \in Shares, Expire(s) PROVE Quiet
    <2>1. row' = [row EXCEPT ![s].expired = TRUE] /\ row[s] # None /\ log' = log
      BY <1>2 DEF Expire
    <2>2. \A x \in Entries \cup Notifications : row'[x] = row[x]
      BY <2>1, KindsOfRows DEF Base, RowsFit
    <2>3. \A x \in Shares : row[x] = None => row'[x] = None
      BY <2>1, KindsOfRows DEF Base, RowsFit
    <2>4. QED BY <2>1, <2>2, <2>3 DEF Quiet, DeletesOnly, Inserted
  <1>3. QED BY <1>1, <1>2, CommitsOfVault, RowsChangeAtCommit

-----------------------------------------------------------------------------
(***************************************************************************)
(* The log tells what has been done                                        *)
(***************************************************************************)

\* The three things that LogMatchesRows says of an entry.
DeleteLines(e) ==
    (\E u \in Users : <<e, u, "delete">> \in log) <=> row[e] # None /\ row[e].deleted
ShareLines(e) ==
    (\E u \in Users : <<e, u, "share">> \in log) <=>
       \E s \in Shares : row[s] # None /\ row[s].entry = e
AuthorLines(e) ==
    \A u \in Users, a \in Actions :
       <<e, u, a>> \in log => u = row[e].owner \/ (a = "view" /\ Reads(e, u))

\* No step keeps less of what the log says.
LEMMA LinesOfRows ==
  ASSUME Base, VaultFit
  PROVE  /\ \A e \in Entries : DeleteLines(e) /\ ShareLines(e) /\ AuthorLines(e)
         /\ \A e \in Entries : row[e] = None => \A u, a : <<e, u, a>> \notin log
         /\ \A line \in log : line[1] \in Entries /\ row[line[1]] # None
  <1>1. \A e \in Entries : DeleteLines(e) /\ ShareLines(e) /\ AuthorLines(e)
    BY DEF VaultFit, LogMatchesRows, DeleteLines, ShareLines, AuthorLines, Reads
  <1>2. \A e \in Entries : row[e] = None => \A u, a : <<e, u, a>> \notin log
    BY DEF VaultFit, LogOfRows
  <1>3. \A line \in log : line[1] \in Entries /\ row[line[1]] # None
    BY DEF VaultFit, LogOfRows, Base
  <1>4. QED BY <1>1, <1>2, <1>3

\* Every step keeps the lines of the log in keeping with the rows.
LEMMA StepKeepsLog ==
  ASSUME Base, VaultFit, [Next]_all
  PROVE  LogOfRows' /\ LogMatchesRows'
  <1>1. \A e \in Entries : row[e] # None => row'[e] # None /\ row'[e].owner = row[e].owner
    BY ColumnsStay
  <1>2. \A s \in Shares :
           row[s] # None =>
              row'[s] # None /\ row'[s].entry = row[s].entry /\ row'[s].user = row[s].user
    BY ColumnsStay
  <1>3. \A e \in Entries : DeleteLines(e) /\ ShareLines(e) /\ AuthorLines(e) BY LinesOfRows
  <1>4. \A e \in Entries : row[e] = None => \A u, a : <<e, u, a>> \notin log BY LinesOfRows
  <1>5. \A line \in log : line[1] \in Entries /\ row[line[1]] # None BY LinesOfRows
  <1>6. \A e \in Entries, u \in Users : row[e] # None /\ Reads(e, u) => Reads(e, u)'
    BY <1>1, <1>2 DEF Reads
  <1>7. ASSUME Inserted(Shares) = {}
        PROVE  \A e : (\E s \in Shares : row'[s] # None /\ row'[s].entry = e)
                      <=> \E s \in Shares : row[s] # None /\ row[s].entry = e
    BY <1>2, <1>7 DEF Inserted
  <1>8. CASE Quiet
    <2>1. LogOfRows' BY <1>1, <1>5, <1>8 DEF Quiet, LogOfRows
    <2>2. ASSUME NEW e \in Entries PROVE DeleteLines(e)'
      BY <1>1, <1>3, <1>4, <1>8 DEF Quiet, DeletesOnly, DeleteLines, Inserted
    <2>3. ASSUME NEW e \in Entries PROVE ShareLines(e)'
      BY <1>3, <1>7, <1>8 DEF Quiet, ShareLines
    <2>4. ASSUME NEW e \in Entries PROVE AuthorLines(e)'
      BY <1>1, <1>3, <1>4, <1>6, <1>8 DEF Quiet, AuthorLines
    <2>5. QED
      BY <2>1, <2>2, <2>3, <2>4 DEF LogMatchesRows, DeleteLines, ShareLines, AuthorLines, Reads
  <1>9. ASSUME NEW x \in Entries, Creation(x) PROVE LogOfRows' /\ LogMatchesRows'
    <2>1. PICK u : log' = log \cup {<<x, u, "create">>} /\ u = row'[x].owner
      BY <1>9 DEF Creation
    <2>2. row[x] = None /\ row'[x] # None /\ ~row'[x].deleted
      BY <1>9 DEF Creation, Inserted
    <2>3. LogOfRows' BY <1>1, <1>5, <2>1, <2>2 DEF LogOfRows
    <2>4. ASSUME NEW e \in Entries PROVE DeleteLines(e)'
      <3>1. \A v : <<e, v, "delete">> \in log' <=> <<e, v, "delete">> \in log BY <2>1
      <3>2. QED
        BY <1>1, <1>3, <1>4, <1>9, <2>2, <3>1 DEF Creation, DeletesOnly, DeleteLines, Inserted
    <2>5. ASSUME NEW e \in Entries PROVE ShareLines(e)'
      <3>1. \A v : <<e, v, "share">> \in log' <=> <<e, v, "share">> \in log BY <2>1
      <3>2. QED BY <1>3, <1>7, <1>9, <3>1 DEF Creation, ShareLines
    <2>6. ASSUME NEW e \in Entries PROVE AuthorLines(e)'
      BY <1>1, <1>3, <1>4, <1>6, <2>1 DEF AuthorLines
    <2>7. QED
      BY <2>3, <2>4, <2>5, <2>6 DEF LogMatchesRows, DeleteLines, ShareLines, AuthorLines, Reads
  <1>10. ASSUME NEW x \in Entries, NEW v \in Users \cup {None}, NEW t \in Shares,
                NEW n \in Notifications, Sharing(x, v, t, n)
         PROVE  LogOfRows' /\ LogMatchesRows'
    <2>1. PICK u : log' = log \cup {<<x, u, "share">>} /\ u = row[x].owner
      BY <1>10 DEF Sharing
    <2>2. /\ row[x] # None /\ row[t] = None /\ row'[t] # None /\ row'[t].entry = x
          /\ \A s \in Shares \ {t} : row[s] = None => row'[s] = None
      BY <1>10 DEF Sharing, Inserted
    <2>3. LogOfRows' BY <1>1, <1>5, <2>1, <2>2 DEF LogOfRows
    <2>4. ASSUME NEW e \in Entries PROVE DeleteLines(e)'
      <3>1. \A w : <<e, w, "delete">> \in log' <=> <<e, w, "delete">> \in log BY <2>1
      <3>2. QED
        BY <1>1, <1>3, <1>4, <1>10, <2>2, <3>1 DEF Sharing, DeletesOnly, DeleteLines, Inserted
    <2>5. u \in Users
      <3>1. row[x] \in Entry
        BY <2>2, KindsOfRows, RecordsOfTables DEF Base, RowsFit, WellFormed
      <3>2. QED BY <2>1, <3>1 DEF Entry
    <2>6. ASSUME NEW e \in Entries PROVE ShareLines(e)'
      <3>1. CASE e = x BY <2>1, <2>2, <2>5, <3>1 DEF ShareLines
      <3>2. CASE e # x
        <4>1. \A w : <<e, w, "share">> \in log' <=> <<e, w, "share">> \in log BY <2>1, <3>2
        <4>2. (\E s \in Shares : row'[s] # None /\ row'[s].entry = e)
              <=> \E s \in Shares : row[s] # None /\ row[s].entry = e
          BY <1>2, <2>2, <3>2
        <4>3. QED BY <1>3, <4>1, <4>2 DEF ShareLines
      <3>3. QED BY <3>1, <3>2
    <2>7. ASSUME NEW e \in Entries PROVE AuthorLines(e)'
      BY <1>1, <1>3, <1>4, <1>6, <2>1, <2>2 DEF AuthorLines
    <2>8. QED
      BY <2>3, <2>4, <2>6, <2>7 DEF LogMatchesRows, DeleteLines, ShareLines, AuthorLines, Reads
  <1>11. ASSUME NEW x \in Entries, NEW v \in Users, NEW action \in Actions, Access(x, v, action)
         PROVE  LogOfRows' /\ LogMatchesRows'
    <2>1. /\ log' = log \cup {<<x, v, action>>} /\ row[x] # None
          /\ action \in {"view", "update", "delete"}
          /\ IF action = "view" THEN Reads(x, v) ELSE v = row[x].owner
      BY <1>11 DEF Access
    <2>2. LogOfRows' BY <1>1, <1>5, <2>1 DEF LogOfRows
    <2>3. ASSUME NEW e \in Entries PROVE DeleteLines(e)'
      <3>1. (\E u \in Users : <<e, u, "delete">> \in log')
            <=> (\E u \in Users : <<e, u, "delete">> \in log) \/ (e = x /\ action = "delete")
        BY <2>1
      <3>2. row'[e] # None /\ row'[e].deleted
            <=> (row[e] # None /\ row[e].deleted) \/ (e = x /\ action = "delete")
        <4>1. CASE row[e] = None BY <1>11, <2>1, <4>1 DEF Access, Inserted
        <4>2. CASE row[e] # None BY <1>1, <1>11, <4>2 DEF Access, DeletesOnly
        <4>3. QED BY <4>1, <4>2
      <3>3. QED BY <1>3, <3>1, <3>2 DEF DeleteLines
    <2>4. ASSUME NEW e \in Entries PROVE ShareLines(e)'
      <3>1. \A u : <<e, u, "share">> \in log' <=> <<e, u, "share">> \in log BY <2>1
      <3>2. QED BY <1>3, <1>7, <1>11, <3>1 DEF Access, ShareLines
    <2>5. ASSUME NEW e \in Entries PROVE AuthorLines(e)'
      <3>1. ASSUME NEW u \in Users, NEW a \in Actions, <<e, u, a>> \in log'
            PROVE  u = row'[e].owner \/ (a = "view" /\ Reads(e, u)')
        <4>1. CASE <<e, u, a>> \in log
          <5>1. row[e] # None BY <1>4, <4>1
          <5>2. u = row[e].owner \/ (a = "view" /\ Reads(e, u)) BY <1>3, <4>1 DEF AuthorLines
          <5>3. QED BY <1>1, <1>6, <5>1, <5>2
        <4>2. CASE e = x /\ u = v /\ a = action BY <1>1, <1>6, <2>1, <4>2
        <4>3. QED BY <2>1, <3>1, <4>1, <4>2
      <3>2. QED BY <3>1 DEF AuthorLines
    <2>6. ASSUME NEW e \in Entries, NEW u \in Users, NEW a \in Actions, <<e, u, a>> \in log'
          PROVE  \/ u = row'[e].owner
                 \/ a = "view" /\ \E s \in Shares :
                       row'[s] # None /\ row'[s].entry = e /\ row'[s].user = u
      BY <2>5, <2>6 DEF AuthorLines, Reads
    <2>7. QED BY <2>2, <2>3, <2>4, <2>6 DEF LogMatchesRows, DeleteLines, ShareLines
  <1>12. QED BY <1>8, <1>9, <1>10, <1>11, StepsOfVault DEF VaultFit

\* VaultFit holds in every state.
THEOREM VaultInvariance == Spec => []VaultFit
  <1>1. Init => VaultFit
    <2> SUFFICES ASSUME Init PROVE VaultFit OBVIOUS
    <2>1. \A r \in Requests : VaultPlan(req[r])
      <3>1. Idle.op \notin VaultRoutes BY IdleFields, NothingAssumption DEF Routes
      <3>2. QED BY <3>1 DEF Init, VaultPlan, VaultRoutes
    <2>2. \A x \in Entries \cup Shares : row[x] = None BY KindsOfRows DEF Init
    <2>3. log = {} BY DEF Init
    <2>4. QED BY <2>1, <2>2, <2>3 DEF VaultFit, VaultPlans, LogOfRows, LogMatchesRows
  <1>2. Base /\ VaultFit /\ [Next]_all => VaultFit'
    BY StepKeepsVaultPlans, StepKeepsLog DEF VaultFit
  <1>3. QED BY <1>1, <1>2, BaseInvariance, PTL DEF Spec

\* The log tells who has done what to an entry, and nobody else.
THEOREM LogTellsTheTruth == Spec => []LogMatchesRows
  <1>1. VaultFit => LogMatchesRows BY DEF VaultFit
  <1>2. QED BY <1>1, VaultInvariance, PTL

-----------------------------------------------------------------------------
(***************************************************************************)
(* Whoever an entry is shared with is told                                 *)
(***************************************************************************)
SharesOf(e, u) == {s \in Shares : row[s] # None /\ row[s].entry = e /\ row[s].user = u}
Told(e, u) == {n \in Notifications : row[n] # None /\ row[n].entry = e /\ row[n].user = u}

\* What is inserted for an entry and a user, together with what was there.
LEMMA SharesOfStep ==
  ASSUME Base, [Next]_all, NEW e, NEW u
  PROVE  /\ SharesOf(e, u)' =
               SharesOf(e, u) \cup {s \in Inserted(Shares) : row'[s].entry = e /\ row'[s].user = u}
         /\ Told(e, u)' =
               Told(e, u) \cup
               {n \in Inserted(Notifications) : row'[n].entry = e /\ row'[n].user = u}
  BY ColumnsStay DEF SharesOf, Told, Inserted

\* One share more, or one announcement more.
LEMMA OneMore ==
  ASSUME NEW e, NEW u
  PROVE  /\ \A s \in Inserted(Shares) :
               SharesOf(e, u)' = SharesOf(e, u) \cup {s} =>
                  Cardinality(SharesOf(e, u)') = Cardinality(SharesOf(e, u)) + 1
         /\ \A n \in Inserted(Notifications) :
               Told(e, u)' = Told(e, u) \cup {n} =>
                  Cardinality(Told(e, u)') = Cardinality(Told(e, u)) + 1
  <1>1. SharesOf(e, u) \subseteq Shares /\ Told(e, u) \subseteq Notifications
    BY DEF SharesOf, Told
  <1>2. IsFiniteSet(SharesOf(e, u)) /\ IsFiniteSet(Told(e, u))
    BY <1>1, FinitenessAssumption, FS_Subset
  <1>3. ASSUME NEW s \in Inserted(Shares), SharesOf(e, u)' = SharesOf(e, u) \cup {s}
        PROVE  Cardinality(SharesOf(e, u)') = Cardinality(SharesOf(e, u)) + 1
    <2>1. s \notin SharesOf(e, u) BY DEF Inserted, SharesOf
    <2>2. QED BY <1>2, <1>3, <2>1, FS_AddElement
  <1>4. ASSUME NEW n \in Inserted(Notifications), Told(e, u)' = Told(e, u) \cup {n}
        PROVE  Cardinality(Told(e, u)') = Cardinality(Told(e, u)) + 1
    <2>1. n \notin Told(e, u) BY DEF Inserted, Told
    <2>2. QED BY <1>2, <1>4, <2>1, FS_AddElement
  <1>5. QED BY <1>3, <1>4

\* Every step keeps the shares with a user as many as the announcements to him.
LEMMA StepKeepsAnnounced ==
  ASSUME Base, VaultPlans, SharesAreAnnounced, [Next]_all
  PROVE  SharesAreAnnounced'
  <1>1. \A e \in Entries, u \in Users : Cardinality(SharesOf(e, u)) = Cardinality(Told(e, u))
    BY DEF SharesAreAnnounced, SharesOf, Told
  <1>2. ASSUME NEW e \in Entries, NEW u \in Users
        PROVE  Cardinality(SharesOf(e, u)') = Cardinality(Told(e, u)')
    <2>1. CASE Inserted(Shares) = {} /\ Inserted(Notifications) = {}
      <3>1. SharesOf(e, u)' = SharesOf(e, u) /\ Told(e, u)' = Told(e, u)
        BY <2>1, SharesOfStep
      <3>2. QED BY <1>1, <3>1
    <2>2. ASSUME NEW x \in Entries, NEW v \in Users \cup {None}, NEW s \in Shares,
                 NEW n \in Notifications, Sharing(x, v, s, n)
          PROVE  Cardinality(SharesOf(e, u)') = Cardinality(Told(e, u)')
      <3>1. /\ Inserted(Shares) = {s} /\ row'[s].entry = x /\ row'[s].user = v
            /\ v = None => Inserted(Notifications) = {}
            /\ v # None =>
                  Inserted(Notifications) = {n} /\ row'[n].entry = x /\ row'[n].user = v
        BY <2>2 DEF Sharing
      <3>2. CASE e = x /\ u = v
        <4>1. v # None BY <3>2, NoneAssumption
        <4>2. /\ SharesOf(e, u)' = SharesOf(e, u) \cup {s}
              /\ Told(e, u)' = Told(e, u) \cup {n}
          BY <3>1, <3>2, <4>1, SharesOfStep
        <4>3. s \in Inserted(Shares) /\ n \in Inserted(Notifications) BY <3>1, <4>1
        <4>4. /\ Cardinality(SharesOf(e, u)') = Cardinality(SharesOf(e, u)) + 1
              /\ Cardinality(Told(e, u)') = Cardinality(Told(e, u)) + 1
          BY <4>2, <4>3, OneMore
        <4>5. QED BY <1>1, <4>4
      <3>3. CASE ~(e = x /\ u = v)
        <4>1. SharesOf(e, u)' = SharesOf(e, u) /\ Told(e, u)' = Told(e, u)
          BY <3>1, <3>3, SharesOfStep
        <4>2. QED BY <1>1, <4>1
      <3>4. QED BY <3>2, <3>3
    <2>3. QED BY <2>1, <2>2, StepsOfVault DEF Quiet, Creation, Access
  <1>3. QED BY <1>2 DEF SharesAreAnnounced, SharesOf, Told

\* Whoever an entry is shared with is told, once for each share, whatever requests run together
\* and whichever of them fail.
THEOREM SharesAnnounced == Spec => []SharesAreAnnounced
  <1>1. Init => SharesAreAnnounced
    <2> SUFFICES ASSUME Init PROVE SharesAreAnnounced OBVIOUS
    <2>1. \A x \in Shares \cup Notifications : row[x] = None BY KindsOfRows DEF Init
    <2>2. \A e, u : SharesOf(e, u) = {} /\ Told(e, u) = {} BY <2>1 DEF SharesOf, Told
    <2>3. QED BY <2>2 DEF SharesAreAnnounced, SharesOf, Told
  <1>2. Base /\ VaultFit /\ SharesAreAnnounced /\ [Next]_all => SharesAreAnnounced'
    BY StepKeepsAnnounced DEF VaultFit
  <1>3. QED BY <1>1, <1>2, BaseInvariance, VaultInvariance, PTL DEF Spec
=============================================================================
