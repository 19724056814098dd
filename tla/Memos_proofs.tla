------------------------------ MODULE Memos_proofs ------------------------------
(***************************************************************************)
(* Theorems about the versions of memos, for any number of requests that   *)
(* update them: they are numbered 1, 2, 3, ..., the newest one is a copy   *)
(* of the memo, and they are the append-only history that MemoHistory      *)
(* promises.  The proof adds to Base what a request that creates or        *)
(* updates a memo has done so far: MemosFit.                               *)
(***************************************************************************)
EXTENDS Workspace_proofs, SequenceTheorems

\* A request that creates a memo inserts its first version with it.
Creates(q) ==
    /\ q.pc = "done"
    /\ \E m \in MemoIds, x \in VersionIds :
          DOMAIN q.new = {m, x} /\ q.new[x] = Version(m, q.new[m].content, 1)

\* A request that updates a memo goes on to its new version just if it writes the content, and
\* counts the versions when no other one can write the memo.
Rewrites(q, m) ==
    /\ q.pc \in {"write", "version", "done"}
    /\ q.todo \cup q.hold = {m}
    /\ "content" \in DOMAIN q.data <=> q.next = "version"
    /\ q.pc # "write" => q.todo = {}
    /\ q.pc = "done" /\ q.next = "done" => DOMAIN q.new = {}
    /\ q.pc = "done" /\ q.next = "version" =>
          \E x \in VersionIds :
             /\ DOMAIN q.new = {x}
             /\ q.new[x] = Version(m, q.data.content, Cardinality(VersionsOf(m)) + 1)

MemoPlan(q) ==
    /\ q.op = "create_memo" => Creates(q)
    /\ q.op = "update_memo" => \E m \in MemoIds : Rewrites(q, m)

MemoPlans == \A r \in Requests : MemoPlan(req[r])

\* No version is ever deleted.
VersionsAreLive == \A x \in VersionIds : row[x] # None => ~row[x].deleted

MemosFit == MemoPlans /\ VersionsAreLive /\ VersionsAreNumbered /\ NewestVersionIsTheMemo

-----------------------------------------------------------------------------
\* A plan says of the rows how many versions there are of the memos that the request holds.
LEMMA PlanStays ==
  ASSUME NEW q, MemoPlan(q), NEW r, req'[r] = q,
         q.op = "update_memo" => \A m \in q.hold : VersionsOf(m)' = VersionsOf(m)
  PROVE  MemoPlan(req[r])'
  <1>1. CASE q.op = "create_memo" BY <1>1 DEF MemoPlan, Creates
  <1>2. CASE q.op = "update_memo"
    <2>1. PICK m \in MemoIds : Rewrites(q, m) BY <1>2 DEF MemoPlan
    <2>2. q.pc # "write" => VersionsOf(m)' = VersionsOf(m) BY <1>2, <2>1 DEF Rewrites
    <2>3. Rewrites(req[r], m)' BY <2>1, <2>2 DEF Rewrites
    <2>4. QED BY <1>2, <2>3 DEF MemoPlan
  <1>3. CASE q.op \notin {"create_memo", "update_memo"} BY <1>3 DEF MemoPlan
  <1>4. QED BY <1>1, <1>2, <1>3

\* The calls of memos.
LEMMA CallsPlanMemos ==
  ASSUME Base, NEW r \in Requests, Call(r)
  PROVE  MemoPlan(req[r])'
  <1>1. row' = row BY CallsByRoute
  <1>2. \A m : VersionsOf(m)' = VersionsOf(m) BY <1>1 DEF VersionsOf, All, Live
  <1>3. ASSUME NEW u \in Users, NEW c \in Contents, CreateMemo(r, u, c) PROVE MemoPlan(req'[r])
    <2>1. PICK m, x : m = Some(MemoIds) /\ x = Some(VersionIds) OBVIOUS
    <2>2. PICK memo, version :
            /\ memo = [content |-> c, pinned |-> FALSE, favorite |-> FALSE, deleted |-> FALSE]
            /\ version = Version(m, c, 1)
      OBVIOUS
    <2>3. m \in MemoIds /\ x \in VersionIds BY <1>3, <2>1, SomeFresh DEF CreateMemo
    <2>4. m # x BY <2>3, KindsOfRows
    <2> DEFINE one == Row(m, memo)
               other == Row(x, version)
               new == Both(one, other)
               to == [Idle EXCEPT !.pc = "done", !.op = "create_memo", !.user = u, !.new = new]
    <2>5. Begin(r, to) BY <1>3, <2>1, <2>2 DEF CreateMemo
    <2>6. /\ DOMAIN one = {m} /\ one[m] = memo
          /\ DOMAIN other = {x} /\ other[x] = version
      BY RowFields
    <2> HIDE DEF one, other
    <2>7. DOMAIN new = {m, x} /\ new[m] = memo /\ new[x] = version BY <2>4, <2>6 DEF Both
    <2> HIDE DEF new
    <2>8. to.new = new /\ to.pc = "done" /\ to.op = "create_memo" BY DEF Idle
    <2> HIDE DEF to
    <2>9. memo.content = c BY <2>2
    <2>10. Creates(to) BY <2>2, <2>3, <2>7, <2>8, <2>9 DEF Creates
    <2>11. MemoPlan(to) BY <2>8, <2>10 DEF MemoPlan
    <2>12. QED BY <2>5, <2>11, OpsOfCalls
  <1>4. ASSUME NEW u \in Users, NEW m \in MemoIds, NEW c \in Contents, UpdateMemo(r, u, m, c)
        PROVE  MemoPlan(req'[r])
    <2> DEFINE data == Changed(m, [content |-> c])
               next == IF row[m].content # c THEN "version" ELSE "done"
               to == [Idle EXCEPT !.pc = "write", !.op = "update_memo", !.user = u,
                                  !.data = data, !.todo = {m}, !.next = next]
    <2>1. Begin(r, to) BY <1>4 DEF UpdateMemo
    <2>2. "content" \in DOMAIN data <=> next = "version" BY DEF Changed
    <2> HIDE DEF data, next
    <2>3. /\ to.pc = "write" /\ to.op = "update_memo" /\ to.data = data /\ to.todo = {m}
          /\ to.hold = {} /\ to.next = next
      BY DEF Idle
    <2> HIDE DEF to
    <2>4. Rewrites(to, m) BY <2>2, <2>3 DEF Rewrites
    <2>5. MemoPlan(to) BY <2>3, <2>4 DEF MemoPlan
    <2>6. QED BY <2>1, <2>5, OpsOfCalls
  <1>5. CASE req'[r].op \in {"create_memo", "update_memo"}
    <2>1. PICK u \in Users : MemoCall(r, u) BY <1>5, CallsByRoute DEF MemoRoutes
    <2>2. \/ \E c \in Contents : CreateMemo(r, u, c)
          \/ \E m \in MemoIds, c \in Contents : UpdateMemo(r, u, m, c)
      BY <1>5, <2>1, OpsOfCalls
         DEF MemoCall, PinMemo, UnpinMemo, FavoriteMemo, UnfavoriteMemo, DeleteMemo
    <2>3. MemoPlan(req'[r]) BY <1>3, <1>4, <2>2
    <2>4. PICK q : q = req'[r] OBVIOUS
    <2>5. QED BY <1>2, <2>3, <2>4, PlanStays
  <1>6. CASE req'[r].op \notin {"create_memo", "update_memo"} BY <1>6 DEF MemoPlan
  <1>7. QED BY <1>5, <1>6

\* The steps of a request that updates a memo.
LEMMA WritePlansMemos ==
  ASSUME Base, NEW r \in Requests, Write(r), MemoPlan(req[r])
  PROVE  MemoPlan(req[r])'
  <1>1. PICK p : p = req[r] OBVIOUS
  <1>2. PICK q : q = req'[r] OBVIOUS
  <1>3. /\ q.op = p.op /\ q.data = p.data /\ q.next = p.next /\ q.new = p.new
        /\ q.todo \cup q.hold = p.todo \cup p.hold
        /\ q.pc = IF q.todo = {} THEN p.next ELSE "write"
        /\ p.pc = "write" /\ row' = row
    BY <1>1, <1>2, WriteFields
  <1>4. Footprint(p) /\ Typed(p) /\ MemoPlan(p) BY <1>1 DEF Base, Fits
  <1>5. p.op # "create_memo" BY <1>3, <1>4 DEF MemoPlan, Creates
  <1>6. ASSUME NEW m \in MemoIds, Rewrites(p, m) PROVE Rewrites(q, m)
    <2>1. p.next \in {"done", "version"}
      BY <1>1, <1>3, <1>4 DEF Base, Fits, InProgram, Typed, NamingRoutes
    <2>2. DOMAIN q.new = {} BY <1>3, <1>4 DEF Footprint
    <2>3. QED BY <1>3, <1>6, <2>1, <2>2 DEF Rewrites
  <1>7. MemoPlan(q) BY <1>3, <1>4, <1>5, <1>6 DEF MemoPlan
  <1>8. \A m : VersionsOf(m)' = VersionsOf(m) BY <1>3 DEF VersionsOf, All, Live
  <1>9. QED BY <1>2, <1>7, <1>8, PlanStays

\* A request that adds a version.
LEMMA AddVersionPlansMemos ==
  ASSUME Base, NEW r \in Requests, AddVersion(r), MemoPlan(req[r])
  PROVE  MemoPlan(req[r])'
  <1>1. /\ Typed(req[r]) /\ InProgram(req[r]) /\ req[r].pc = "version"
        /\ req[r].op = "update_memo" /\ row' = row
    BY RoutesOfSteps DEF AddVersion, At, Base, Fits
  <1>2. PICK m \in req[r].hold :
          IF Fresh(VersionIds) = {} THEN Abort(r)
          ELSE Continue(r, [req[r] EXCEPT !.pc = "done",
                              !.new = Row(Some(VersionIds),
                                          Version(m, req[r].data.content,
                                                  Cardinality(VersionsOf(m)) + 1))])
    BY DEF AddVersion
  <1>3. m \in MemoIds /\ Rewrites(req[r], m)
    BY <1>1, <1>2 DEF MemoPlan, Rewrites
  <1>4. \A n : VersionsOf(n)' = VersionsOf(n) BY <1>1 DEF VersionsOf, All, Live
  <1>5. CASE Abort(r)
    <2>1. req'[r] = Idle BY <1>5, Continued DEF Abort
    <2>2. Idle.op \notin {"create_memo", "update_memo"}
      BY IdleFields, NothingAssumption DEF Routes, MemoRoutes
    <2>3. QED BY <2>1, <2>2 DEF MemoPlan
  <1>6. CASE Fresh(VersionIds) # {} /\ ~Abort(r)
    <2>1. PICK x, version : /\ x = Some(VersionIds)
                            /\ version = Version(m, req[r].data.content,
                                                 Cardinality(VersionsOf(m)) + 1)
      OBVIOUS
    <2> DEFINE new == Row(x, version)
               to == [req[r] EXCEPT !.pc = "done", !.new = new]
    <2>2. Continue(r, to) BY <1>2, <1>6, <2>1
    <2>3. DOMAIN new = {x} /\ new[x] = version BY RowFields
    <2> HIDE DEF new
    <2>4. /\ to.pc = "done" /\ to.op = req[r].op /\ to.next = req[r].next /\ to.new = new
          /\ to.data = req[r].data /\ to.todo = req[r].todo /\ to.hold = req[r].hold
      BY <1>1, Fields
    <2> HIDE DEF to
    <2>5. x \in VersionIds BY <1>6, <2>1, SomeFresh
    <2>6. req[r].next = "version" BY <1>1, <1>3 DEF InProgram, Rewrites
    <2>7. Rewrites(to, m)
      <3>1. /\ to.pc \in {"write", "version", "done"} /\ to.todo \cup to.hold = {m}
            /\ "content" \in DOMAIN to.data <=> to.next = "version"
            /\ to.todo = {}
        BY <1>1, <1>3, <2>4 DEF Rewrites
      <3>2. DOMAIN to.new = {x} /\ to.new[x] = Version(m, to.data.content, Cardinality(VersionsOf(m)) + 1)
        BY <2>1, <2>3, <2>4
      <3>3. QED BY <2>4, <2>5, <2>6, <3>1, <3>2 DEF Rewrites
    <2>8. MemoPlan(to) BY <1>1, <1>3, <2>4, <2>7 DEF MemoPlan
    <2>9. req'[r] = to BY <2>2, Continued
    <2>10. QED BY <1>4, <2>8, <2>9, PlanStays
  <1>7. QED BY <1>2, <1>5, <1>6

-----------------------------------------------------------------------------
\* What a step makes of a memo and its versions: it leaves them alone, or saves one new
\* version, with the number after those that were there and the content of the memo.
Kept(m) ==
    /\ VersionsOf(m)' = VersionsOf(m)
    /\ row'[m] # None => row[m] # None /\ row'[m].content = row[m].content
Saved(m, x, c) ==
    /\ row[x] = None /\ row'[x] = Version(m, c, Cardinality(VersionsOf(m)) + 1)
    /\ VersionsOf(m)' = VersionsOf(m) \cup {x}
    /\ row'[m] # None /\ row'[m].content = c

\* A memo that is not there has no versions.
LEMMA NoMemoNoVersions ==
  ASSUME Base, NEW m \in MemoIds, row[m] = None
  PROVE  VersionsOf(m) = {} /\ Cardinality(VersionsOf(m)) = 0
  <1>1. ASSUME NEW x \in VersionsOf(m) PROVE FALSE
    <2>1. x \in VersionIds /\ row[x] # None /\ row[x].memo = m
      BY DEF VersionsOf, All, Live
    <2>2. RefersTo(x, row[x], m) /\ x \in Ids /\ m \in Ids BY <2>1, KindsOfRows DEF RefersTo
    <2>3. QED BY <2>1, <2>2 DEF Base, RowsFit
  <1>2. QED BY <1>1, FS_EmptySet

\* A commit leaves the versions alone that were there.
LEMMA VersionsStay ==
  ASSUME Base, NEW r \in Requests, Commit(r), NEW y \in VersionIds, row[y] # None
  PROVE  row'[y] = row[y] /\ y \notin DOMAIN req[r].new
  <1>1. Updates(req[r]) /\ Inserts(req[r]) BY DEF Base, Fits
  <1>2. y \in Ids /\ Kind(y) = "version" /\ y \notin RoleNames BY KindsOfRows
  <1>3. y \notin DOMAIN req[r].new BY <1>1 DEF Inserts
  <1>4. y \notin req[r].hold
    <2>1. Updatable("version") = {} BY DEF Updatable
    <2>2. TableOf(req[r].op) # "version"
      BY DEF TableOf, NotificationRoutes, FlagRoutes
    <2>3. QED BY <1>1, <1>2, <2>2 DEF Updates
  <1>5. QED BY <1>2, <1>3, <1>4, UntouchedRows

\* The versions of a memo after a commit: those that were there, and those inserted.
LEMMA CommittedVersions ==
  ASSUME Base, NEW r \in Requests, Commit(r), NEW m \in MemoIds
  PROVE  VersionsOf(m)' = VersionsOf(m) \cup
            {x \in DOMAIN req[r].new \cap VersionIds :
               ~req[r].new[x].deleted /\ req[r].new[x].memo = m}
  <1>1. \A x \in DOMAIN req[r].new :
           x \in Ids /\ row[x] = None /\ row'[x] = req[r].new[x] /\ row'[x] # None
    BY CommittedRows
  <1>2. \A x \in VersionIds : row[x] # None => row'[x] = row[x] /\ x \notin DOMAIN req[r].new
    BY VersionsStay
  <1>3. \A x \in VersionIds \ DOMAIN req[r].new : row[x] = None => row'[x] = None
    BY CommittedRows, KindsOfRows
  <1>4. QED BY <1>1, <1>2, <1>3 DEF VersionsOf, All, Live

\* The content of a memo changes with the commit of a request that writes it.
LEMMA ContentStays ==
  ASSUME Base, NEW r \in Requests, Commit(r), NEW m \in MemoIds, m \notin DOMAIN req[r].new,
         m \notin req[r].hold \/ "content" \notin DOMAIN req[r].data
  PROVE  row'[m] # None => row[m] # None /\ row'[m].content = row[m].content
  <1>1. m \in Ids /\ Kind(m) = "memo" /\ m \notin RoleNames BY KindsOfRows
  <1>2. CASE row[m] = None BY <1>1, <1>2, CommittedRows
  <1>3. CASE row[m] # None
    <2>1. row[m] \in Memo BY <1>1, <1>3, RecordsOfTables DEF Base, RowsFit, WellFormed
    <2>2. "content" \in DOMAIN row[m] BY <2>1 DEF Memo
    <2>3. PICK after : after = row'[m] OBVIOUS
    <2>4. \/ after["content"] = row[m]["content"]
          \/ ColumnWritten(req[r], m, "content", row[m]["content"], after["content"])
      BY <1>1, <1>3, <2>2, <2>3, CommittedRows
    <2>5. after["content"] = row[m]["content"] BY <2>4 DEF ColumnWritten
    <2>6. QED BY <1>3, <2>3, <2>5
  <1>4. QED BY <1>2, <1>3

\* A commit saves at most one version.
LEMMA CommitsSaveOnce ==
  ASSUME Base, MemoPlans, NEW r \in Requests, Commit(r)
  PROVE  \/ \A m \in MemoIds : Kept(m)
         \/ \E m \in MemoIds, x \in VersionIds, c \in Contents :
               Saved(m, x, c) /\ \A n \in MemoIds \ {m} : Kept(n)
  <1>1. PICK q : q = req[r] OBVIOUS
  <1>2. q.pc = "done" /\ Updates(q) /\ Inserts(q) /\ Footprint(q) /\ MemoPlan(q)
    BY <1>1 DEF Commit, At, Base, Fits, MemoPlans
  <1>3. \A m \in MemoIds : m \notin VersionIds BY KindsOfRows
  <1>4. CASE q.op = "create_memo"
    <2>1. PICK m \in MemoIds, x \in VersionIds :
            DOMAIN q.new = {m, x} /\ q.new[x] = Version(m, q.new[m].content, 1)
      BY <1>2, <1>4 DEF MemoPlan, Creates
    <2>2. PICK c : c = q.new[m].content OBVIOUS
    <2>3. /\ row[m] = None /\ row[x] = None /\ row'[x] = q.new[x] /\ row'[m] = q.new[m]
          /\ row'[m] # None /\ q.new[m] \in Memo
      BY <1>1, <2>1, CommittedRows, KindsOfRows, RecordsOfTables DEF WellFormed
    <2>4. c \in Contents BY <2>2, <2>3 DEF Memo
    <2>5. TableOf("create_memo") = "none" BY DEF TableOf, NotificationRoutes, FlagRoutes
    <2>6. q.hold = {}
      <3>1. \A y \in q.hold : y \in Ids /\ Kind(y) = "none" BY <1>2, <1>4, <2>5 DEF Updates
      <3>2. \A y \in Ids : Kind(y) # "none" BY TableOfKind DEF Tables
      <3>3. QED BY <3>1, <3>2
    <2>7. VersionsOf(m) = {} /\ Cardinality(VersionsOf(m)) = 0 BY <2>3, NoMemoNoVersions
    <2>8. ~q.new[x].deleted /\ q.new[x].memo = m BY <2>1 DEF Version
    <2>9. \A n \in MemoIds : VersionsOf(n)' = IF n = m THEN VersionsOf(n) \cup {x} ELSE VersionsOf(n)
      <3>1. \A n \in MemoIds :
              VersionsOf(n)' = VersionsOf(n) \cup {y \in {m, x} \cap VersionIds :
                                                     ~q.new[y].deleted /\ q.new[y].memo = n}
        BY <1>1, <2>1, CommittedVersions
      <3>2. {m, x} \cap VersionIds = {x} BY <1>3
      <3>3. QED BY <2>8, <3>1, <3>2
    <2>10. Saved(m, x, c)
      <3>1. row'[x] = Version(m, c, Cardinality(VersionsOf(m)) + 1) BY <2>1, <2>2, <2>3, <2>7
      <3>2. QED BY <2>2, <2>3, <2>9, <3>1 DEF Saved
    <2>11. ASSUME NEW n \in MemoIds \ {m} PROVE Kept(n)
      <3>1. n \notin DOMAIN req[r].new /\ n \notin req[r].hold BY <1>1, <1>3, <2>1, <2>6
      <3>2. row'[n] # None => row[n] # None /\ row'[n].content = row[n].content
        BY <3>1, ContentStays
      <3>3. QED BY <2>9, <3>2 DEF Kept
    <2>12. QED BY <2>4, <2>10, <2>11
  <1>5. CASE q.op # "create_memo"
    <2>1. DOMAIN q.new \cap MemoIds = {}
      BY <1>2, <1>5, KindsOfRows, TablesOfInserters DEF Footprint
    <2>2. CASE q.op = "update_memo" /\ q.next = "version"
      <3>1. PICK m \in MemoIds : Rewrites(q, m) BY <1>2, <2>2 DEF MemoPlan
      <3>2. PICK x \in VersionIds :
              /\ DOMAIN q.new = {x}
              /\ q.new[x] = Version(m, q.data.content, Cardinality(VersionsOf(m)) + 1)
        BY <1>2, <2>2, <3>1 DEF Rewrites
      <3>3. q.hold = {m} /\ "content" \in DOMAIN q.data BY <1>2, <2>2, <3>1 DEF Rewrites
      <3>4. PICK c : c = q.data.content OBVIOUS
      <3>5. c \in Contents BY <1>2, <3>3, <3>4, ColumnValues DEF Updates
      <3>6. row[x] = None /\ row'[x] = q.new[x] BY <1>1, <3>2, CommittedRows
      <3>7. m \in Ids /\ row[m] # None /\ Kind(m) = "memo" /\ m \notin RoleNames
        BY <1>2, <3>3, KindsOfRows DEF Updates
      <3>8. row'[m] # None /\ row'[m].content = c
        <4>1. m \notin DOMAIN req[r].new BY <1>1, <2>1
        <4>2. row'[m] # None BY <3>7, CommittedRows
        <4>3. m # req[r].links.of
          BY <3>7, NoneAssumption DEF Base, Fits, Relinks
        <4>4. RowOf(r, m) = Written(row[m], q.data) BY <1>1, <3>3, <4>1, <4>3 DEF RowOf
        <4>5. row'[m] = RowOf(r, m) BY <3>7 DEF Commit
        <4>6. row[m] \in Memo BY <3>7, RecordsOfTables DEF Base, RowsFit, WellFormed
        <4>7. "content" \in DOMAIN row[m] BY <4>6 DEF Memo
        <4>8. Written(row[m], q.data)["content"] = q.data["content"]
          BY <3>3, <4>7 DEF Written
        <4>9. QED BY <3>4, <4>2, <4>4, <4>5, <4>8
      <3>9. ~q.new[x].deleted /\ q.new[x].memo = m BY <3>2 DEF Version
      <3>10. \A n \in MemoIds :
               VersionsOf(n)' = IF n = m THEN VersionsOf(n) \cup {x} ELSE VersionsOf(n)
        <4>1. \A n \in MemoIds :
                VersionsOf(n)' = VersionsOf(n) \cup {y \in {x} \cap VersionIds :
                                                       ~q.new[y].deleted /\ q.new[y].memo = n}
          BY <1>1, <3>2, CommittedVersions
        <4>2. QED BY <3>9, <4>1
      <3>11. Saved(m, x, c) BY <3>2, <3>4, <3>6, <3>8, <3>10 DEF Saved
      <3>12. ASSUME NEW n \in MemoIds \ {m} PROVE Kept(n)
        <4>1. n \notin DOMAIN req[r].new /\ n \notin req[r].hold BY <1>1, <2>1, <3>3
        <4>2. row'[n] # None => row[n] # None /\ row'[n].content = row[n].content
          BY <4>1, ContentStays
        <4>3. QED BY <3>10, <4>2 DEF Kept
      <3>13. QED BY <3>5, <3>11, <3>12
    <2>3. CASE ~(q.op = "update_memo" /\ q.next = "version")
      <3>1. "content" \notin DOMAIN q.data
        <4>1. CASE q.op = "update_memo"
          BY <1>2, <2>3, <4>1 DEF MemoPlan, Rewrites
        <4>2. CASE q.op # "update_memo"
          <5>1. "content" \notin ColumnsOf(q.op) BY <4>2 DEF ColumnsOf
          <5>2. QED BY <1>2, <5>1 DEF Updates
        <4>3. QED BY <4>1, <4>2
      <3>2. DOMAIN q.new \cap VersionIds = {}
        <4>1. CASE q.op = "update_memo"
          <5>1. PICK m \in MemoIds : Rewrites(q, m) BY <1>2, <4>1 DEF MemoPlan
          <5>2. q.next = "done"
            <6>1. q.next \in {"done", "version", "lookup", "mail"}
              BY <1>1 DEF Base, Fits, Typed
            <6>2. InProgram(q) BY <1>1 DEF Base, Fits
            <6>3. QED BY <2>3, <4>1, <6>1, <6>2 DEF InProgram
          <5>3. QED BY <1>2, <5>1, <5>2 DEF Rewrites
        <4>2. CASE q.op # "update_memo"
          BY <1>2, <1>5, <4>2, KindsOfRows, TablesOfInserters DEF Footprint
        <4>3. QED BY <4>1, <4>2
      <3>3. ASSUME NEW m \in MemoIds PROVE Kept(m)
        <4>1. VersionsOf(m)' = VersionsOf(m) BY <1>1, <3>2, CommittedVersions
        <4>2. row'[m] # None => row[m] # None /\ row'[m].content = row[m].content
          BY <1>1, <2>1, <3>1, ContentStays
        <4>3. QED BY <4>1, <4>2 DEF Kept
      <3>4. QED BY <3>3
    <2>4. QED BY <2>2, <2>3
  <1>6. QED BY <1>4, <1>5

\* A step saves at most one version, and leaves the others as they are.
LEMMA StepsSaveOnce ==
  ASSUME Base, MemoPlans, [Next]_all
  PROVE  /\ \A y \in VersionIds : row[y] # None => row'[y] = row[y]
         /\ \/ \A m \in MemoIds : Kept(m)
            \/ \E m \in MemoIds, x \in VersionIds, c \in Contents :
                  Saved(m, x, c) /\ \A n \in MemoIds \ {m} : Kept(n)
  <1>1. ASSUME \A y \in VersionIds \cup MemoIds : row'[y] = row[y]
        PROVE  /\ \A y \in VersionIds : row[y] # None => row'[y] = row[y]
               /\ \A m \in MemoIds : Kept(m)
    BY <1>1 DEF Kept, VersionsOf, All, Live
  <1>2. CASE row' = row BY <1>1, <1>2
  <1>3. ASSUME NEW s \in Shares, Expire(s)
        PROVE  \A y \in VersionIds \cup MemoIds : row'[y] = row[y]
    BY <1>3, KindsOfRows DEF Expire, Base, RowsFit
  <1>4. ASSUME NEW r \in Requests, Commit(r)
        PROVE  /\ \A y \in VersionIds : row[y] # None => row'[y] = row[y]
               /\ \/ \A m \in MemoIds : Kept(m)
                  \/ \E m \in MemoIds, x \in VersionIds, c \in Contents :
                        Saved(m, x, c) /\ \A n \in MemoIds \ {m} : Kept(n)
    BY <1>4, VersionsStay, CommitsSaveOnce
  <1>5. QED BY <1>1, <1>2, <1>3, <1>4, RowsChangeAtCommit

-----------------------------------------------------------------------------
\* A memo that a request has written gets no version from another one.
LEMMA HeldMemosKeepVersions ==
  ASSUME Base, MemoPlans, [Next]_all, NEW r \in Requests, req'[r] = req[r],
         NEW m \in MemoIds, m \in req[r].hold
  PROVE  VersionsOf(m)' = VersionsOf(m)
  <1>1. row[m] # None BY DEF Base, Fits, Updates
  <1>2. ASSUME \A y \in VersionIds : row'[y] = row[y] PROVE VersionsOf(m)' = VersionsOf(m)
    BY <1>2 DEF VersionsOf, All, Live
  <1>3. ASSUME NEW s \in Shares, Expire(s) PROVE \A y \in VersionIds : row'[y] = row[y]
    BY <1>3, KindsOfRows DEF Expire, Base, RowsFit
  <1>4. ASSUME NEW p \in Requests, Commit(p) PROVE VersionsOf(m)' = VersionsOf(m)
    <2>1. p # r
      <3>1. req'[p] = Idle /\ req[p].pc = "done" BY <1>4 DEF Commit, At, Base
      <3>2. QED BY <3>1, IdleFields
    <2>2. m \notin req[p].hold BY <2>1 DEF Base, Parted
    <2>3. ASSUME NEW x \in DOMAIN req[p].new \cap VersionIds PROVE req[p].new[x].memo # m
      <3>1. PICK q : q = req[p] OBVIOUS
      <3>2. q.pc = "done" /\ MemoPlan(q) /\ Footprint(q) /\ Inserts(q)
        BY <1>4, <3>1 DEF Commit, At, Base, Fits, MemoPlans
      <3>3. q.op \in {"create_memo", "update_memo"}
        BY <2>3, <3>1, <3>2, KindsOfRows, TablesOfInserters DEF Footprint
      <3>4. CASE q.op = "create_memo"
        <4>1. PICK n \in MemoIds, y \in VersionIds :
                DOMAIN q.new = {n, y} /\ q.new[y] = Version(n, q.new[n].content, 1)
          BY <3>2, <3>4 DEF MemoPlan, Creates
        <4>2. n # x BY KindsOfRows
        <4>3. x = y /\ row[n] = None BY <2>3, <3>1, <3>2, <4>1, <4>2 DEF Inserts
        <4>4. QED BY <1>1, <3>1, <4>1, <4>3 DEF Version
      <3>5. CASE q.op = "update_memo"
        <4>1. PICK n \in MemoIds : Rewrites(q, n) BY <3>2, <3>5 DEF MemoPlan
        <4>2. q.hold = {n} BY <3>2, <4>1 DEF Rewrites
        <4>3. n # m BY <2>2, <3>1, <4>2
        <4>4. q.next \in {"done", "version"}
          BY <3>1, <3>5 DEF Base, Fits, Typed, InProgram
        <4>5. q.new[x].memo = n BY <2>3, <3>1, <3>2, <4>1, <4>4 DEF Rewrites, Version
        <4>6. QED BY <3>1, <4>3, <4>5
      <3>6. QED BY <3>3, <3>4, <3>5
    <2>4. QED BY <1>4, <2>3, CommittedVersions
  <1>5. QED BY <1>2, <1>3, <1>4, RowsChangeAtCommit

\* Every step keeps the plans.
LEMMA StepKeepsMemoPlans ==
  ASSUME Base, MemoPlans, [Next]_all
  PROVE  MemoPlans'
  <1>1. ASSUME NEW r \in Requests PROVE MemoPlan(req[r])'
    <2>1. CASE req'[r] = req[r]
      <3>1. PICK q : q = req[r] OBVIOUS
      <3>2. MemoPlan(q) BY <3>1 DEF MemoPlans
      <3>3. q.op = "update_memo" => \A m \in q.hold : VersionsOf(m)' = VersionsOf(m)
        BY <2>1, <3>1, <3>2, HeldMemosKeepVersions DEF MemoPlan, Rewrites
      <3>4. QED BY <2>1, <3>1, <3>2, <3>3, PlanStays
    <2>2. CASE req'[r] = Idle
      <3>1. Idle.op \notin {"create_memo", "update_memo"}
        BY IdleFields, NothingAssumption DEF Routes, MemoRoutes
      <3>2. QED BY <2>2, <3>1 DEF MemoPlan
    <2>3. CASE Call(r) BY <2>3, CallsPlanMemos
    <2>4. CASE Write(r) BY <2>4, WritePlansMemos DEF MemoPlans
    <2>5. CASE AddVersion(r) BY <2>5, AddVersionPlansMemos DEF MemoPlans
    <2>6. CASE req'[r] # Idle /\ (LookUpName(r) \/ InsertName(r) \/ ChangeLinks(r) \/ AccountStep(r))
      <3>1. req'[r].op \notin {"create_memo", "update_memo"}
        BY <2>6, RoutesOfSteps DEF NamingRoutes
      <3>2. QED BY <3>1 DEF MemoPlan
    <2>7. QED BY <2>1, <2>2, <2>3, <2>4, <2>5, <2>6, RequestSteps
  <1>2. QED BY <1>1 DEF MemoPlans

\* The step from n versions to n + 1.
LEMMA NextNumber ==
  ASSUME NEW n \in Nat
  PROVE  (1..n) \cup {n + 1} = 1..(n + 1)
  OBVIOUS

\* A version more, among finitely many.
LEMMA OneVersionMore ==
  ASSUME NEW m, NEW x, row[x] = None, VersionsOf(m)' = VersionsOf(m) \cup {x}
  PROVE  /\ Cardinality(VersionsOf(m)) \in Nat
         /\ Cardinality(VersionsOf(m)') = Cardinality(VersionsOf(m)) + 1
  <1>1. IsFiniteSet(VersionsOf(m)) BY VersionsAreFinite
  <1>2. x \notin VersionsOf(m) BY DEF VersionsOf, All, Live
  <1>3. QED BY <1>1, <1>2, FS_AddElement, FS_CardinalityType

\* No step deletes a version, or inserts a deleted one.
LEMMA StepKeepsVersions ==
  ASSUME Base, MemosFit, [Next]_all
  PROVE  VersionsAreLive'
  <1>1. ASSUME NEW x \in VersionIds, row'[x] # None PROVE ~row'[x].deleted
    <2>1. CASE row[x] # None
      <3>1. row'[x] = row[x] BY <2>1, StepsSaveOnce DEF MemosFit
      <3>2. QED BY <2>1, <3>1 DEF MemosFit, VersionsAreLive
    <2>2. CASE row[x] = None
      <3>1. x \in Ids /\ Kind(x) = "version" BY KindsOfRows
      <3>2. PICK r \in Requests :
              /\ x \in DOMAIN req[r].new /\ row'[x] = req[r].new[x]
              /\ req[r].op \in Inserters("version") /\ req[r].pc = "done"
        BY <1>1, <2>2, <3>1, RowsAppearAtCommit
      <3>3. PICK q : q = req[r] OBVIOUS
      <3>4. MemoPlan(q) /\ Typed(q) /\ InProgram(q) BY <3>3 DEF MemosFit, MemoPlans, Base, Fits
      <3>5. \E m, c, n : q.new[x] = Version(m, c, n)
        <4>1. CASE q.op = "create_memo"
          <5>1. x \notin MemoIds BY KindsOfRows
          <5>2. QED BY <3>2, <3>3, <3>4, <4>1, <5>1 DEF MemoPlan, Creates
        <4>2. CASE q.op = "update_memo"
          <5>1. q.next \in {"done", "version"} BY <3>4, <4>2 DEF Typed, InProgram
          <5>2. QED BY <3>2, <3>3, <3>4, <4>2, <5>1 DEF MemoPlan, Rewrites
        <4>3. QED BY <3>2, <3>3, <4>1, <4>2, TablesOfInserters
      <3>6. QED BY <3>2, <3>3, <3>5 DEF Version
    <2>3. QED BY <2>1, <2>2
  <1>2. QED BY <1>1 DEF VersionsAreLive

\* Every step keeps the numbers of the versions, and the newest one a copy of its memo.
LEMMA StepKeepsNumbers ==
  ASSUME Base, MemosFit, [Next]_all
  PROVE  VersionsAreNumbered' /\ NewestVersionIsTheMemo'
  <1>1. \A y \in VersionIds : row[y] # None => row'[y] = row[y]
    BY StepsSaveOnce DEF MemosFit
  <1>2. ASSUME NEW m \in MemoIds, Kept(m)
        PROVE  /\ {row'[x].number : x \in VersionsOf(m)'} = 1..Cardinality(VersionsOf(m)')
               /\ \A x \in VersionIds :
                     /\ row'[m] # None
                     /\ row'[x] # None /\ row'[x].memo = m
                     /\ row'[x].number = Cardinality(VersionsOf(m)')
                     => row'[x].content = row'[m].content
    <2>1. VersionsOf(m)' = VersionsOf(m) BY <1>2 DEF Kept
    <2>2. \A x \in VersionsOf(m) : x \in VersionIds /\ row'[x] = row[x]
      BY <1>1 DEF VersionsOf, All, Live
    <2>3. {row'[x].number : x \in VersionsOf(m)'} = {row[x].number : x \in VersionsOf(m)}
      BY <2>1, <2>2
    <2>4. {row[x].number : x \in VersionsOf(m)} = 1..Cardinality(VersionsOf(m))
      BY DEF MemosFit, VersionsAreNumbered
    <2>5. ASSUME NEW x \in VersionIds, row'[m] # None, row'[x] # None, row'[x].memo = m,
                 row'[x].number = Cardinality(VersionsOf(m)')
          PROVE  row'[x].content = row'[m].content
      <3>1. ~row'[x].deleted BY <2>5, StepKeepsVersions DEF VersionsAreLive
      <3>2. x \in VersionsOf(m) BY <2>1, <2>5, <3>1 DEF VersionsOf, All, Live
      <3>3. row[x] = row'[x] /\ row[x] # None BY <1>1, <3>2 DEF VersionsOf, All, Live
      <3>4. row[m] # None /\ row'[m].content = row[m].content BY <1>2, <2>5 DEF Kept
      <3>5. QED BY <2>1, <2>5, <3>3, <3>4 DEF MemosFit, NewestVersionIsTheMemo
    <2>6. QED BY <2>1, <2>3, <2>4, <2>5
  <1>3. ASSUME NEW m \in MemoIds, NEW v \in VersionIds, NEW c \in Contents, Saved(m, v, c)
        PROVE  /\ {row'[x].number : x \in VersionsOf(m)'} = 1..Cardinality(VersionsOf(m)')
               /\ \A x \in VersionIds :
                     /\ row'[m] # None
                     /\ row'[x] # None /\ row'[x].memo = m
                     /\ row'[x].number = Cardinality(VersionsOf(m)')
                     => row'[x].content = row'[m].content
    <2>1. PICK n : n = Cardinality(VersionsOf(m)) OBVIOUS
    <2>2. /\ row[v] = None /\ VersionsOf(m)' = VersionsOf(m) \cup {v}
          /\ row'[v] = Version(m, c, n + 1) /\ row'[m].content = c
      BY <1>3, <2>1 DEF Saved
    <2>3. n \in Nat /\ Cardinality(VersionsOf(m)') = n + 1 BY <2>1, <2>2, OneVersionMore
    <2>4. row'[v].number = n + 1 /\ row'[v].content = c BY <2>2 DEF Version
    <2>5. \A x \in VersionsOf(m) : x \in VersionIds /\ row'[x] = row[x]
      BY <1>1 DEF VersionsOf, All, Live
    <2>6. {row[x].number : x \in VersionsOf(m)} = 1..n BY <2>1 DEF MemosFit, VersionsAreNumbered
    <2>7. {row'[x].number : x \in VersionsOf(m)'} = (1..n) \cup {n + 1}
      BY <2>2, <2>4, <2>5, <2>6
    <2>8. {row'[x].number : x \in VersionsOf(m)'} = 1..Cardinality(VersionsOf(m)')
      BY <2>3, <2>7, NextNumber
    <2>9. ASSUME NEW x \in VersionIds, row'[x] # None, row'[x].memo = m,
                 row'[x].number = n + 1
          PROVE  row'[x].content = row'[m].content
      <3>1. ~row'[x].deleted BY <2>9, StepKeepsVersions DEF VersionsAreLive
      <3>2. x \in VersionsOf(m)' BY <2>9, <3>1 DEF VersionsOf, All, Live
      <3>3. x \notin VersionsOf(m)
        <4>1. ASSUME x \in VersionsOf(m) PROVE FALSE
          <5>1. row'[x].number \in 1..n BY <2>5, <2>6, <4>1
          <5>2. QED BY <2>3, <2>9, <5>1
        <4>2. QED BY <4>1
      <3>4. x = v BY <2>2, <3>2, <3>3
      <3>5. QED BY <2>2, <2>4, <3>4
    <2>10. QED BY <2>3, <2>8, <2>9
  <1>4. \A m \in MemoIds :
           Kept(m) \/ \E x \in VersionIds, c \in Contents : Saved(m, x, c)
    BY StepsSaveOnce DEF MemosFit
  <1>5. VersionsAreNumbered' BY <1>2, <1>3, <1>4 DEF VersionsAreNumbered
  <1>6. NewestVersionIsTheMemo' BY <1>2, <1>3, <1>4 DEF NewestVersionIsTheMemo
  <1>7. QED BY <1>5, <1>6

\* MemosFit holds in every state.
THEOREM MemoInvariance == Spec => []MemosFit
  <1>1. Init => MemosFit
    <2> SUFFICES ASSUME Init PROVE MemosFit OBVIOUS
    <2>1. \A r \in Requests : MemoPlan(req[r])
      <3>1. Idle.op \notin {"create_memo", "update_memo"}
        BY IdleFields, NothingAssumption DEF Routes, MemoRoutes
      <3>2. QED BY <3>1 DEF Init, MemoPlan
    <2>2. \A x \in MemoIds \cup VersionIds : row[x] = None BY KindsOfRows DEF Init
    <2>3. \A m : VersionsOf(m) = {} BY <2>2 DEF VersionsOf, All, Live
    <2>4. VersionsAreNumbered
      <3>1. Cardinality({}) = 0 BY FS_EmptySet
      <3>2. QED BY <2>3, <3>1 DEF VersionsAreNumbered
    <2>5. NewestVersionIsTheMemo /\ VersionsAreLive
      BY <2>2 DEF NewestVersionIsTheMemo, VersionsAreLive
    <2>6. QED BY <2>1, <2>4, <2>5 DEF MemosFit, MemoPlans
  <1>2. Base /\ MemosFit /\ [Next]_all => MemosFit'
    BY StepKeepsMemoPlans, StepKeepsVersions, StepKeepsNumbers DEF MemosFit
  <1>3. QED BY <1>1, <1>2, BaseInvariance, PTL DEF Spec

\* The versions of a memo are numbered 1, 2, 3, ... however many requests update it together.
THEOREM VersionsNumbered == Spec => []VersionsAreNumbered
  <1>1. MemosFit => VersionsAreNumbered BY DEF MemosFit
  <1>2. QED BY <1>1, MemoInvariance, PTL

\* The newest version of a memo is a copy of the memo.
THEOREM NewestIsTheMemo == Spec => []NewestVersionIsTheMemo
  <1>1. MemosFit => NewestVersionIsTheMemo BY DEF MemosFit
  <1>2. QED BY <1>1, MemoInvariance, PTL

-----------------------------------------------------------------------------
(***************************************************************************)
(* The versions of a memo are an append-only history                       *)
(***************************************************************************)

\* The history of a memo, as KeepsHistory reads it from the versions.
Contained(m, n) == {row[x].content : x \in {y \in VersionsOf(m) : row[y].number = n}}
Listed(m) == [n \in 1..Cardinality(VersionsOf(m)) |-> Contained(m, n)]

\* Lists of k things.
IsList(f, k) == f = [n \in 1..k |-> f[n]]

\* There is one empty list.
LEMMA EmptyList == ASSUME NEW f, IsList(f, 0) PROVE f = <<>>
  <1>1. f = [n \in {} |-> f[n]] BY DEF IsList
  <1>2. QED BY <1>1

\* A list with one thing more is the list with the thing appended.
LEMMA AppendedList ==
  ASSUME NEW k \in Nat, NEW f, NEW g, NEW e, IsList(f, k), IsList(g, k + 1),
         \A n \in 1..k : g[n] = f[n], g[k + 1] = e
  PROVE  g = Append(f, e)
  <1> DEFINE h == [n \in 1..(k + 1) |-> IF n = k + 1 THEN e ELSE f[n]]
             S == {f[n] : n \in 1..k} \cup {e}
  <1>1. f \in Seq(S) /\ Len(f) = k /\ e \in S BY DEF IsList
  <1> HIDE DEF S
  <1>2. Append(f, e) = h
    <2>1. Append(f, e) \in Seq(S) /\ Len(Append(f, e)) = k + 1 BY <1>1
    <2>2. \A n \in 1..(k + 1) : Append(f, e)[n] = h[n] BY <1>1
    <2>3. Append(f, e) \in [1..(k + 1) -> S] BY <2>1, LenProperties
    <2>4. h = [n \in 1..(k + 1) |-> h[n]] OBVIOUS
    <2> HIDE DEF h
    <2>5. Append(f, e) = [n \in 1..(k + 1) |-> Append(f, e)[n]] BY <2>3
    <2>6. QED BY <2>2, <2>4, <2>5
  <1>3. \A n \in 1..(k + 1) : g[n] = h[n] OBVIOUS
  <1>4. h = [n \in 1..(k + 1) |-> h[n]] OBVIOUS
  <1> HIDE DEF h
  <1>5. [n \in 1..(k + 1) |-> g[n]] = [n \in 1..(k + 1) |-> h[n]] BY <1>3
  <1>6. QED BY <1>2, <1>4, <1>5 DEF IsList

\* The contents of versions that are there stay the same.
LEMMA ListsStay ==
  ASSUME Base, MemosFit, [Next]_all, NEW m \in MemoIds, Kept(m)
  PROVE  Listed(m)' = Listed(m)
  <1>1. VersionsOf(m)' = VersionsOf(m) BY DEF Kept
  <1>2. \A y \in VersionsOf(m) : row'[y] = row[y]
    BY StepsSaveOnce DEF MemosFit, VersionsOf, All, Live
  <1>3. \A n : Contained(m, n)' = Contained(m, n) BY <1>1, <1>2 DEF Contained
  <1>4. QED BY <1>1, <1>3 DEF Listed

\* A new version is one content more.
LEMMA ListsGrow ==
  ASSUME Base, MemosFit, [Next]_all, NEW m \in MemoIds, NEW v \in VersionIds,
         NEW c \in Contents, Saved(m, v, c)
  PROVE  Listed(m)' = Append(Listed(m), {c})
  <1>1. PICK k : k = Cardinality(VersionsOf(m)) OBVIOUS
  <1>2. /\ row[v] = None /\ VersionsOf(m)' = VersionsOf(m) \cup {v}
        /\ row'[v] = Version(m, c, k + 1)
    BY <1>1 DEF Saved
  <1>3. k \in Nat /\ Cardinality(VersionsOf(m)') = k + 1 BY <1>1, <1>2, OneVersionMore
  <1>4. \A y \in VersionsOf(m) : row'[y] = row[y] /\ row[y].number \in 1..k
    BY <1>1, StepsSaveOnce DEF MemosFit, VersionsAreNumbered, VersionsOf, All, Live
  <1>5. row'[v].number = k + 1 /\ row'[v].content = c BY <1>2 DEF Version
  <1>6. \A n \in 1..k : Contained(m, n)' = Contained(m, n)
    <2> TAKE n \in 1..k
    <2>1. n # k + 1 BY <1>3
    <2>2. \A y : y \in VersionsOf(m)' /\ row'[y].number = n
                 <=> y \in VersionsOf(m) /\ row[y].number = n
      BY <1>2, <1>4, <1>5, <2>1
    <2>3. QED BY <1>4, <2>2 DEF Contained
  <1>7. Contained(m, k + 1)' = {c}
    <2>1. \A y : y \in VersionsOf(m)' /\ row'[y].number = k + 1 <=> y = v
      BY <1>2, <1>3, <1>4, <1>5
    <2>2. QED BY <1>5, <2>1 DEF Contained
  <1>8. PICK f, g : f = Listed(m) /\ g = Listed(m)' OBVIOUS
  <1>9. /\ IsList(f, k) /\ IsList(g, k + 1)
        /\ \A n \in 1..k : f[n] = Contained(m, n)
        /\ \A n \in 1..(k + 1) : g[n] = Contained(m, n)'
    BY <1>1, <1>3, <1>8 DEF Listed, IsList
  <1>10. g[k + 1] = {c} BY <1>3, <1>7, <1>9
  <1>11. \A n \in 1..k : g[n] = f[n] BY <1>3, <1>6, <1>9
  <1>12. g = Append(f, {c}) BY <1>3, <1>9, <1>10, <1>11, AppendedList
  <1>13. QED BY <1>8, <1>12

Lists == [m \in MemoIds |->
            [n \in 1..Cardinality(VersionsOf(m)) |->
               {row[x].content : x \in {y \in VersionsOf(m) : row[y].number = n}}]]

\* The versions implement MemoHistory: they begin empty, and each step adds one content to one
\* memo or none.
THEOREM HistoryIsKept == Spec => KeepsHistory
  <1>1. /\ Lists = [m \in MemoIds |-> Listed(m)]
        /\ Lists' = [m \in MemoIds |-> Listed(m)']
    BY DEF Lists, Listed, Contained
  <1>2. Init => History!Init
    <2> SUFFICES ASSUME Init PROVE Lists = [m \in MemoIds |-> <<>>]
      BY DEF History!Init, Lists
    <2>1. \A x \in VersionIds : row[x] = None BY KindsOfRows DEF Init
    <2>2. \A m : VersionsOf(m) = {} BY <2>1 DEF VersionsOf, All, Live
    <2>3. Cardinality({}) = 0 BY FS_EmptySet
    <2>4. ASSUME NEW m \in MemoIds PROVE Listed(m) = <<>>
      <3>1. PICK f : f = Listed(m) OBVIOUS
      <3>2. Cardinality(VersionsOf(m)) = 0 BY <2>2, <2>3
      <3>3. IsList(f, 0) BY <3>1, <3>2 DEF Listed, IsList
      <3>4. QED BY <3>1, <3>3, EmptyList
    <2>5. QED BY <1>1, <2>4
  <1>3. Base /\ MemosFit /\ [Next]_all => [History!Next]_Lists
    <2> SUFFICES ASSUME Base, MemosFit, [Next]_all, Lists' # Lists PROVE History!Next OBVIOUS
    <2>1. ASSUME \A m \in MemoIds : Kept(m) PROVE FALSE BY <1>1, <2>1, ListsStay
    <2>2. PICK m \in MemoIds, x \in VersionIds, c \in Contents :
            Saved(m, x, c) /\ \A n \in MemoIds \ {m} : Kept(n)
      BY <2>1, StepsSaveOnce DEF MemosFit
    <2>3. Lists' = [Lists EXCEPT ![m] = Append(@, {c})]
      BY <1>1, <2>2, ListsStay, ListsGrow
    <2>4. History!Save(m, {c}) BY <2>3 DEF History!Save, Lists
    <2>5. QED BY <2>4 DEF History!Next
  <1>4. QED
    BY <1>2, <1>3, BaseInvariance, MemoInvariance, PTL DEF Spec, KeepsHistory, History!Spec, Lists
=============================================================================
