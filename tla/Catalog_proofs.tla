----------------------------- MODULE Catalog_proofs -----------------------------
(***************************************************************************)
(* A theorem about the role catalog, for any number of workers that start  *)
(* together and any defaults: seeding is all or nothing.  The proof adds   *)
(* to Base that a worker that seeds has, at each of its steps, every       *)
(* default among the rows, those it has inserted or those it is going to   *)
(* insert, and that no other request inserts a system role: CatalogFits.   *)
(***************************************************************************)
EXTENDS Workspace_proofs

\* A row that a request has inserted, or is going to insert, is not a system role.
NoSystemRole(q) ==
    /\ \A n \in DOMAIN q.new \cap RoleNames : ~q.new[n].system
    /\ \A p \in Pending(q) : p[1] \in RoleNames => ~p[2].system

CatalogPlan(q) ==
    IF q.op = "seed" THEN \A i \in 1..Len(Defaults) : Secured(q, Defaults[i]) ELSE NoSystemRole(q)

CatalogFits == (\A r \in Requests : CatalogPlan(req[r])) /\ SeedIsWhole

\* A plan says of the rows that some are there.
LEMMA PlanStays ==
  ASSUME Base, [Next]_all, NEW q, CatalogPlan(q), NEW r, req'[r] = q
  PROVE  CatalogPlan(req[r])'
  <1>1. ASSUME NEW i \in 1..Len(Defaults), Secured(q, Defaults[i])
        PROVE  Secured(req[r], Defaults[i])'
    <2>1. Defaults[i] \in Ids
      <3>1. Defaults[i] \in PermissionNames \cup DOMAIN DefaultGrants BY DefaultsAssumption
      <3>2. QED BY <3>1, DefaultsAssumption, KindsOfRows
    <2>2. row[Defaults[i]] # None => row'[Defaults[i]] # None BY <2>1, FixedColumns
    <2>3. QED BY <1>1, <2>2 DEF Secured, Pending
  <1>2. NoSystemRole(q) => NoSystemRole(req[r])' BY DEF NoSystemRole, Pending
  <1>3. QED BY <1>1, <1>2 DEF CatalogPlan

\* The requests of other routes insert no role.
LEMMA NoRolesElsewhere ==
  ASSUME NEW q, Footprint(q), q.op \notin {"seed", "create_role"}
  PROVE  NoSystemRole(q)
  <1>1. \A n \in RoleNames : n \notin DOMAIN q.new BY KindsOfRows, TablesOfInserters DEF Footprint
  <1>2. \A p \in Pending(q) : p[1] \notin RoleNames
    BY KindsOfRows, TablesOfInserters DEF Footprint
  <1>3. QED BY <1>1, <1>2 DEF NoSystemRole

\* The calls of the role catalog.
LEMMA CallsPlanCatalog ==
  ASSUME Base, Base', NEW r \in Requests, Call(r)
  PROVE  CatalogPlan(req'[r])
  <1>1. \A to : Begin(r, to) => req'[r] = to BY OpsOfCalls
  <1>2. CASE req'[r].op = "seed"
    <2> DEFINE names == [i \in DOMAIN Defaults |-> <<Defaults[i], DefaultRow(Defaults[i])>>]
               to == [Idle EXCEPT !.pc = "lookup", !.op = "seed", !.next = "lookup",
                                  !.names = names]
    <2>1. Seed(r) BY <1>2, CallsByRoute
    <2>2. req'[r] = to BY <1>1, <2>1 DEF Seed
    <2>3. /\ Len(Defaults) \in Nat /\ DOMAIN names = 1..Len(Defaults) /\ Len(names) = Len(Defaults)
          /\ \A i \in 1..Len(Defaults) : names[i] = <<Defaults[i], DefaultRow(Defaults[i])>>
      BY DefaultsAssumption
    <2> HIDE DEF names
    <2>4. to.op = "seed" /\ to.names = names BY DEF Idle
    <2> HIDE DEF to
    <2>5. \A i \in 1..Len(Defaults) : names[i] \in Pending(to) BY <2>3, <2>4 DEF Pending
    <2>6. ASSUME NEW i \in 1..Len(Defaults) PROVE Secured(to, Defaults[i])
      <3>1. PICK p : p = <<Defaults[i], DefaultRow(Defaults[i])>> OBVIOUS
      <3>2. names[i] = p BY <2>3, <2>6, <3>1
      <3>3. p \in Pending(to) BY <2>5, <2>6, <3>2
      <3>4. p[1] = Defaults[i] BY <3>1
      <3>5. QED BY <3>3, <3>4 DEF Secured
    <2>7. QED BY <2>2, <2>4, <2>6 DEF CatalogPlan
  <1>3. CASE req'[r].op = "create_role"
    <2>1. PICK u \in Users : CatalogCall(r, u) BY <1>3, CallsByRoute DEF CatalogRoutes
    <2>2. PICK n \in RoleNames, granted \in SUBSET PermissionNames : CreateRole(r, u, n, granted)
      <3>1. ASSUME NEW n \in PermissionNames, CreatePermission(r, u, n)
            PROVE  req'[r].op = "create_permission"
        BY <1>1, <3>1 DEF CreatePermission, Idle
      <3>2. ASSUME NEW n \in RoleNames, NEW g \in SUBSET PermissionNames, UpdateRole(r, u, n, g)
            PROVE  req'[r].op = "update_role"
        BY <1>1, <3>2 DEF UpdateRole, Idle
      <3>3. QED
        BY <1>3, <2>1, <3>1, <3>2, OpsOfCalls DEF CatalogCall, DeletePermission, DeleteRole
    <2>3. PICK role : role = [system |-> FALSE, grants |-> granted, deleted |-> FALSE] OBVIOUS
    <2> DEFINE names == <<<<n, role>>>>
               to == [Idle EXCEPT !.pc = "insert", !.op = "create_role", !.user = u,
                                  !.names = names]
    <2>4. req'[r] = to BY <1>1, <2>2, <2>3 DEF CreateRole
    <2>5. Len(names) = 1 /\ names[1] = <<n, role>> OBVIOUS
    <2> HIDE DEF names
    <2>6. to.op = "create_role" /\ to.names = names /\ to.new = NoRows BY DEF Idle
    <2> HIDE DEF to
    <2>7. Pending(to) = {<<n, role>>}
      <3>1. PICK pair : pair = <<n, role>> OBVIOUS
      <3>2. Len(names) = 1 /\ names[1] = pair BY <2>5, <3>1
      <3>3. Pending(to) = {pair} BY <2>6, <3>2 DEF Pending
      <3>4. QED BY <3>1, <3>3
    <2>8. NoSystemRole(to) BY <2>3, <2>6, <2>7, IdleFields DEF NoSystemRole
    <2>9. QED BY <2>4, <2>6, <2>8 DEF CatalogPlan
  <1>4. CASE req'[r].op \notin {"seed", "create_role"}
    <2>1. PICK q : q = req'[r] OBVIOUS
    <2>2. Footprint(q) BY <2>1 DEF Base, Fits
    <2>3. QED BY <1>4, <2>1, <2>2, NoRolesElsewhere DEF CatalogPlan
  <1>5. QED BY <1>2, <1>3, <1>4

\* A row that is inserted by name is no longer pending.
LEMMA InsertNamePlansCatalog ==
  ASSUME Base, NEW r \in Requests, InsertName(r), req'[r] # Idle, CatalogPlan(req[r])
  PROVE  CatalogPlan(req'[r])
  <1>1. PICK name, record :
          /\ req[r].names # <<>> /\ <<name, record>> = Head(req[r].names)
          /\ Pending(req[r]) = {<<name, record>>} \cup Pending(req'[r])
          /\ row[name] = None /\ \A q \in Requests \ {r} : name \notin DOMAIN req[q].new
          /\ DOMAIN req'[r].new = DOMAIN req[r].new \cup {name}
          /\ \A x \in DOMAIN req'[r].new :
                \/ x \in DOMAIN req[r].new /\ req'[r].new[x] = req[r].new[x]
                \/ x = name /\ req'[r].new[x] = record
          /\ req'[r].pc = req[r].next /\ req'[r].op = req[r].op /\ req'[r].arg = req[r].arg
          /\ req'[r].next = req[r].next /\ req'[r].todo = req[r].todo
          /\ req'[r].hold = req[r].hold /\ req'[r].data = req[r].data
    BY InsertNameFields
  <1>2. PICK p, q : p = req[r] /\ q = req'[r] OBVIOUS
  <1> DEFINE first == <<name, record>>
  <1>3. /\ Pending(p) = {first} \cup Pending(q)
        /\ DOMAIN q.new = DOMAIN p.new \cup {name}
        /\ \A x \in DOMAIN q.new : \/ x \in DOMAIN p.new /\ q.new[x] = p.new[x]
                                   \/ x = name /\ q.new[x] = record
        /\ q.op = p.op /\ CatalogPlan(p)
    BY <1>1, <1>2
  <1>4. first[1] = name /\ first[2] = record OBVIOUS
  <1> HIDE DEF first
  <1>5. \A y : Secured(p, y) => Secured(q, y) BY <1>3, <1>4 DEF Secured
  <1>6. NoSystemRole(p) => NoSystemRole(q)
    <2> SUFFICES ASSUME NoSystemRole(p) PROVE NoSystemRole(q) OBVIOUS
    <2>1. name \in RoleNames => ~record.system BY <1>3, <1>4 DEF NoSystemRole
    <2>2. QED BY <1>3, <2>1 DEF NoSystemRole
  <1>7. QED BY <1>2, <1>3, <1>5, <1>6 DEF CatalogPlan

\* Every step keeps the plans.
LEMMA StepKeepsCatalogPlans ==
  ASSUME Base, Base', CatalogFits, [Next]_all
  PROVE  (\A r \in Requests : CatalogPlan(req[r]))'
  <1>1. ASSUME NEW r \in Requests PROVE CatalogPlan(req'[r])
    <2>1. PICK p, q : p = req[r] /\ q = req'[r] OBVIOUS
    <2>2. CatalogPlan(p) /\ Footprint(q) BY <2>1 DEF CatalogFits, Base, Fits
    <2>3. CASE q = p BY <2>1, <2>2, <2>3
    <2>4. CASE q.op \notin {"seed", "create_role"}
      BY <2>1, <2>2, <2>4, NoRolesElsewhere DEF CatalogPlan
    <2>5. CASE q = Idle
      <3>1. Idle.op \notin {"seed", "create_role"}
        BY IdleFields, NothingAssumption DEF Routes, CatalogRoutes
      <3>2. QED BY <2>4, <2>5, <3>1
    <2>6. CASE Call(r) BY <2>6, CallsPlanCatalog
    <2>7. CASE Write(r)
      <3>1. q.op = p.op /\ p.pc = "write" /\ InProgram(p)
        BY <2>1, <2>7, WriteFields DEF Base, Fits
      <3>2. QED BY <2>4, <3>1 DEF InProgram, NamingRoutes
    <2>8. CASE InsertName(r) BY <2>1, <2>2, <2>5, <2>8, InsertNamePlansCatalog
    <2>9. CASE LookUpName(r)
      <3>1. /\ q.new = p.new /\ q.op = p.op
            /\ \A n \in Pending(p) : n \in Pending(q) \/ row[n[1]] # None
            /\ \A n \in Pending(q) : n \in Pending(p)
        BY <2>1, <2>9, LookUpNameFields
      <3>2. \A y : Secured(p, y) => Secured(q, y) BY <3>1 DEF Secured
      <3>3. NoSystemRole(p) => NoSystemRole(q) BY <3>1 DEF NoSystemRole
      <3>4. CatalogPlan(q) BY <2>2, <3>1, <3>2, <3>3 DEF CatalogPlan
      <3>5. QED BY <2>1, <3>4
    <2>10. CASE AddVersion(r) \/ ChangeLinks(r) \/ AccountStep(r)
      BY <2>1, <2>4, <2>5, <2>10, RoutesOfSteps
    <2>11. QED BY <2>1, <2>3, <2>5, <2>6, <2>7, <2>8, <2>9, <2>10, RequestSteps
  <1>2. ASSUME NEW r \in Requests PROVE CatalogPlan(req[r])'
    <2>1. PICK q : q = req'[r] OBVIOUS
    <2>2. QED BY <1>1, <2>1, PlanStays
  <1>3. QED BY <1>2

\* A system role comes with all defaults.
LEMMA StepKeepsSeedWhole ==
  ASSUME Base, CatalogFits, [Next]_all
  PROVE  SeedIsWhole'
  <1> SUFFICES ASSUME Seeded', NEW i \in 1..Len(Defaults) PROVE row'[Defaults[i]] # None
    BY DEF SeedIsWhole
  <1>1. PICK n \in RoleNames : row'[n] # None /\ row'[n].system BY DEF Seeded
  <1>2. n \in Ids /\ Kind(n) = "role" BY KindsOfRows
  <1>3. Defaults[i] \in Ids
    <2>1. Defaults[i] \in PermissionNames \cup DOMAIN DefaultGrants BY DefaultsAssumption
    <2>2. QED BY <2>1, DefaultsAssumption, KindsOfRows
  <1>4. CASE row[n] # None
    <2>1. row[n] \in Role BY <1>2, <1>4, RecordsOfTables DEF Base, RowsFit, WellFormed
    <2>2. "system" \in DOMAIN row[n] /\ "system" \notin Updatable("role")
      BY <2>1 DEF Role, Updatable
    <2>3. row'[n]["system"] = row[n]["system"] BY <1>2, <1>4, <2>2, FixedColumns
    <2>4. Seeded BY <1>1, <1>4, <2>3 DEF Seeded
    <2>5. row[Defaults[i]] # None BY <2>4 DEF CatalogFits, SeedIsWhole
    <2>6. QED BY <1>3, <2>5, FixedColumns
  <1>5. CASE row[n] = None
    <2>1. PICK r \in Requests :
            /\ Commit(r) /\ n \in DOMAIN req[r].new /\ row'[n] = req[r].new[n]
            /\ req[r].pc = "done"
      BY <1>1, <1>2, <1>5, RowsAppearAtCommit
    <2>2. PICK q : q = req[r] OBVIOUS
    <2>3. CatalogPlan(q) /\ InProgram(q) BY <2>2 DEF CatalogFits, Base, Fits
    <2>4. q.op = "seed" BY <1>1, <2>1, <2>2, <2>3 DEF CatalogPlan, NoSystemRole
    <2>5. Secured(q, Defaults[i]) BY <2>3, <2>4 DEF CatalogPlan
    <2>6. Pending(q) = {} BY <2>1, <2>2, <2>3 DEF InProgram, Pending
    <2>7. row[Defaults[i]] # None \/ Defaults[i] \in DOMAIN req[r].new
      BY <2>2, <2>5, <2>6 DEF Secured
    <2>8. QED BY <1>3, <2>1, <2>7, CommittedRows
  <1>6. QED BY <1>4, <1>5

\* CatalogFits holds in every state.
THEOREM CatalogInvariance == Spec => []CatalogFits
  <1>1. Init => CatalogFits
    <2> SUFFICES ASSUME Init PROVE CatalogFits OBVIOUS
    <2>1. Idle.op \notin {"seed", "create_role"}
      BY IdleFields, NothingAssumption DEF Routes, CatalogRoutes
    <2>2. Pending(Idle) = {} BY IdleFields DEF Pending
    <2>3. NoSystemRole(Idle) BY <2>2, IdleFields DEF NoSystemRole
    <2>4. \A r \in Requests : CatalogPlan(req[r]) BY <2>1, <2>3 DEF Init, CatalogPlan
    <2>5. \A n \in RoleNames : row[n] = None BY KindsOfRows DEF Init
    <2>6. SeedIsWhole BY <2>5 DEF SeedIsWhole, Seeded
    <2>7. QED BY <2>4, <2>6 DEF CatalogFits
  <1>2. Base /\ Base' /\ CatalogFits /\ [Next]_all => CatalogFits'
    BY StepKeepsCatalogPlans, StepKeepsSeedWhole DEF CatalogFits
  <1>3. QED BY <1>1, <1>2, BaseInvariance, PTL DEF Spec

\* With one system role there are all default permissions and roles: a seed commits all of them
\* or none, whatever fails and however many workers start together.
THEOREM SeedsAreWhole == Spec => []SeedIsWhole
  <1>1. CatalogFits => SeedIsWhole BY DEF CatalogFits
  <1>2. QED BY <1>1, CatalogInvariance, PTL
=============================================================================
