------------------------------ MODULE Repository ------------------------------
(***************************************************************************)
(* The base repository and the session of a request: app/common and        *)
(* app/core/database.py.  The modules of the vault, the notifications, the *)
(* labels, the memos, the projects, the events and the role catalog build  *)
(* their routes from it; Workspace puts them together.                     *)
(*                                                                         *)
(* A request is one transaction at READ COMMITTED.  A call is modelled     *)
(* with its SELECTs up to the last before the first statement that writes: *)
(* what an earlier one has found is still so, since no row is undeleted    *)
(* and no row goes away.  Each UPDATE is a step that waits for the row;    *)
(* INSERTs show at the commit only and are made with the step before,      *)
(* except those that wait for a unique name.  Commit publishes everything. *)
(***************************************************************************)
EXTENDS Naturals, FiniteSets, Sequences

CONSTANTS
    Users,
    Managers,       \* users whose roles grant every permission in the organization
    Requests,       \* requests the server works on at the same time
    Ids,            \* primary keys, of all tables
    Suites,         \* sets of routes that clients use together
    None            \* SQL NULL, "no such row", "not set"

ASSUME ManagersAssumption == Managers \subseteq Users
ASSUME NoneAssumption == None \notin Users \cup Ids

VARIABLES
    row,    \* the tables, as committed; None: no row
    log,    \* vault_access_logs, as committed: <<entry, user, action>>
    req,    \* the requests at work
    suite   \* the routes that clients use in this behaviour

tables == <<row, log>>
vars == <<row, log, req, suite>>

NoColumns == [c \in {} |-> None]
NoRows == [x \in {} |-> None]

\* One row, and the rows of two INSERTs.
Row(x, record) == [y \in {x} |-> record]
Both(f, g) == [x \in DOMAIN f \cup DOMAIN g |-> IF x \in DOMAIN f THEN f[x] ELSE g[x]]

\* data: columns that the UPDATE sets; todo: rows still to update; hold: those updated;
\* next: where the request goes after its updates; new: rows inserted; logged: log rows
\* inserted; names: rows to insert by name, <<name, row>>, in this order; links:
\* role_permissions to add to the role `of` and to remove from it; arg: of an account's mail.
Idle == [pc |-> "idle", op |-> None, user |-> None, data |-> NoColumns, todo |-> {}, hold |-> {},
         next |-> "done", new |-> NoRows, logged |-> {}, names |-> <<>>,
         links |-> [of |-> None, add |-> {}, remove |-> {}],
         arg |-> None]

-----------------------------------------------------------------------------
\* deleted_at IS NULL.
Live(x) == row[x] # None /\ ~row[x].deleted
All(T) == {x \in T : Live(x)}

\* Ids that uuid4 may return.  They are interchangeable: a call takes one of them.
Fresh(T) == {x \in T : row[x] = None /\ \A q \in Requests : x \notin DOMAIN req[q].new}
Some(T) == CHOOSE x \in Fresh(T) : TRUE

At(r, pc) == req[r].pc = pc

Continue(r, to) ==
    /\ req' = [req EXCEPT ![r] = to]
    /\ UNCHANGED <<tables, suite>>
Abort(r) == Continue(r, Idle)

Begin(r, call) ==
    /\ At(r, "idle")
    /\ call.op \in suite
    /\ Continue(r, call)

\* Variant: the UPDATE writes back every column that has been read.
ChangedAll(x, data) ==
    [c \in DOMAIN row[x] |-> IF c \in DOMAIN data THEN data[c] ELSE row[x][c]]

\* setattr marks a column only if its value differs from the one read.
Changed(x, data) == [c \in {d \in DOMAIN data : data[d] # row[x][d]} |-> data[c]]

\* create of a row; its key is new.
Create(r, op, u, T, record) ==
    /\ Fresh(T) # {}
    /\ Begin(r, [Idle EXCEPT !.pc = "done", !.op = op, !.user = u, !.new = Row(Some(T), record)])

\* update: bump_version makes it send an UPDATE whatever the columns.
Update(r, op, u, x, data) ==
    /\ Live(x)
    /\ Begin(r, [Idle EXCEPT !.pc = "write", !.op = op, !.user = u, !.data = Changed(x, data),
                             !.todo = {x}])

\* delete_soft.
DeleteSoft(r, op, u, x) ==
    Begin(r, [Idle EXCEPT !.pc = "write", !.op = op, !.user = u, !.data = [deleted |-> TRUE],
                          !.todo = {x}])

-----------------------------------------------------------------------------
\* An UPDATE of row x waits for the transaction that has updated it.
Waits(r, x) == \E q \in Requests \ {r} : x \in req[q].hold

\* The UPDATE of one row.
Write(r) ==
    /\ At(r, "write")
    /\ \E x \in req[r].todo :
          LET rest == req[r].todo \ {x}
          IN  /\ ~Waits(r, x)
              /\ Continue(r, [req[r] EXCEPT !.pc = IF rest = {} THEN req[r].next ELSE @,
                                            !.todo = rest, !.hold = @ \cup {x}])

\* An INSERT waits for one of the same name, and fails if a row has the name.
InsertName(r) ==
    /\ At(r, "insert")
    /\ LET name == Head(req[r].names)[1]
           record == Head(req[r].names)[2]
       IN  /\ \A q \in Requests \ {r} : name \notin DOMAIN req[q].new
           /\ IF row[name] # None THEN Abort(r)
              ELSE Continue(r, [req[r] EXCEPT !.pc = req[r].next, !.names = Tail(@),
                                              !.new = Both(@, Row(name, record))])

Written(x, data) == [c \in DOMAIN x |-> IF c \in DOMAIN data THEN data[c] ELSE x[c]]

\* What row x becomes with the commit of request r.
RowOf(r, x) ==
    CASE x \in DOMAIN req[r].new -> req[r].new[x]
      [] x \in req[r].hold -> Written(row[x], req[r].data)
      [] x = req[r].links.of ->
             [row[x] EXCEPT !.grants = (@ \ req[r].links.remove) \cup req[r].links.add]
      [] OTHER -> row[x]

\* Variant: every row that is inserted is committed by itself.
CommitInParts(r) ==
    /\ At(r, "done")
    /\ IF DOMAIN req[r].new = {}
       THEN /\ row' = [x \in Ids |-> RowOf(r, x)]
            /\ log' = log \cup req[r].logged
            /\ req' = [req EXCEPT ![r] = Idle]
       ELSE /\ \E x \in DOMAIN req[r].new :
                 /\ row' = [row EXCEPT ![x] = req[r].new[x]]
                 /\ req' = [req EXCEPT ![r] =
                              [@ EXCEPT !.new = [y \in DOMAIN req[r].new \ {x} |-> req[r].new[y]]]]
            /\ UNCHANGED log
    /\ UNCHANGED suite

\* session.begin() commits when the route has returned.
Commit(r) ==
    /\ At(r, "done")
    /\ row' = [x \in Ids |-> RowOf(r, x)]
    /\ log' = log \cup req[r].logged
    /\ req' = [req EXCEPT ![r] = Idle]
    /\ UNCHANGED suite

\* The client goes away, a statement fails, a deadlock is broken, the worker stops.
Cancel(r) == ~At(r, "idle") /\ Abort(r)
=============================================================================
