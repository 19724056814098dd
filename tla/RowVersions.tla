------------------------------ MODULE RowVersions ------------------------------
(***************************************************************************)
(* The column `version` of VersionMixin, for projects and tasks.           *)
(*                                                                         *)
(* A request loads the version of a row with its other columns, and        *)
(* BaseRepository.update writes the one after it.  The UPDATE names the    *)
(* row by its id alone: nothing compares the version that was read with    *)
(* the one that stands there when the UPDATE has waited for another one.   *)
(***************************************************************************)
EXTENDS Projects

CONSTANT MaxVersion     \* bound: the version from which rows are not updated any more

VARIABLES
    version,    \* the column version of each row, as committed
    read,       \* of each request: the versions when it was called
    seen        \* of each request: the rows when it was called

versions == <<version, read, seen>>
all == <<vars, versions>>

\* The routes that end in BaseRepository.update.  delete_soft bumps nothing.
Bumping == {"update_project", "archive_project", "restore_project", "update_task"}

\* The rows that the commit of r publishes by an update.
Updated(r) == IF req[r].op \in Bumping THEN req[r].hold ELSE {}

Init ==
    /\ row = [x \in Ids |-> None]
    /\ log = {}
    /\ req = [r \in Requests |-> Idle]
    /\ suite \in Suites
    /\ version = [x \in Ids |-> 0]
    /\ read = [r \in Requests |-> version]
    /\ seen = [r \in Requests |-> row]

\* A client calls a route, which loads the row it is going to write.
Load(r) ==
    /\ \A x \in Ids : version[x] < MaxVersion
    /\ \E u \in Users : ProjectCall(r, u)
    /\ read' = [read EXCEPT ![r] = version]
    /\ seen' = [seen EXCEPT ![r] = row]
    /\ UNCHANGED version

\* bump_version adds one to the version in the object, as it was read.
Publish(r) ==
    /\ Commit(r)
    /\ version' = [x \in Ids |-> IF x \in Updated(r) THEN read[r][x] + 1 ELSE version[x]]
    /\ UNCHANGED <<read, seen>>

Next == \E r \in Requests :
    \/ Load(r) \/ Publish(r)
    \/ (Write(r) \/ Cancel(r)) /\ UNCHANGED versions

Spec == Init /\ [][Next]_all

-----------------------------------------------------------------------------
\* The commit of r writes over a change of row x that r has not seen.
Overwrites(r, x) ==
    \E c \in DOMAIN row[x] : row'[x][c] # row[x][c] /\ row[x][c] # seen[r][x][c]

\* Expected by "optimistic locking (`version`)" (ARCHITECTURE.md:100): a request whose update
\* writes over a change that it has not seen still finds the version that it has read, which
\* is to say that there is no such request, since every update bumps the version.  It does
\* not hold: the second of two updates that have read one version writes over the first.
OptimisticLocking ==
    [][\A r \in Requests : At(r, "done") /\ At(r, "idle")' =>
          \A x \in Updated(r) : Overwrites(r, x) => version[x] = read[r][x]]_all
=============================================================================
