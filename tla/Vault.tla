-------------------------------- MODULE Vault --------------------------------
(***************************************************************************)
(* Vault entries, their shares and the log of accesses to them, app/vault, *)
(* and the notifications that a share sends, app/notifications.            *)
(*                                                                         *)
(* The entries belong to one organization.  The encrypted fields, title    *)
(* and the others that an update may change are one value.  Categories and *)
(* tags are in Labels.                                                     *)
(***************************************************************************)
EXTENDS Repository

CONSTANTS
    Entries, Shares, Notifications,     \* ids
    Owner,          \* owner of the organization
    Assigned,       \* users with one row in user_roles for it, removed or not
    Values          \* values of columns that clients set

Entry == [owner : Users, value : Values, deleted : BOOLEAN]
\* user: None for a share with a team, which no check reads; expired: expires_at has passed.
Share == [entry : Entries, user : Users \cup {None}, expired : BOOLEAN, deleted : BOOLEAN]
Notification == [user : Users, entry : Entries, read : BOOLEAN, deleted : BOOLEAN]
Actions == {"create", "view", "update", "delete", "share"}

VaultRoutes == {"create_entry", "get_entry", "update_entry", "delete_entry", "share_entry"}
NotificationRoutes == {"mark_read", "mark_all_read"}

\* The shares that get_share selects; it raises if there are several.
SharesWith(e, u) == {s \in All(Shares) : row[s].entry = e /\ row[s].user = u}

\* require_vault_permission and _check_access.
MayRead(e, u) ==
    \/ row[e].owner = u
    \/ \E s \in Shares : SharesWith(e, u) = {s} /\ ~row[s].expired

-----------------------------------------------------------------------------
(***************************************************************************)
(* Entries                                                                 *)
(***************************************************************************)
\* A second row in user_roles, in a team say, makes scalar_one_or_none raise.
CreateEntry(r, u, v) ==
    /\ u = Owner \/ u \in Assigned
    /\ Fresh(Entries) # {}
    /\ LET e == Some(Entries)
       IN  Begin(r, [Idle EXCEPT !.pc = "done", !.op = "create_entry", !.user = u,
                                 !.new = Row(e, [owner |-> u, value |-> v, deleted |-> FALSE]),
                                 !.logged = {<<e, u, "create">>}])

\* A request that updates entry e and inserts a row of the log.
OnEntry(r, op, u, e, data, action) ==
    /\ Live(e)
    /\ Begin(r, [Idle EXCEPT !.pc = "write", !.op = op, !.user = u, !.data = data, !.todo = {e},
                             !.logged = {<<e, u, action>>}])

\* The UPDATE is that of last_accessed_at, left out, and of version.
GetEntry(r, u, e) ==
    /\ Live(e) /\ MayRead(e, u)
    /\ OnEntry(r, "get_entry", u, e, NoColumns, "view")

\* A share with permission "write" passes the dependency of the route; the service refuses
\* all but the owner.
UpdateEntry(r, u, e, v) ==
    /\ Live(e) /\ row[e].owner = u
    /\ OnEntry(r, "update_entry", u, e, Changed(e, [value |-> v]), "update")

DeleteEntry(r, u, e) ==
    /\ Live(e) /\ row[e].owner = u
    /\ OnEntry(r, "delete_entry", u, e, [deleted |-> TRUE], "delete")

-----------------------------------------------------------------------------
(***************************************************************************)
(* Sharing                                                                 *)
(***************************************************************************)
ShareRow(e, v) == [entry |-> e, user |-> v, expired |-> FALSE, deleted |-> FALSE]
Announcement(e, v) == [user |-> v, entry |-> e, read |-> FALSE, deleted |-> FALSE]

\* Variant: whoever the entry is shared with may share it further.
ShareByReader(r, u, e, v) ==
    /\ Live(e) /\ MayRead(e, u)
    /\ SharesWith(e, v) = {} /\ Fresh(Shares) # {} /\ Fresh(Notifications) # {}
    /\ Begin(r, [Idle EXCEPT !.pc = "done", !.op = "share_entry", !.user = u,
                             !.new = Both(Row(Some(Shares), ShareRow(e, v)),
                                          Row(Some(Notifications), Announcement(e, v))),
                             !.logged = {<<e, u, "share">>}])

ShareEntry(r, u, e, v) ==
    /\ Live(e) /\ row[e].owner = u
    /\ v # None => SharesWith(e, v) = {}
    /\ Fresh(Shares) # {} /\ Fresh(Notifications) # {}
    /\ Begin(r, [Idle EXCEPT !.pc = "done", !.op = "share_entry", !.user = u,
                             !.new = IF v = None THEN Row(Some(Shares), ShareRow(e, v))
                                     ELSE Both(Row(Some(Shares), ShareRow(e, v)),
                                               Row(Some(Notifications), Announcement(e, v))),
                             !.logged = {<<e, u, "share">>}])

\* expires_at of a share passes.
Expire(s) ==
    /\ row[s] # None /\ ~row[s].expired
    /\ row' = [row EXCEPT ![s].expired = TRUE]
    /\ UNCHANGED <<log, req, suite>>

-----------------------------------------------------------------------------
(***************************************************************************)
(* Notifications                                                           *)
(***************************************************************************)
Unread(u) == {n \in All(Notifications) : row[n].user = u /\ ~row[n].read}

\* One that is read already changes no column, and the flush sends nothing.
MarkRead(r, u, n) ==
    /\ n \in Unread(u)
    /\ Begin(r, [Idle EXCEPT !.pc = "write", !.op = "mark_read", !.user = u,
                             !.data = [read |-> TRUE], !.todo = {n}])

\* One UPDATE of many rows, which it locks one after the other in an order that is
\* PostgreSQL's.
MarkAllRead(r, u) ==
    /\ Unread(u) # {}
    /\ Begin(r, [Idle EXCEPT !.pc = "write", !.op = "mark_all_read", !.user = u,
                             !.data = [read |-> TRUE], !.todo = Unread(u)])

VaultCall(r, u) ==
    \/ \E v \in Values : CreateEntry(r, u, v)
    \/ \E e \in Entries :
          \/ GetEntry(r, u, e) \/ DeleteEntry(r, u, e)
          \/ \E v \in Values : UpdateEntry(r, u, e, v)
          \/ \E v \in Users \cup {None} : ShareEntry(r, u, e, v)
    \/ \E n \in Notifications : MarkRead(r, u, n)
    \/ MarkAllRead(r, u)
=============================================================================
