---------------------------- MODULE AuthSessions ----------------------------
(***************************************************************************)
(* Sign-in sessions of app/auth: the refresh_sessions and users rows in    *)
(* PostgreSQL, the keys AuthService keeps in Redis, and the requests that  *)
(* read the one and write the other.                                       *)
(*                                                                         *)
(* A request is one asyncio task.  It gives up control at every await, so  *)
(* each SQL statement and each Redis command is a step of its own.  Its    *)
(* SQL writes belong to one transaction (get_db): nobody sees them before  *)
(* Commit, they are undone by Raise or Crash, and until then they hold the *)
(* row lock that another UPDATE of the row waits for.  PostgreSQL runs at  *)
(* READ COMMITTED.  Redis writes are seen at once and are never undone.    *)
(* get_db commits after the response has been sent, so Respond comes       *)
(* before Commit.                                                          *)
(*                                                                         *)
(* A session id stands for the row, for the token_hash, for the refresh    *)
(* token and for the access token (jti) made with it: service.login and    *)
(* service.refresh make one of each.  Users are active and verified, as    *)
(* no route undoes either.  Access tokens do not expire here.              *)
(***************************************************************************)
EXTENDS Naturals, FiniteSets

CONSTANTS
    Users, Sessions, ResetTokens,
    Requests,               \* requests the server works on at the same time
    None,                   \* SQL NULL, "no such row", "not set"
    Operations,             \* the routes that are called, and "expiry" if time passes
    MaxLoginAttempts,       \* settings.max_login_attempts
    MaxCrashes              \* bound: requests that die before they end

Revoking == {"revoke_sessions", "change_password", "reset_password"}
Routes == {"login", "failed_login", "refresh", "logout", "forgot_password"} \cup Revoking

\* What a transaction may have written to the users row.
Writes == {"signin", "lock", "note", "password"}

ASSUME NoneAssumption ==
    None \notin Users \cup Sessions \cup ResetTokens \cup Routes \cup Writes
ASSUME OperationsAssumption == Operations \subseteq Routes \cup {"expiry"}
ASSUME BoundAssumption == MaxLoginAttempts \in Nat \ {0} /\ MaxCrashes \in Nat

VARIABLES
    owner,      \* refresh_sessions.user_id of each committed row, None: no row
    revoked,    \* rows with revoked_at set
    expired,    \* rows with expires_at in the past
    locked,     \* users with locked_until in the future
    cached,     \* Redis keys refresh:{token_hash}
    index,      \* Redis sets user_sessions:{user_id}
    attempts,   \* Redis counters login_attempts:{email}
    blacklist,  \* Redis keys blacklist:{jti}
    resets,     \* Redis keys password_reset:{token}, with the user they name
    req,        \* the requests at work
    issued,     \* tokens a client has received, with the user they name
    minted,     \* history: session ids (uuid4) made so far
    parent,     \* history: the session a committed row was refreshed from
    crashes     \* history: requests that died

postgres == <<owner, revoked, expired, locked>>
redis == <<cached, index, attempts, blacklist, resets>>
history == <<minted, parent, crashes>>
vars == <<postgres, redis, req, issued, history>>

Idle == [pc |-> "idle", op |-> None, user |-> None, old |-> None, new |-> None,
         token |-> None, rows |-> {}, hits |-> {}, seen |-> {}, write |-> None]

\* What a committed row says: RefreshSession.is_active.
Live(s) == owner[s] # None /\ s \notin revoked
IsActive(s) == Live(s) /\ s \notin expired

\* Row locks of other transactions, which an UPDATE of the row waits for.
SessionLocked(s, r) == \E q \in Requests \ {r} : s \in req[q].hits
UserLocked(u, r) == \E q \in Requests \ {r} : req[q].user = u /\ req[q].write # None

At(r, pc) == req[r].pc = pc
Goto(r, pc) == req' = [req EXCEPT ![r].pc = pc]
Begin(r, call, pc) ==
    /\ At(r, "idle")
    /\ call.op \in Operations
    /\ req' = [req EXCEPT ![r] = [call EXCEPT !.pc = pc]]

\* Bound: login and refresh are called while ids are left for the rows they insert.
Opening == {"login", "refresh"}
Room ==
    LET waiting == {q \in Requests : req[q].op \in Opening /\ req[q].new = None}
    IN  Cardinality(minted) + Cardinality(waiting) < Cardinality(Sessions)

\* get_current_active_user: an access token that is not blacklisted, of a user
\* who is not locked.  The refresh session of the token is not looked at.
Authenticated(u) ==
    /\ \E a \in Sessions \ blacklist : issued[a] = u
    /\ u \notin locked

-----------------------------------------------------------------------------
(***************************************************************************)
(* login                                                                   *)
(***************************************************************************)
\* The user is read and the password is right.
Login(r, u) ==
    /\ u \notin locked
    /\ Room
    /\ Begin(r, [Idle EXCEPT !.op = "login", !.user = u], "touch")
    /\ UNCHANGED <<postgres, redis, issued, history>>

\* The user is read and the password is wrong.
LoginWrongPassword(r, u) ==
    /\ u \notin locked
    /\ Begin(r, [Idle EXCEPT !.op = "failed_login", !.user = u], "count")
    /\ UNCHANGED <<postgres, redis, issued, history>>

\* INCR and EXPIRE; the counter is not told apart above the threshold.
CountFailure(r) ==
    LET u == req[r].user
        n == IF attempts[u] < MaxLoginAttempts THEN attempts[u] + 1 ELSE attempts[u]
    IN  /\ At(r, "count")
        /\ attempts' = [attempts EXCEPT ![u] = n]
        /\ Goto(r, IF n >= MaxLoginAttempts THEN "lock" ELSE "note")
        /\ UNCHANGED <<postgres, cached, index, blacklist, resets, issued, history>>

\* UPDATE users: failed_login_attempts and, past the threshold, locked_until.
RecordFailure(r) ==
    /\ req[r].pc \in {"lock", "note"}
    /\ ~UserLocked(req[r].user, r)
    /\ req' = [req EXCEPT ![r] = [@ EXCEPT !.pc = "raise", !.write = req[r].pc]]
    /\ UNCHANGED <<postgres, redis, issued, history>>

\* Variant: the transaction is left open.
RaiseKeepsLock(r) ==
    /\ At(r, "raise")
    /\ req' = [req EXCEPT ![r].pc = "idle"]
    /\ UNCHANGED <<postgres, redis, issued, history>>

\* login raises InvalidCredentialsException, which ends the transaction of
\* get_db with a ROLLBACK.
Raise(r) ==
    /\ At(r, "raise")
    /\ req' = [req EXCEPT ![r] = Idle]
    /\ UNCHANGED <<postgres, redis, issued, history>>

\* Variant: nothing has changed in the users row, so no UPDATE is sent.
TouchWithoutUpdate(r) ==
    /\ At(r, "touch")
    /\ Goto(r, "clear")
    /\ UNCHANGED <<postgres, redis, issued, history>>

\* record_successful_login and UPDATE users.
TouchUser(r) ==
    /\ At(r, "touch")
    /\ ~UserLocked(req[r].user, r)
    /\ req' = [req EXCEPT ![r] = [@ EXCEPT !.pc = "clear", !.write = "signin"]]
    /\ UNCHANGED <<postgres, redis, issued, history>>

\* Variant: the session is stored in Redis before its row is inserted.
ClearThenCache(r) ==
    /\ At(r, "clear")
    /\ attempts' = [attempts EXCEPT ![req[r].user] = 0]
    /\ Goto(r, "cache")
    /\ UNCHANGED <<postgres, cached, index, blacklist, resets, issued, history>>

ClearAttempts(r) ==
    /\ At(r, "clear")
    /\ attempts' = [attempts EXCEPT ![req[r].user] = 0]
    /\ Goto(r, "insert")
    /\ UNCHANGED <<postgres, cached, index, blacklist, resets, issued, history>>

(***************************************************************************)
(* A new session, at the end of login and refresh                          *)
(***************************************************************************)
InsertSession(r) ==
    /\ At(r, "insert")
    /\ \E s \in Sessions \ minted :
          /\ minted' = minted \cup {s}
          /\ req' = [req EXCEPT ![r] = [@ EXCEPT !.pc = "cache", !.new = s]]
    /\ UNCHANGED <<postgres, redis, issued, parent, crashes>>

CacheSession(r) ==
    /\ At(r, "cache")
    /\ cached' = cached \cup {req[r].new}
    /\ Goto(r, "index")
    /\ UNCHANGED <<postgres, index, attempts, blacklist, resets, issued, history>>

IndexSession(r) ==
    /\ At(r, "index")
    /\ index' = [index EXCEPT ![req[r].user] = @ \cup {req[r].new}]
    /\ Goto(r, "respond")
    /\ UNCHANGED <<postgres, cached, attempts, blacklist, resets, issued, history>>

-----------------------------------------------------------------------------
(***************************************************************************)
(* refresh and logout                                                      *)
(***************************************************************************)
Refresh(r, s) ==
    /\ issued[s] # None
    /\ IsActive(s)
    /\ Room
    /\ Begin(r, [Idle EXCEPT !.op = "refresh", !.user = owner[s], !.old = s], "revoke")
    /\ UNCHANGED <<postgres, redis, issued, history>>

\* The row is looked up; without one only the access token is dealt with.  The
\* access token may be of another session: nothing compares the two.
Logout(r, s, a) ==
    /\ issued[s] # None
    /\ issued[a] # None
    /\ Begin(r, [Idle EXCEPT !.op = "logout", !.user = issued[s], !.old = s, !.token = a],
             IF owner[s] # None THEN "revoke" ELSE "blacklist")
    /\ UNCHANGED <<postgres, redis, issued, history>>

\* Variant: revoked_at is set on the object and not flushed.
RevokeInMemory(r) ==
    /\ At(r, "revoke")
    /\ Goto(r, "uncache")
    /\ UNCHANGED <<postgres, redis, issued, history>>

\* UPDATE refresh_sessions SET revoked_at = now WHERE id = old.
RevokeOld(r) ==
    /\ At(r, "revoke")
    /\ ~SessionLocked(req[r].old, r)
    /\ req' = [req EXCEPT ![r] = [@ EXCEPT !.pc = "uncache", !.hits = {req[r].old}]]
    /\ UNCHANGED <<postgres, redis, issued, history>>

\* Variant: the key of the old token is left to its TTL.
KeepCached(r) ==
    /\ At(r, "uncache")
    /\ Goto(r, "unindex")
    /\ UNCHANGED <<postgres, redis, issued, history>>

UncacheOld(r) ==
    /\ At(r, "uncache")
    /\ cached' = cached \ {req[r].old}
    /\ Goto(r, "unindex")
    /\ UNCHANGED <<postgres, index, attempts, blacklist, resets, issued, history>>

UnindexOld(r) ==
    /\ At(r, "unindex")
    /\ index' = [index EXCEPT ![req[r].user] = @ \ {req[r].old}]
    /\ Goto(r, IF req[r].op = "refresh" THEN "insert" ELSE "blacklist")
    /\ UNCHANGED <<postgres, cached, attempts, blacklist, resets, issued, history>>

Blacklist(r) ==
    /\ At(r, "blacklist")
    /\ blacklist' = blacklist \cup {req[r].token}
    /\ Goto(r, "respond")
    /\ UNCHANGED <<postgres, cached, index, attempts, resets, issued, history>>

-----------------------------------------------------------------------------
(***************************************************************************)
(* revoke-sessions, change-password, reset-password: all three end in      *)
(* revoke_all_sessions                                                     *)
(***************************************************************************)
RevokeSessions(r, u) ==
    /\ Authenticated(u)
    /\ Begin(r, [Idle EXCEPT !.op = "revoke_sessions", !.user = u], "select")
    /\ UNCHANGED <<postgres, redis, issued, history>>

\* The user is read by get_current_user; the password sent is the one read.
ChangePassword(r, u) ==
    /\ Authenticated(u)
    /\ Begin(r, [Idle EXCEPT !.op = "change_password", !.user = u], "password")
    /\ UNCHANGED <<postgres, redis, issued, history>>

ForgotPassword(r, u, t) ==
    /\ resets[t] = None
    /\ At(r, "idle") /\ "forgot_password" \in Operations
    /\ resets' = [resets EXCEPT ![t] = u]
    /\ UNCHANGED <<postgres, cached, index, attempts, blacklist, req, issued, history>>

\* GET password_reset:{token}; the DEL is another command.
ResetPassword(r, t) ==
    /\ resets[t] # None
    /\ Begin(r, [Idle EXCEPT !.op = "reset_password", !.user = resets[t], !.token = t],
             "consume")
    /\ UNCHANGED <<postgres, redis, issued, history>>

ConsumeReset(r) ==
    /\ At(r, "consume")
    /\ resets' = [resets EXCEPT ![req[r].token] = None]
    /\ Goto(r, "password")
    /\ UNCHANGED <<postgres, cached, index, attempts, blacklist, issued, history>>

UpdatePassword(r) ==
    /\ At(r, "password")
    /\ ~UserLocked(req[r].user, r)
    /\ req' = [req EXCEPT ![r] = [@ EXCEPT !.pc = "select", !.write = "password"]]
    /\ UNCHANGED <<postgres, redis, issued, history>>

\* The UPDATE of revoke_all_for_user takes its snapshot: it will look at no row
\* committed later.
SelectSessions(r) ==
    LET rows == {s \in Sessions : owner[s] = req[r].user /\ Live(s)}
    IN  /\ At(r, "select")
        /\ req' = [req EXCEPT ![r] = [@ EXCEPT !.pc = "apply", !.rows = rows]]
        /\ UNCHANGED <<postgres, redis, issued, history>>

\* Variant: SKIP LOCKED.
ApplySkippingLocked(r) ==
    LET free == {s \in req[r].rows \ revoked : ~SessionLocked(s, r)}
    IN  /\ At(r, "apply")
        /\ req' = [req EXCEPT ![r] = [@ EXCEPT !.pc = "members", !.hits = free]]
        /\ UNCHANGED <<postgres, redis, issued, history>>

\* It waits for the rows other transactions have locked, and leaves alone those
\* they have revoked meanwhile.
ApplyRevocation(r) ==
    /\ At(r, "apply")
    /\ \A s \in req[r].rows : ~SessionLocked(s, r)
    /\ req' = [req EXCEPT ![r] =
                  [@ EXCEPT !.pc = "members", !.hits = req[r].rows \ revoked]]
    /\ UNCHANGED <<postgres, redis, issued, history>>

ReadIndex(r) ==
    LET seen == index[req[r].user]
        next == IF seen = {} THEN "respond" ELSE "drop"
    IN  /\ At(r, "members")
        /\ req' = [req EXCEPT ![r] = [@ EXCEPT !.pc = next, !.seen = seen]]
        /\ UNCHANGED <<postgres, redis, issued, history>>

DropCached(r) ==
    /\ At(r, "drop")
    /\ cached' = cached \ req[r].seen
    /\ Goto(r, "forget")
    /\ UNCHANGED <<postgres, index, attempts, blacklist, resets, issued, history>>

DropIndex(r) ==
    /\ At(r, "forget")
    /\ index' = [index EXCEPT ![req[r].user] = {}]
    /\ Goto(r, "respond")
    /\ UNCHANGED <<postgres, cached, attempts, blacklist, resets, issued, history>>

-----------------------------------------------------------------------------
(***************************************************************************)
(* The end of a request                                                    *)
(***************************************************************************)
\* The ids of the tokens in the response, and of the row it inserted.
Opened(r) == IF req[r].op \in Opening THEN {req[r].new} ELSE {}

Respond(r) ==
    /\ At(r, "respond")
    /\ issued' = [s \in Sessions |-> IF s \in Opened(r) THEN req[r].user ELSE issued[s]]
    /\ Goto(r, "commit")
    /\ UNCHANGED <<postgres, redis, history>>

\* Variant: get_db closes the session without a commit.
CloseWithoutCommit(r) ==
    /\ At(r, "commit")
    /\ req' = [req EXCEPT ![r] = Idle]
    /\ UNCHANGED <<postgres, redis, issued, history>>

Commit(r) ==
    LET u == req[r].user
        w == req[r].write
    IN  /\ At(r, "commit")
        /\ owner' = [s \in Sessions |-> IF s \in Opened(r) THEN u ELSE owner[s]]
        /\ revoked' = revoked \cup req[r].hits
        /\ locked' = CASE w = "signin" -> locked \ {u}
                       [] w = "lock" -> locked \cup {u}
                       [] OTHER -> locked
        /\ parent' = [s \in Sessions |-> IF s \in Opened(r) THEN req[r].old ELSE parent[s]]
        /\ req' = [req EXCEPT ![r] = Idle]
        /\ UNCHANGED <<expired, redis, issued, minted, crashes>>

\* The worker or its connection dies: the transaction is rolled back.
Crash(r) ==
    /\ ~At(r, "idle")
    /\ crashes < MaxCrashes
    /\ crashes' = crashes + 1
    /\ req' = [req EXCEPT ![r] = Idle]
    /\ UNCHANGED <<postgres, redis, issued, minted, parent>>

(***************************************************************************)
(* Time: expires_at passes, and the TTL of the Redis keys runs out         *)
(***************************************************************************)
SessionExpires(s) ==
    /\ "expiry" \in Operations
    /\ owner[s] # None
    /\ s \notin expired
    /\ expired' = expired \cup {s}
    /\ cached' = cached \ {s}
    /\ UNCHANGED <<owner, revoked, locked, index, attempts, blacklist, resets,
                   req, issued, history>>

AttemptsExpire(u) ==
    /\ "expiry" \in Operations
    /\ attempts[u] # 0
    /\ attempts' = [attempts EXCEPT ![u] = 0]
    /\ UNCHANGED <<postgres, cached, index, blacklist, resets, req, issued, history>>

ResetExpires(t) ==
    /\ "expiry" \in Operations
    /\ resets[t] # None
    /\ resets' = [resets EXCEPT ![t] = None]
    /\ UNCHANGED <<postgres, cached, index, attempts, blacklist, req, issued, history>>

-----------------------------------------------------------------------------
Init ==
    /\ owner = [s \in Sessions |-> None]
    /\ revoked = {} /\ expired = {} /\ locked = {}
    /\ cached = {} /\ blacklist = {}
    /\ index = [u \in Users |-> {}]
    /\ attempts = [u \in Users |-> 0]
    /\ resets = [t \in ResetTokens |-> None]
    /\ req = [r \in Requests |-> Idle]
    /\ issued = [s \in Sessions |-> None]
    /\ minted = {}
    /\ parent = [s \in Sessions |-> None]
    /\ crashes = 0

\* A client calls a route.
Call(r) ==
    \/ \E u \in Users :
          \/ Login(r, u) \/ LoginWrongPassword(r, u)
          \/ RevokeSessions(r, u) \/ ChangePassword(r, u)
          \/ \E t \in ResetTokens : ForgotPassword(r, u, t)
    \/ \E s \in Sessions : Refresh(r, s)
    \/ \E s, a \in Sessions : Logout(r, s, a)
    \/ \E t \in ResetTokens : ResetPassword(r, t)

\* The server goes on with a request it has accepted.
Step(r) ==
    \/ CountFailure(r) \/ RecordFailure(r) \/ Raise(r)
    \/ TouchUser(r) \/ ClearAttempts(r)
    \/ InsertSession(r) \/ CacheSession(r) \/ IndexSession(r)
    \/ RevokeOld(r) \/ UncacheOld(r) \/ UnindexOld(r) \/ Blacklist(r)
    \/ ConsumeReset(r) \/ UpdatePassword(r)
    \/ SelectSessions(r) \/ ApplyRevocation(r)
    \/ ReadIndex(r) \/ DropCached(r) \/ DropIndex(r)
    \/ Respond(r) \/ Commit(r)

Time ==
    \/ \E s \in Sessions : SessionExpires(s)
    \/ \E u \in Users : AttemptsExpire(u)
    \/ \E t \in ResetTokens : ResetExpires(t)

Next == (\E r \in Requests : Call(r) \/ Step(r) \/ Crash(r)) \/ Time

Spec == Init /\ [][Next]_vars

\* The event loop runs every request that can go on, and PostgreSQL hands a row
\* lock to the transactions that wait for it in turn.
FairSpec == Spec /\ \A r \in Requests : SF_vars(Step(r))

-----------------------------------------------------------------------------
Pcs == {"idle", "touch", "count", "lock", "note", "raise", "clear", "insert", "cache",
        "index", "revoke", "uncache", "unindex", "blacklist", "consume", "password",
        "select", "apply", "members", "drop", "forget", "respond", "commit"}

RequestType ==
    [pc : Pcs, op : Routes \cup {None}, user : Users \cup {None},
     old : Sessions \cup {None}, new : Sessions \cup {None},
     token : Sessions \cup ResetTokens \cup {None},
     rows : SUBSET Sessions, hits : SUBSET Sessions, seen : SUBSET Sessions,
     write : Writes \cup {None}]

\* The rows, the keys and the requests have the shape the code gives them.
TypeOK ==
    /\ owner \in [Sessions -> Users \cup {None}]
    /\ revoked \subseteq Sessions /\ expired \subseteq Sessions
    /\ locked \subseteq Users
    /\ cached \subseteq Sessions /\ blacklist \subseteq Sessions
    /\ index \in [Users -> SUBSET Sessions]
    /\ attempts \in [Users -> 0..MaxLoginAttempts]
    /\ resets \in [ResetTokens -> Users \cup {None}]
    /\ req \in [Requests -> RequestType]
    /\ issued \in [Sessions -> Users \cup {None}]
    /\ minted \subseteq Sessions
    /\ parent \in [Sessions -> Sessions \cup {None}]
    /\ crashes \in 0..MaxCrashes

\* service.refresh: the new row and the end of the old one become visible
\* together, whatever other requests and crashes come between the two UPDATEs:
\* a committed session that came out of a refresh has a revoked predecessor.
RotationRevokesParent == \A s \in Sessions : parent[s] # None => parent[s] \in revoked

\* While no request has died, a token a client holds belongs to a committed row
\* of the user it names, or to one the transaction that made it will commit next.
HandedOutHasRow ==
    crashes = 0 =>
        \A s \in Sessions : issued[s] # None =>
            \/ owner[s] = issued[s]
            \/ \E r \in Requests : At(r, "commit") /\ s \in Opened(r)

Commits(r) == At(r, "commit") /\ req'[r].pc = "idle" /\ crashes' = crashes

\* revoke_all_for_user: when the transaction of a revoke-sessions, change-password
\* or reset-password commits, every session that had a row when its UPDATE began
\* has ended, whichever transaction ended it.
SweepEndsWhatItSaw ==
    [][\A r \in Requests : Commits(r) => req[r].rows \subseteq revoked']_vars

\* change_password and reset_password write the users row before they revoke, and
\* login writes it before it inserts a session, so that one waits for the other: when a
\* new password commits, every session that a login has opened for the user has ended,
\* and no login is between its UPDATE of the users row and its commit.  The logins at
\* work that outlive the new password are those that have compared the old one and
\* still have that UPDATE before them: they open their sessions afterwards.
NewPasswordEndsEarlierLogins ==
    [][\A r \in Requests : Commits(r) /\ req[r].write = "password" =>
          /\ \A s \in Sessions :
                owner'[s] = req[r].user /\ parent'[s] = None => s \in revoked'
          /\ \A q \in Requests :
                req[q].op = "login" /\ req[q].user = req[r].user => At(q, "touch")]_vars

\* Every request ends: no row lock is kept after the transaction, and no two
\* transactions wait for each other.
EveryRequestEnds == \A r \in Requests : ~At(r, "idle") ~> At(r, "idle")

\* Keys refresh:{hash} are a copy of the active rows: when nobody is at work and no
\* request has died, the sessions in Redis are the active sessions in PostgreSQL.
KeysMatchRows ==
    (crashes = 0 /\ \A r \in Requests : At(r, "idle"))
        => cached = {s \in Sessions : IsActive(s)}

\* ARCHITECTURE.md section 6: after the threshold the account is locked out.  With no
\* other request at work, a login is not let in while the failures stand there.
LockoutHolds ==
    [][\A r \in Requests, u \in Users :
          (attempts[u] = MaxLoginAttempts /\ \A q \in Requests : At(q, "idle"))
              => ~(req'[r].pc = "touch" /\ req'[r].user = u)]_vars

\* ARCHITECTURE.md section 6: revoke-sessions removes all Redis sessions of a user.  When
\* it ends, no key is left of a session that had its row when the UPDATE began.
SweepRemovesKeys ==
    [][\A r \in Requests : Commits(r) /\ req[r].op \in Revoking =>
          req[r].rows \cap cached' = {}]_vars

-----------------------------------------------------------------------------
\* What the module promises of a session: SessionLifecycle.
Lifecycle == INSTANCE SessionLifecycle
    WITH live <- {s \in Sessions : Live(s)}, ended <- revoked, origin <- parent

\* Commit is where a session opens, is rotated or ends; every other step of a
\* request leaves the sessions as they are.
ImplementsLifecycle == Lifecycle!Spec
=============================================================================
