# A verification project for a7ano-api

a7ano-api is a FastAPI service (one asyncio event loop per worker) over PostgreSQL and Redis. Every
request is a coroutine with one SQLAlchemy session: `get_db` (`app/core/database.py`) opens a
transaction, the route's service awaits SQL statements and Redis commands, and the transaction
commits when the route has returned, after the response has been sent, or rolls back when it raises.
There are no background workers, queues or consumers: all concurrency is requests against requests,
through rows, row locks, unique indexes and Redis keys, and requests against time (TTLs, `expires_at`).

## Inventory

| Component | State | Operations | What must be right |
|---|---|---|---|
| auth sessions (`app/auth`) | `refresh_sessions`, the `users` row; Redis `refresh:`, `user_sessions:`, `login_attempts:`, `blacklist:`, `password_reset:` | login, refresh, logout, revoke-sessions, change/forgot/reset password | rotation is atomic, sweeps end what they saw, new passwords end earlier logins, lockout, Redis agrees with the rows |
| registration (`app/auth`, `app/users`) | `users`, Redis `email_verify:` | register, verify, resend, profile | one account per e-mail, an address is verified by its own mail |
| direct messages (`app/dms`) | conversations, participants with read pointers, messages | find-or-create, add/remove/leave, send/edit/delete, mark read | one direct conversation per pair, membership and unread counts agree |
| organizations, teams (`app/organizations`, `app/teams`) | organizations, invitations, `user_roles` | create, invite, accept, revoke, change role, remove; teams | an invitation is used once, the owner stays, owners keep theirs |
| permissions (`app/permissions`) | permissions, roles, their link table | CRUD, assignment, seed at start-up | deleted roles grant nothing, the seed always succeeds |
| vault (`app/vault`) | entries, shares, activity log, categories, tags | CRUD, share, access check | one share per user and entry, the log and the notifications agree with the rows |
| memos, projects, tasks | rows, memo versions, tags, folders, assignees | CRUD, archive/restore, pin, version on update | versions are a history, deleted rows stay deleted, an update keeps the columns that others set |
| scheduling, notifications | rows | CRUD, mark read | read flags stay, an update touches its own columns only |
| audit | `audit_events` | emit, list | append only; nothing calls `emit` |
| core | rate-limit counters, settings, logging, e-mail | middleware | out of scope but for the transaction and the limiter |

Components call each other as Python methods inside one transaction; they share `users` and
`user_roles` and meet otherwise only in the database. What is hard: interleavings of read-then-write
handlers at READ COMMITTED, writes to Redis that a rollback does not undo, responses sent before the
commit, and soft deletes that later reads forget to filter. `PROJECT.json` lists each at its line.

## Plan

1. `AuthSessions` with `SessionLifecycle` and `AuthSessions_proofs` (done, below).
2. `Conversations`: direct-message membership, find-or-create, messages (done, below; read pointers
   and unread counts are left).
3. `Memberships` with `Memberships_proofs`: organizations, invitations, teams and role assignments
   (done, below).
4. `Repository` with `Vault`, `Labels`, `Memos`, `MemoHistory`, `Projects`, `Scheduling`, `RoleCatalog`
   and `Accounts`, composed by `Workspace`, and `Workspace_proofs`, on which `Memos_proofs`,
   `Vault_proofs`, `Catalog_proofs` and `Accounts_proofs` are built (done, below); `RowVersions`, the column
   `version` of projects and tasks (done, below).

Every invariant, every action property and every refinement that a passing run checks is also a theorem.
What stays with TLC alone is liveness (`EveryRequestEnds`, in two modules), which the prover does not reach,
and the properties of the violation runs, which do not hold. Left to model: read pointers and unread
counts of direct messages, lifetimes of access tokens.

Abstract specifications worth stating: session lifecycle (done), an invitation used at most once, a
conversation per pair, a shared entry's access relation. Theorems worth proving: the invariants of each of
these, and the refinement of its abstract specification; `MemoHistory` (done) is one too. Instances stay at
two or three concurrent requests over two or three rows: every race found so far needs two requests and at
most one crash, and the theorems cover the rest.

## AuthSessions

Each request has a record in `req` with a program counter, and each SQL statement and Redis command is
one action, as an asyncio task yields only there.

| Code | Model |
|---|---|
| `refresh_sessions` row, `revoked_at`, `expires_at`, `users.locked_until` | `owner`, `revoked`, `expired`, `locked` |
| Redis keys | `cached`, `index`, `attempts`, `blacklist`, `resets` |
| unflushed or uncommitted writes of a request | `req[r].hits` (rows revoked), `.new` (row inserted), `.write` (users row) |
| row locks | `SessionLocked`, `UserLocked`: somebody else's uncommitted write |
| commit, rollback | `Commit`; `Raise` (an exception) and `Crash` |
| the client's tokens | `issued`, set by `Respond`, which comes before `Commit` |

`login` is Login, TouchUser, ClearAttempts, InsertSession, CacheSession, IndexSession, Respond,
Commit; a failed one is LoginWrongPassword, CountFailure, RecordFailure, Raise. `refresh` is Refresh,
RevokeOld, UncacheOld, UnindexOld and then login's tail. `revoke_all_for_user` is one UPDATE in two
steps: SelectSessions takes the snapshot and ApplyRevocation waits for the row locks and skips what
others have revoked meanwhile, as PostgreSQL does at READ COMMITTED. `minted`, `parent` and
`crashes` are history.

Left out: the contents of tokens, e-mails and devices; `remember_me` and the lengths of lifetimes
(anything may expire at any time); the session list, a read; registration and verification, which are in
`Accounts`. The lockout has no passing time, as the lock is never committed.

### Runs

Two requests over two session ids, one user and one reset token, with at most one crash. Two requests
are enough to overlap any pair of routes at every await, and two ids to have a session and its
successor; symmetry over sessions and requests is sound, as no property picks one of them.
`MaxLoginAttempts` is 1 or 2, so that the threshold is reached; `Room` bounds the calls that insert
rows. The liveness run has no symmetry and the routes that open and revoke sessions one by one.
Requests rest when no call is possible, and can always call ForgotPassword or fail a login, so
deadlock is checked everywhere.

| Run | Shows |
|---|---|
| `auth_sessions` | rotation is atomic under races and crashes; a sweep ends all it selected; when a new password commits, the logins before it have ended and no login is between its UPDATE of the users row and its commit; tokens handed out belong to rows while no request dies; the rows implement `SessionLifecycle` |
| `auth_sessions_live` | every request ends; at rest and without crashes `refresh:` keys are the active rows |
| `auth_lockout` (violation) | the lockout of ARCHITECTURE.md section 6 never happens: the exception after the failed login rolls the lock back |
| `auth_sweep` (violation) | two overlapping sweeps and a login: one sweep deletes the set `user_sessions:` with a key that was added since it read the set, so that the other one leaves that key in Redis |

The violation runs are findings: `PROJECT.json` quotes the sentence of the document and the line of
code. No counterexample needs a crash.

What a new password does not end: a login that has compared the old password, and whose UPDATE of the users
row (`auth/service.py:74`) waits for the one of the new password, opens its session afterwards. The model has
this behaviour (`TouchUser` waits for `UserLocked`), and `NewPasswordEndsEarlierLogins` names it: such a login
is the only one that may be at work when the password commits. Likewise a sweep may miss the session of
an overlapping refresh, whose row is not committed when the UPDATE begins; no document rules that out.

Fairness: `SF_vars(Step(r))` for each accepted request. The event loop resumes every coroutine whose
await has finished, and PostgreSQL grants a row lock to its waiters in turn, so a step that is
enabled again and again is taken, which is strong fairness. Nothing is assumed of clients, of
crashes or of time.

### Proofs

`AuthSessions_proofs` proves, for any number of users, sessions, reset tokens and requests, from the
assumptions named in `AuthSessions` (`None` differs from every other value, the bounds are numbers):

* `Invariance`: `Spec => []IInv`. The properties are not inductive: what a commit publishes depends on
  what its request wrote earlier. `IInv` adds where each request can be in its program (`InProgram`),
  what it has written there (`OpeningInStep`, `SweepInStep`), that new ids are its own (`NewInStep`),
  that one transaction at a time has written the users row (`UserRowIsExclusive`), and that a
  transaction with a new password has selected every session of a login (`PasswordInStep`): the
  login wrote the users row before it inserted, so it cannot commit in between.
  Steps inside a transaction change no committed row (`Frame`) and share one argument
  (`LocalKeepsIInv`); `InsertSession` and `Commit` have their own.
* `TypeCorrectness`, `RotationIsAtomic`: conjuncts of `IInv`.
* `SweepCompleteness`, `NewPasswordSignsOut`: action properties, from `IInv`
  and from `OnlyCommitsWrite` (no step but a commit writes rows).
* `Refinement`: the rows implement `SessionLifecycle`; a commit of a login opens, of a refresh
  rotates, of any other route ends the sessions it revoked, and every other step stutters.
* `HandedOutTokens`: from `IInv`; a response is sent by a request that has inserted the row and, while
  nobody has died, commits it.
* `KeysAreACopy`: `KeysMatchRows`, if the routes are login, failed login, refresh and logout and nothing
  expires, which is the instance of `auth_sessions_live`. The hypothesis is needed: with `revoke_sessions`
  TLC finds the key of a session deleted whose row the UPDATE has missed, as the login or the refresh that made it
  had not committed, and a key may expire before its row. The invariant behind it, `KeysFollowRows`, says that without a crash a
  live session has a key unless a request that is about to revoke it has deleted that, and that a key is of a
  live session or of one that a request has stored before it commits the row.

Only model-checked: `EveryRequestEnds`, as liveness is out of the prover's reach.

## Conversations

| Code | Model |
|---|---|
| `dm_conversations`, `dm_conversation_participants`, `dm_messages` | `conv`, `row`, `msg`, as committed |
| a participant's id, `conversation_id` and `member_id`, which never change | the index of `row`: conversation, member, and the count of the member's stays |
| rows inserted, rows updated and locked, by a transaction at work | `req[r].new`, `req[r].hold` |
| what the route has still to do | `req[r].add` (members to add), `.todo` (rows to update) |
| `ix_dm_participants_conv_member`, unique over `left_at IS NULL` | `InsertParticipant`: waits for `Blockers`, then goes in or raises |
| `deadlock_detected` | `DeadlockAbort`, for a request that waits for itself |

A route is a call (`_require_conversation`, or reading the message), `ReadParticipant`
(`_require_participant` and the check after it), for `remove_participant` `ReadTarget`, then for
`add_participants` `CheckMember` and `InsertParticipant` per member, for the others `Write` per row, and
`Commit`. `create_conversation` reads with `find_direct` when it begins and touches nothing that
anybody else can see until it commits. A request may be cancelled at any await.

| Run | Shows |
|---|---|
| `conversations` | one current participant per member; one admin, the creator's first participant; deletions and departures are final though others write to the rows they had read; nobody changes a conversation who had left it before the request began, or without being its admin where that is asked |
| `conversations_live` | requests that add the same members in opposite orders wait for each other, and all end |
| `direct_pair` (violation) | two overlapping calls create two direct conversations for one pair |

`req[r].gone` is history: the participants of the caller that had left when the call came. The code checks the
caller some statements before the commit, so that the caller may have left by then, but not before the call
(`Acting`). The model also has what needs no interleaving and no run: `remove_participant` with the caller's own
participant leaves a direct conversation, which `leave_conversation` refuses (`dms/exceptions.py:41`).

Two requests suffice: each hazard is one request that overtakes another between two statements.
`conversations` has one conversation, two members who may each join it twice, one message, lists of two
members, and symmetry over everything that no property picks. `conversations_live` has three members, so
that an admin can add two others in both orders, and only the routes that wait for more than one entry
in an order the client chooses: all others update a participant before the conversation or a single row,
which can make no circle. Deadlock is not checked there, as nothing can be called when ids are used up and
the conversation is deleted; that no request is stuck is the liveness property. Fairness is the one of
AuthSessions, together with `deadlock_timeout`.

`Conversations_proofs` proves, for any number of members, conversations, messages and requests and from
the assumptions named in `Conversations`:

* `Invariance`: `Spec => []IInv`. No property is inductive, as what a commit publishes was decided by
  earlier steps. `IInv` adds what each request knows at each point of its program (`InProgram`), what its
  pending inserts exclude (`InsertedInStep`: no committed row has the key; `Apart`: no other pending
  insert has it, which is what the index wait establishes), which rows it may make leave
  (`LeavingInStep`), what it has made sure of (`Entitled`: the caller has a
  participant that had not left when the call came, an admin where that is asked), and that the creator's first participant is
  there with the conversation (`Founded`). Steps inside a transaction share one argument
  (`LocalKeepsIInv`, `StatementKeepsIInv`); `CommitKeepsIInv` rests on one lemma per table.
* `TypeCorrectness`, `OneParticipant`, `CreatorAdministers`: from `IInv`.
* `GoneForGood`, `Authority`: action properties, from `IInv` and from `OnlyCommitsPublish`. `Authority` is that
  a request publishes changes of the conversation that it names only, and that its user had not left before.

`EveryRequestEnds` is only model-checked, as liveness is out of the prover's reach.

## Memberships

| Code | Model |
|---|---|
| `organizations`, `teams`, `organization_invitations`, `user_roles`, as committed | `org`, `team`, `inv`, `asg`; a row that `delete_hard` removed is `None` again |
| seeded roles and their permissions | `Grants`, for the permissions that these routes ask for |
| `has_permission` in a scope | `Permitted`, `InScope` |
| rows to update or delete, rows written and locked, the row inserted | `req[r].todo`, `.hold`, `.new` |
| `ix_user_roles_scope`, unique over rows that are not deleted, in which NULLs differ | `InsertAssignment` with `Indexed` and `Blockers` |

The call of a route includes its first SELECT: the permission, or for accept and revoke the invitation.
`OpenOrganization` and `OpenTeam` are `OrganizationService.get` and `TeamService.get`;
`ListAssignments`, `FindAssignment`, `Write`, `InsertAssignment` and `ConfirmOrganization` are the
statements after it, in the order of the service. `revoke_invitation` reads the invitation, then the
permission, then the invitation again, which gives it the object it has, with the old status.

| Run | Shows |
|---|---|
| `memberships` | a user has one current assignment per role, organization and team; an invitation makes one assignment however often it is accepted at the same time, because the UPDATE of the invitation comes before the look at the assignments; owners keep their role unless it is removed by name; a role change never takes a membership |
| `invitation_race` (violation) | accept and revoke both find the invitation pending; the second replaces the first, and the user of a revoked invitation is a member |

One organization, team and invitation, four assignments (the administrator's, the owner's, the team
creator's or an invited member's, and a duplicate) and two requests. The administrator and one other user
call; calls name the other user, with the role `team_admin`, so that a member has something to do in the
team, and scopes in the organization. `assign_role` and `remove_role` accept any pair of organization and
team, and `Scopes` is what bounds them; requests of other organizations would meet none of these rows.
Symmetry is over all ids that no property picks. The administrator can always call, so deadlock is checked;
requests that wait for each other end by `Cancel`, as PostgreSQL breaks the circle. `InvitationRace` has
the four routes of invitations only. `OwnerAdministers` exempts `remove_role`, which takes the owner's own
assignment if it is named, although ARCHITECTURE.md:220 calls that role implicit.

`Memberships_proofs` proves, for any number of users, organizations, teams, invitations, assignments and
requests, any `Operations`, `Scopes` and `Roles`, and from the assumptions named in `Memberships` (`None`
differs from ids, routes and records, and the tables have no id in common):

* `Invariance`: `Spec => []IInv`. No property is inductive, as all of them depend on what a request has read
  some statements before it commits. `IInv` adds where each request can be (`InProgram`), what it has found
  there (`Informed`), that the assignments it ends are of the user and the scope it names (`EndsItsOwn`),
  that an acceptance holds the invitation before it looks for the assignment (`AcceptsOnce`), that an
  assignment has the key its invitation names (`ViaKey`: this is why a second acceptance finds the first),
  that what is inserted under the unique index is not there (`InsertsUnique`), and what no two requests have
  in common: no row written, no id, no key under the index (`Apart`).
* `TypeCorrectness`, `TeamAssignmentsUnique`, `AcceptanceJoinsOnce`: conjuncts of `IInv`.
* `LeavingIsRemoval`, `OwnerKeepsTheRole`: action properties, from `IInv` and from what a commit does to the
  assignments; no other step changes a table.

## Workspace

The other parts of the API work in one way: a route reads what it needs, then updates or inserts rows
through `BaseRepository`, then commits. `Repository` is that way, once: the tables are one function `row`
from ids to rows, `req` holds the requests at work, and `Write`, `InsertName`, `Commit` and `Cancel` are
steps that all routes share. A route of a part is one operator that begins a request; the parts are

| Module | Code |
|---|---|
| `Vault` | `app/vault`: entries, shares, access log; `app/notifications` |
| `Labels` | categories, folders and tags of vault, memos and projects |
| `Memos` | `app/memos`: memos and versions; `MemoHistory` is what the versions promise |
| `Projects` | `app/projects`, `app/tasks` |
| `Scheduling` | `app/scheduling` |
| `RoleCatalog` | `app/permissions` without assignments; the seed in `app/core/application.py` |
| `Accounts` | registration, verification, profile: `app/auth`, `app/users` |
| `RowVersions` | the column `version` (`app/common/models.py`), with the routes of `Projects`; not in `Workspace` |

| Code | Model |
|---|---|
| rows, as committed; `deleted_at` | `row`, column `deleted` |
| `vault_access_logs` | `log` |
| columns that an UPDATE sets, rows to update, rows updated and locked | `req[r].data`, `.todo`, `.hold` |
| rows inserted, rows to insert by a unique name, log lines | `req[r].new`, `.names`, `.logged` |
| changes of `role_permissions` | `req[r].links` |
| `email_verify:` keys, mails on their way | `link`, `mail` |

What makes the steps: reading is one step with the call, up to the last SELECT before the first statement
that writes: what the last one finds live the earlier ones have found live, since no row is undeleted and
none goes away. What is read after a wait (the versions of a memo, the next name
of the seed, the user of a link) is a step of its own. `setattr` sends only columns that differ from
those read, so that an UPDATE after a wait keeps the columns of the one before: `Changed`. A name stands
for its row where an index covers deleted rows too (permissions, roles, e-mail addresses), and `InsertName`
waits for an uncommitted row of the same name. A key in Redis and a mail outlive the rollback of the
request that made them. A request may end at any await (`Cancel`: the client is gone, a statement or a
deadlock fails it, the worker stops), and a call may be refused with nothing written (`Refused`).

| Run | Shows |
|---|---|
| `workspace` | an update keeps the columns that others set, deleted rows stay deleted and read flags and verified addresses stay set (`OnlyItsColumnsChange`); the versions of a memo are numbered without gap or repetition, are an append-only history (`KeepsHistory`: implements `MemoHistory`), and the newest one is the memo; rows that one route inserts in several tables are there together; the log names those who did it and who might; shares are announced once; a seed is whole; a link of a registration that was rolled back verifies no later account |
| `shared_twice` (violation) | two overlapping requests share an entry twice with one user, who can then no longer read it |
| `optimistic_locking` (violation) | two overlapping updates of a project read one version; the second writes over the status that the first has set, unseen, and sets the same version again |

`OnlyItsColumnsChange` leaves open what two updates of one column do to each other. ARCHITECTURE.md:112 says that
`version` is for optimistic locking, and `OptimisticLocking` states that: an update never writes over a change that
it has not seen. `RowVersions` extends `Projects` with the versions of the rows, what each request has read of them
(`read`), and the rows as they were at its call (`seen`, history); `Publish` sets the version that was read plus
one. The code never compares it, so that the property fails. The run has one project with its first assignment, the
routes that create and update it, two requests, and three statuses, since an overlapping update that changes
something and is written over needs an old value and two new ones; a row is not updated beyond version
`MaxVersion`.

**Bounds.** Three requests, so that two may wait for a third one. Rows: two kinds of values, one entry
with two shares and two notifications, one memo with four versions, one project with three assignments and
two tasks, one event with three times on two days, two labels of two names, two permissions and two roles
of which three are defaults, one address with two registrations and two links. `Managers` has one user,
whose roles grant everything in the organization, the other one none; which roles those are is the matter
of `Memberships`. `Assigned` is who has a row in `user_roles` there: the owner of the organization may create
entries without one.

**Suites.** A behaviour uses the routes of one suite of `Parts`: nearly a part each. The parts read and write
no row of each other but for the notifications of a share, which are with the sharing in one suite, so that
mixing them shows nothing and multiplies the states. Symmetry is over requests and over values, of which no
property picks one. Ids are taken in a fixed order, as nothing compares them.

**What is left out.** Rows of link tables between tags and what they mark; whether organizations, teams and
users that a call names exist; columns that are data only (titles, colors, encrypted fields, descriptions);
wildcards in permission names; shares with a team, which no check reads, are shares with nobody; all lists.
The list of entries shows those of expired shares too, which `get_entry` refuses; no document says otherwise.

Reached by the model, but no run of its own: an event that ends before it starts after an update of one
time; a permission of the defaults that was soft-deleted makes the next seed fail; two role updates at the
same time merge their links; a tag's name twice and an assignee twice (the pattern of `shared_twice`).

### Proofs

All are for any tables, requests, suites and names, from the assumptions that the modules name: the tables
have no id in common and make up `Ids` (`IdsAssumption`), `None` is none of the ids, users, records, routes
and arguments (`NoneAssumption`, `NothingAssumption`), those who manage are users (`ManagersAssumption`),
times are numbers (`TimesAssumption`), the defaults are names of permissions and of roles, and a default
role grants defaults (`DefaultsAssumption`), suites are sets of routes (`SuitesAssumption`), and the tables
whose rows are counted (shares, notifications, versions) have finitely many ids (`FinitenessAssumption`).
Nothing bounds the number of requests or of rows, and a suite may hold all routes, so that the theorems also
cover the mixtures of parts that the run leaves out.

* `Workspace_proofs`, `BaseInvariance`: `Spec => []Base`, the invariant that all parts share. `RowsFit` is
  types and foreign keys of the committed rows. `Fits` is what the record of a request says: where its route
  can be (`InProgram`), that the rows it updates are there and have the columns it sets (`Updates`), that
  what it inserts refers to rows that are there or come with it (`Inserts`), likewise for the links of a
  role (`Relinks`), and that only some routes touch a table (`Footprint`). `Parted` says that no row is held
  or inserted by two requests. From it: `TypeCorrectness`; `UpdatesKeepOtherColumns`, as a commit writes the
  columns of its own UPDATE only, into rows as they are at the commit; and, with what a request inserts
  together (`WholeRequests`), `CreationsAreWhole`.
* `Memos_proofs`: `MemosFit` adds that a request goes on to a version just if its UPDATE sets the content,
  and that one which has counted the versions holds the memo, so that its number is still the next one when
  it commits. `VersionsNumbered` and `NewestIsTheMemo` are conjuncts; `HistoryIsKept` is the refinement of
  `MemoHistory`: a commit appends one content to one history or leaves all alone.
* `Vault_proofs`: `VaultFit` says that what a request inserts or updates is what its line in the log tells.
  `LogTellsTheTruth` is a conjunct; `SharesAnnounced` counts, with the fact that a commit adds one share and
  one notification of one user and entry or none.
* `Catalog_proofs`: `CatalogFits` says that every default is among the rows, those a seed has inserted and
  those it is going to insert; no other route makes a system role. From it: `SeedsAreWhole`.
* `Accounts_proofs`: `AccountsFit` says that an id is kept with one address only, in rows, mails and
  requests at work, so that the link that verifies an account has been sent to its address. From it:
  `OwnMailVerifies`.

Each of these invariants was checked by TLC on the instance of `workspace` before it was proved. No
liveness is stated of these parts; waiting in them is for rows and names that another transaction has
written, as in `AuthSessions` and `Conversations`.

## Not modelled

The audit log (append only; nothing calls `emit`) and the rate limiter (no route and no middleware uses it):
neither has a behaviour in this program. Migrations (schema), e-mail, logging, templates, storage, settings
and middleware are I/O and configuration without state of their own. Encryption of vault fields is external.
