---------------------------- MODULE Conversations ----------------------------
(***************************************************************************)
(* Direct messages, app/dms: the tables of conversations, participants and *)
(* messages, and the requests of DMService that read and write them.       *)
(*                                                                         *)
(* A request is one transaction at READ COMMITTED (get_db).  Each SELECT   *)
(* that decides something and each statement that may wait is a step.  The *)
(* rows a transaction has written stay in its record until Commit          *)
(* publishes them, and Abort drops them.  An UPDATE waits for the          *)
(* transaction that has written its row; an INSERT waits for a transaction *)
(* that may yet change whether the unique index has room for it; when      *)
(* transactions wait in a circle PostgreSQL aborts one.  SQLAlchemy writes *)
(* the columns that were set, not the row that was read.                   *)
(*                                                                         *)
(* Titles, contents, mute and archive flags, timestamps and read pointers  *)
(* are left out: their updates are steps that lock.  So are participants   *)
(* that are teams: no check looks at them, and _require_participant does   *)
(* not know them.                                                          *)
(***************************************************************************)
EXTENDS Naturals, Sequences, FiniteSets

CONSTANTS
    Members,
    Convs, Messages,        \* ids of conversations and of messages
    Requests,               \* requests the server works on at the same time
    None,                   \* SQL NULL, "no such row", "not set"
    Operations,             \* the routes that are called
    MaxAdd,                 \* bound: members named by one add_participants
    MaxStays                \* bound: times that a member joins a conversation

Routes == {"create_conversation", "update_title", "update_settings", "delete_conversation",
           "add_participants", "remove_participant", "leave_conversation",
           "send_message", "edit_message", "delete_message", "mark_read"}

\* A participant's id stands for conversation, member and the count of the
\* member's participants there: the columns that never change, and uuid4.
Stays == 1..MaxStays
Rows == Convs \X Members \X Stays
Objects == Convs \cup Rows \cup Messages

Conversation == [type : {"direct", "group"}, creator : Members, deleted : BOOLEAN]
Participant == [left : BOOLEAN, admin : BOOLEAN]
Message == [conv : Convs, sender : Members, deleted : BOOLEAN, edited : BOOLEAN]

ASSUME NoneAssumption ==
    None \notin Members \cup Objects \cup Routes \cup Conversation \cup Participant \cup Message
ASSUME IdsAssumption ==
    Convs \cap Rows = {} /\ Convs \cap Messages = {} /\ Rows \cap Messages = {}
ASSUME OperationsAssumption == Operations \subseteq Routes
ASSUME BoundAssumption == MaxAdd \in Nat \ {0} /\ MaxStays \in Nat \ {0}

VARIABLES
    conv,   \* dm_conversations, as committed; None: no row
    row,    \* dm_conversation_participants, as committed
    msg,    \* dm_messages, as committed
    req     \* the requests at work

tables == <<conv, row, msg>>
vars == <<tables, req>>

\* me: the caller's participant, as read; add: members still to add, in order;
\* new: participants inserted; todo: rows still to update, in order; hold: rows
\* updated; gone: history, the caller's participants that had left before the call.
Idle == [pc |-> "idle", op |-> None, user |-> None, conv |-> None, type |-> None,
         msg |-> None, me |-> None, add |-> <<>>, new |-> {}, todo |-> <<>>, hold |-> {},
         gone |-> {}]

\* The participants of c that member m has or had, and those with left_at null.
Ever(c, m) == {<<c, m, k>> : k \in {k \in Stays : row[<<c, m, k>>] # None}}
Current(c, m) == {p \in Ever(c, m) : ~row[p].left}
Left(c, m) == Ever(c, m) \ Current(c, m)

\* get_by_id of conversations, and of messages with the check that follows it.
Open(c) == conv[c] # None /\ ~conv[c].deleted
Readable(m) == msg[m] # None /\ ~msg[m].deleted

\* find_direct.
Direct(a, b) ==
    {c \in Convs : /\ Open(c)
                   /\ conv[c].type = "direct"
                   /\ Current(c, a) # {} /\ Current(c, b) # {}}

\* Ids that uuid4 may still return.
Taken(p) == row[p] # None \/ \E q \in Requests : p \in req[q].new
FreshRows(c, m) ==
    {<<c, m, k>> : k \in {k \in Stays : /\ ~Taken(<<c, m, k>>)
                                        /\ \A j \in 1..(k - 1) : Taken(<<c, m, j>>)}}
FreshConvs == {c \in Convs : conv[c] = None /\ \A q \in Requests : req[q].conv # c}
FreshMessages == {m \in Messages : msg[m] = None /\ \A q \in Requests : req[q].msg # m}

\* r has inserted a participant of c for m.
Pending(r, c, m) == \E k \in Stays : <<c, m, k>> \in req[r].new

At(r, pc) == req[r].pc = pc
Begin(r, call, pc) ==
    /\ At(r, "idle")
    /\ call.op \in Operations
    /\ req' = [req EXCEPT ![r] = [call EXCEPT !.pc = pc, !.gone = Left(call.conv, call.user)]]
    /\ UNCHANGED tables
Abort(r) ==
    /\ req' = [req EXCEPT ![r] = Idle]
    /\ UNCHANGED tables

\* The transactions that the next statement of r waits for: those that have
\* updated the row; for an INSERT, those that have inserted the same key or
\* updated the row that has it.
Blockers(r) ==
    CASE At(r, "write") /\ req[r].todo # <<>> ->
            {q \in Requests \ {r} : Head(req[r].todo) \in req[q].hold}
      [] At(r, "insert") ->
            LET c == req[r].conv
                m == Head(req[r].add)
            IN  {q \in Requests \ {r} :
                    \/ Pending(q, c, m)
                    \/ req[q].hold \cap Current(c, m) # {}}
      [] OTHER -> {}

-----------------------------------------------------------------------------
(***************************************************************************)
(* The calls, with what each route reads before the caller's participant   *)
(***************************************************************************)
\* find_direct refuses a second conversation of the pair, and so does its
\* scalar_one_or_none when there are several.  Nothing waits for rows of a
\* conversation that nobody else has seen, so they are inserted at once.  A
\* list that names a member twice meets the unique index and changes nothing.
CreateConversation(r, u, type, others) ==
    /\ others # {}
    /\ type = "direct" => \E m \in others : others = {m} /\ Direct(u, m) = {}
    /\ \E c \in FreshConvs :
          Begin(r, [Idle EXCEPT !.op = "create_conversation", !.user = u, !.conv = c,
                                !.type = type, !.new = {c} \X ({u} \cup others) \X {1}],
                "write")

\* _require_conversation, in all the routes that name a conversation.
Ask(r, op, u, c, todo) ==
    /\ Open(c)
    /\ Begin(r, [Idle EXCEPT !.op = op, !.user = u, !.conv = c, !.todo = todo], "member")

\* PATCH with a title, or with the archive flag or the mute flag only.  The
\* mute flag is in the caller's participant: ReadParticipant adds it to todo.
UpdateTitle(r, u, c) == Ask(r, "update_title", u, c, <<c>>)
UpdateSettings(r, u, c) == \E todo \in {<<>>, <<c>>} : Ask(r, "update_settings", u, c, todo)

DeleteConversation(r, u, c) == Ask(r, "delete_conversation", u, c, <<c>>)
RemoveParticipant(r, u, c) == Ask(r, "remove_participant", u, c, <<>>)
MarkRead(r, u, c) == Ask(r, "mark_read", u, c, <<>>)
LeaveConversation(r, u, c) ==
    /\ conv[c] # None => conv[c].type # "direct"
    /\ Ask(r, "leave_conversation", u, c, <<>>)

AddParticipants(r, u, c, members) ==
    /\ Open(c)
    /\ Begin(r, [Idle EXCEPT !.op = "add_participants", !.user = u, !.conv = c,
                             !.add = members], "member")

\* The message is inserted (nobody waits for it), then last_message_at is set.
SendMessage(r, u, c) ==
    /\ Open(c)
    /\ \E m \in FreshMessages :
          Begin(r, [Idle EXCEPT !.op = "send_message", !.user = u, !.conv = c, !.msg = m,
                                !.todo = <<c>>], "member")

\* edit_message and delete_message do not ask whether the conversation is open.
ChangeMessage(r, op, u, m) ==
    /\ Readable(m)
    /\ Begin(r, [Idle EXCEPT !.op = op, !.user = u, !.conv = msg[m].conv, !.msg = m,
                             !.todo = <<m>>], "member")
EditMessage(r, u, m) == ChangeMessage(r, "edit_message", u, m)
DeleteMessage(r, u, m) == ChangeMessage(r, "delete_message", u, m)

-----------------------------------------------------------------------------
(***************************************************************************)
(* The steps of a request                                                  *)
(***************************************************************************)
\* What the routes ask of p, the participant the caller is known by.
Allowed(r, p) ==
    CASE req[r].op \in {"update_title", "delete_conversation", "add_participants"} ->
             row[p].admin
      [] req[r].op = "edit_message" -> msg[req[r].msg].sender = req[r].user
      [] req[r].op = "delete_message" -> msg[req[r].msg].sender = req[r].user \/ row[p].admin
      [] OTHER -> TRUE

\* The rows to update once the participant is read.
Writes(r, p) ==
    CASE req[r].op \in {"leave_conversation", "mark_read"} -> {<<p>>}
      [] req[r].op \in {"update_title", "update_settings"} ->
             {req[r].todo, <<p>> \o req[r].todo}
      [] OTHER -> {req[r].todo}

NextStatement(r) ==
    CASE req[r].op = "add_participants" -> "check"
      [] req[r].op = "remove_participant" -> "target"
      [] OTHER -> "write"

Proceed(r, p) ==
    /\ \E todo \in Writes(r, p) :
          req' = [req EXCEPT ![r] = [@ EXCEPT !.pc = NextStatement(r), !.me = p, !.todo = todo]]
    /\ UNCHANGED tables

\* Variant: left_at is not looked at.
ReadAnyParticipant(r) ==
    LET known == Ever(req[r].conv, req[r].user)
    IN  /\ At(r, "member")
        /\ \/ \E p \in known : known = {p} /\ Allowed(r, p) /\ Proceed(r, p)
           \/ /\ ~\E p \in known : known = {p} /\ Allowed(r, p)
              /\ Abort(r)

\* _require_participant (no row and several rows raise), and the route's check.
ReadParticipant(r) ==
    LET current == Current(req[r].conv, req[r].user)
    IN  /\ At(r, "member")
        /\ \/ \E p \in current : current = {p} /\ Allowed(r, p) /\ Proceed(r, p)
           \/ /\ ~\E p \in current : current = {p} /\ Allowed(r, p)
              /\ Abort(r)

\* remove_participant: any row of the conversation, even of one who has left.
ReadTarget(r) ==
    /\ At(r, "target")
    /\ \/ \E m \in Members : \E p \in Ever(req[r].conv, m) :
             /\ m = req[r].user \/ row[req[r].me].admin
             /\ req' = [req EXCEPT ![r] = [@ EXCEPT !.pc = "write", !.todo = <<p>>]]
             /\ UNCHANGED tables
       \/ Abort(r)

\* get_member_participant, for the next member of the list: a row that is
\* committed, or that this transaction has inserted for an earlier mention.
CheckMember(r) ==
    LET c == req[r].conv
        m == Head(req[r].add)
        rest == Tail(req[r].add)
    IN  /\ At(r, "check")
        /\ req[r].add # <<>>
        /\ req' = [req EXCEPT ![r] = IF Current(c, m) # {} \/ Pending(r, c, m)
                                     THEN [@ EXCEPT !.add = rest]
                                     ELSE [@ EXCEPT !.pc = "insert"]]
        /\ UNCHANGED tables

\* Bound: without an id the INSERT fails.
Insert(r) ==
    LET fresh == FreshRows(req[r].conv, Head(req[r].add))
    IN  IF fresh = {} THEN Abort(r)
        ELSE /\ req' = [req EXCEPT ![r] = [@ EXCEPT !.pc = "check", !.add = Tail(req[r].add),
                                                    !.new = req[r].new \cup fresh]]
             /\ UNCHANGED tables

\* Variant: the table has no unique index.
InsertUnindexed(r) ==
    /\ At(r, "insert")
    /\ Insert(r)

\* INSERT: the unique index of current participants lets it in, or raises.
InsertParticipant(r) ==
    /\ At(r, "insert")
    /\ Blockers(r) = {}
    /\ IF Current(req[r].conv, Head(req[r].add)) = {} THEN Insert(r) ELSE Abort(r)

\* UPDATE of one row.
Write(r) ==
    /\ At(r, "write")
    /\ req[r].todo # <<>>
    /\ Blockers(r) = {}
    /\ req' = [req EXCEPT ![r] = [@ EXCEPT !.todo = Tail(req[r].todo),
                                           !.hold = req[r].hold \cup {Head(req[r].todo)}]]
    /\ UNCHANGED tables

\* The request waits, directly or not, for itself.
Deadlocked(r) ==
    \E n \in 1..Cardinality(Requests) : \E wait \in [0..n -> Requests] :
       /\ wait[0] = r /\ wait[n] = r
       /\ \A i \in 1..n : wait[i] \in Blockers(wait[i - 1])

\* Variant: deadlocks are not looked for.
NoDeadlockAbort(r) == Deadlocked(r) /\ UNCHANGED vars

DeadlockAbort(r) == Deadlocked(r) /\ Abort(r)

\* The rows as the transaction has written them: of an UPDATE the columns set.
ConvOf(r, c) ==
    LET q == req[r]
    IN  IF q.conv # c THEN conv[c]
        ELSE CASE q.op = "create_conversation" ->
                      [type |-> q.type, creator |-> q.user, deleted |-> FALSE]
               [] q.op = "delete_conversation" -> [conv[c] EXCEPT !.deleted = TRUE]
               [] OTHER -> conv[c]

RowOf(r, p) ==
    LET q == req[r]
    IN  IF p \in q.new
        THEN [left |-> FALSE, admin |-> q.op = "create_conversation" /\ p[2] = q.user]
        ELSE IF p \in q.hold /\ q.op \in {"leave_conversation", "remove_participant"}
             THEN [row[p] EXCEPT !.left = TRUE]
             ELSE row[p]

MsgOf(r, m) ==
    LET q == req[r]
    IN  IF q.msg # m THEN msg[m]
        ELSE CASE q.op = "send_message" ->
                      [conv |-> q.conv, sender |-> q.user, deleted |-> FALSE, edited |-> FALSE]
               [] q.op = "edit_message" -> [msg[m] EXCEPT !.edited = TRUE]
               [] OTHER -> [msg[m] EXCEPT !.deleted = TRUE]

Done(r) ==
    \/ At(r, "write") /\ req[r].todo = <<>>
    \/ At(r, "check") /\ req[r].add = <<>>

\* Variant: the participant that was read is written back, with every column.
CommitWholeRow(r) ==
    /\ Done(r)
    /\ conv' = [c \in Convs |-> ConvOf(r, c)]
    /\ row' = [p \in Rows |->
                 IF p \in req[r].hold /\ req[r].op = "mark_read"
                 THEN [row[p] EXCEPT !.left = FALSE] ELSE RowOf(r, p)]
    /\ msg' = [m \in Messages |-> MsgOf(r, m)]
    /\ req' = [req EXCEPT ![r] = Idle]

\* Variant: every participant that a transaction inserts may administer.
CommitAsAdmin(r) ==
    /\ Done(r)
    /\ conv' = [c \in Convs |-> ConvOf(r, c)]
    /\ row' = [p \in Rows |-> IF p \in req[r].new
                              THEN [RowOf(r, p) EXCEPT !.admin = TRUE] ELSE RowOf(r, p)]
    /\ msg' = [m \in Messages |-> MsgOf(r, m)]
    /\ req' = [req EXCEPT ![r] = Idle]

\* Variant: the conversation is not added to the SQLAlchemy session.
CommitParticipantsOnly(r) ==
    /\ Done(r)
    /\ row' = [p \in Rows |-> RowOf(r, p)]
    /\ req' = [req EXCEPT ![r] = Idle]
    /\ UNCHANGED <<conv, msg>>

Commit(r) ==
    /\ Done(r)
    /\ conv' = [c \in Convs |-> ConvOf(r, c)]
    /\ row' = [p \in Rows |-> RowOf(r, p)]
    /\ msg' = [m \in Messages |-> MsgOf(r, m)]
    /\ req' = [req EXCEPT ![r] = Idle]

\* The client goes away, a statement fails, the worker stops.
Cancel(r) == req[r].pc # "idle" /\ Abort(r)

-----------------------------------------------------------------------------
AddLists == UNION {[1..n -> Members] : n \in 1..MaxAdd}

Init ==
    /\ conv = [c \in Convs |-> None]
    /\ row = [p \in Rows |-> None]
    /\ msg = [m \in Messages |-> None]
    /\ req = [r \in Requests |-> Idle]

\* A client calls a route.
Call(r) ==
    \E u \in Members :
       \/ \E type \in {"direct", "group"}, others \in SUBSET Members :
             CreateConversation(r, u, type, others)
       \/ \E c \in Convs :
             \/ UpdateTitle(r, u, c) \/ UpdateSettings(r, u, c) \/ DeleteConversation(r, u, c)
             \/ \E members \in AddLists : AddParticipants(r, u, c, members)
             \/ RemoveParticipant(r, u, c) \/ LeaveConversation(r, u, c)
             \/ SendMessage(r, u, c) \/ MarkRead(r, u, c)
       \/ \E m \in Messages : EditMessage(r, u, m) \/ DeleteMessage(r, u, m)

\* The event loop or PostgreSQL takes a request one statement further.
Step(r) ==
    \/ ReadParticipant(r) \/ ReadTarget(r)
    \/ CheckMember(r) \/ InsertParticipant(r) \/ Write(r)
    \/ DeadlockAbort(r) \/ Commit(r)

Next == \E r \in Requests : Call(r) \/ Step(r) \/ Cancel(r)

Spec == Init /\ [][Next]_vars

\* A coroutine whose statement has ended is resumed, PostgreSQL grants its row
\* locks in turn, and deadlock_timeout ends a circle of waiters.
Fairness == \A r \in Requests : SF_vars(Step(r))
FairSpec == Spec /\ Fairness

-----------------------------------------------------------------------------
(***************************************************************************)
(* Properties                                                              *)
(***************************************************************************)
Request ==
    [pc : {"idle", "member", "target", "check", "insert", "write"},
     op : Routes \cup {None}, user : Members \cup {None}, conv : Convs \cup {None},
     type : {"direct", "group", None}, msg : Messages \cup {None}, me : Rows \cup {None},
     add : Seq(Members), new : SUBSET Rows, todo : Seq(Objects), hold : SUBSET Objects,
     gone : SUBSET Rows]

\* Types, and foreign keys: participants and messages belong to conversations
\* that exist (the models of app/dms).
TypeOK ==
    /\ conv \in [Convs -> Conversation \cup {None}]
    /\ row \in [Rows -> Participant \cup {None}]
    /\ msg \in [Messages -> Message \cup {None}]
    /\ req \in [Requests -> Request]
    /\ \A p \in Rows : row[p] # None => conv[p[1]] # None
    /\ \A m \in Messages : msg[m] # None => conv[msg[m].conv] # None

\* A conversation knows a member by one participant at most, whatever requests
\* add, remove and add again at the same time.  With two, _require_participant
\* raises MultipleResultsFound on every request of the member
\* (ParticipantRepository.get_member_participant).
OneCurrentRow ==
    \A c \in Convs, m \in Members : \A p, q \in Current(c, m) : p = q

\* Every conversation has one participant who is admin, the one its creator got
\* with it: nobody else becomes admin, not even the creator after leaving and
\* coming back (create_conversation; add_participants makes no admins).
CreatorIsTheAdmin ==
    \A p \in Rows : row[p] # None =>
       (row[p].admin <=> p[2] = conv[p[1]].creator /\ p[3] = 1)

\* What was deleted or left stays so, and rows keep what they were inserted
\* with, though requests write to rows they have read before the deletion
\* committed (mark_left, soft_delete, ParticipantRepository.update).
GoneStaysGone ==
    [][/\ \A c \in Convs : conv[c] # None =>
             conv'[c] \in {conv[c], [conv[c] EXCEPT !.deleted = TRUE]}
       /\ \A p \in Rows : row[p] # None => row'[p] \in {row[p], [row[p] EXCEPT !.left = TRUE]}
       /\ \A m \in Messages : msg[m] # None =>
             /\ msg'[m] # None
             /\ msg'[m].conv = msg[m].conv /\ msg'[m].sender = msg[m].sender
             /\ msg[m].deleted => msg'[m].deleted]_vars

\* The participants that the caller is, or was while the request ran.
Acting(q) == Ever(q.conv, q.user) \ q.gone
IsAdmin(q) == \E p \in Acting(q) : row[p].admin

\* Nobody acts on a conversation who had left it before the request began: whoever
\* changes one is a participant of it, or was one while the request ran, and its admin
\* where the change is to other people: who joins, who is made to leave, whose message
\* goes, whether the conversation stays.  _require_participant and the checks after it
\* come some statements before the commit, so that the caller may have left by then.
ActsWithAuthority ==
    [][\A r \in Requests : At(r, "idle") \/ req'[r] = req[r] \/
          LET q == req[r]
          IN  /\ \A c \in Convs : conv[c] # None /\ conv'[c] # conv[c] =>
                    c = q.conv /\ IsAdmin(q)
              /\ \A p \in Rows : row'[p] # row[p] /\ conv[p[1]] # None =>
                    p[1] = q.conv /\ (IsAdmin(q) \/ p \in Acting(q))
              /\ \A m \in Messages : msg'[m] # msg[m] =>
                    /\ msg'[m].conv = q.conv /\ Acting(q) # {}
                    /\ msg'[m].sender = q.user \/ IsAdmin(q)]_vars

\* Every request ends: waits for rows and for index entries form no circle that
\* nobody breaks (add_participants inserts one member after the other).
EveryRequestEnds == \A r \in Requests : ~At(r, "idle") ~> At(r, "idle")

\* "A direct conversation between these members already exists."
\* (DuplicateDirectConversationException): two members share one direct
\* conversation at most.
OneDirectPerPair ==
    \A a, b \in Members : a # b => \A c, d \in Direct(a, b) : c = d
=============================================================================
