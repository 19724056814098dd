------------------------- MODULE Conversations_proofs -------------------------
(***************************************************************************)
(* Theorems about Conversations, for any number of members, conversations, *)
(* messages and requests.  All rest on the inductive invariant IInv.       *)
(***************************************************************************)
EXTENDS Conversations, SequenceTheorems, TLAPS

Leaving == {"leave_conversation", "remove_participant"}
OnMessage == {"send_message", "edit_message", "delete_message"}

IsCurrent(p) == row[p] # None /\ ~row[p].left
SameKey(p, q) == p[1] = q[1] /\ p[2] = q[2]

\* Where each route can be, and what it knows there.
InProgram(r) ==
    LET q == req[r]
    IN  /\ q.op = "create_conversation" =>
              /\ q.pc = "write" /\ q.conv \in Convs /\ conv[q.conv] = None
              /\ q.user \in Members /\ q.type \in {"direct", "group"}
              /\ q.hold = {} /\ q.todo = <<>>
              /\ <<q.conv, q.user, 1>> \in q.new
        /\ q.pc # "idle" /\ q.op # "create_conversation" =>
              q.conv \in Convs /\ conv[q.conv] # None /\ q.user \in Members
        /\ q.pc \in {"check", "insert"} => q.op = "add_participants"
        /\ q.pc = "insert" => q.add # <<>> /\ ~Pending(r, q.conv, Head(q.add))
        /\ q.pc = "target" => q.op = "remove_participant"
        /\ q.msg # None => q.op \in OnMessage
        /\ q.op \in {"edit_message", "delete_message"} => q.msg \in Messages /\ msg[q.msg] # None
        /\ q.op = "send_message" => q.msg \in Messages /\ msg[q.msg] = None

\* What a request has inserted: participants of its conversation that the table does
\* not know, of members whom no current participant stands for.
InsertedInStep(r) ==
    /\ req[r].pc = "idle" => req[r].new = {}
    /\ \A p \in req[r].new :
          /\ p[1] = req[r].conv
          /\ row[p] = None
          /\ req[r].op = "create_conversation" => p[3] = 1
          /\ \A q \in Rows : IsCurrent(q) => ~SameKey(p, q)
          /\ \A q \in req[r].new : SameKey(p, q) => p = q

\* The participants that request q may make leave: those of its conversation, the
\* caller's own or, for an admin, any.
MayEnd(q, x) ==
    /\ x \in Rows /\ row[x] # None
    /\ x[1] = q.conv
    /\ x[2] = q.user \/ IsAdmin(q)

LeavingInStep(q) ==
    q.pc # "idle" /\ q.op \in Leaving =>
        /\ \A x \in q.hold : MayEnd(q, x)
        /\ \A i \in 1..Len(q.todo) : MayEnd(q, q.todo[i])

\* What request q has made sure of: once past _require_participant its user is a
\* participant or has left since the call, and had the right to what the route changes.
Entitled(q) ==
    /\ \A p \in q.gone : p \in Rows /\ row[p] # None /\ row[p].left
    /\ q.op \in {"edit_message", "delete_message"} => msg[q.msg].conv = q.conv
    /\ q.new # {} => q.op \in {"create_conversation", "add_participants"}
    /\ q.pc = "target" => q.me \in Acting(q)
    /\ q.pc \notin {"idle", "member"} /\ q.op # "create_conversation" =>
          /\ Acting(q) # {}
          /\ q.op \in {"update_title", "delete_conversation", "add_participants"} => IsAdmin(q)
          /\ q.op = "edit_message" => msg[q.msg].sender = q.user
          /\ q.op = "delete_message" => msg[q.msg].sender = q.user \/ IsAdmin(q)

InStep(r) == InProgram(r) /\ InsertedInStep(r) /\ LeavingInStep(req[r]) /\ Entitled(req[r])

\* No two requests are about to commit a participant for one member of a conversation,
\* or to create one conversation, or one message.
Apart(r, q) ==
    /\ \A p \in req[r].new, o \in req[q].new : ~SameKey(p, o)
    /\ req[r].op = "create_conversation" => req[q].conv # req[r].conv
    /\ req[r].op = "send_message" => req[q].msg # req[r].msg

\* The creator's first participant is inserted with the conversation.
Founded == \A c \in Convs : conv[c] # None => row[<<c, conv[c].creator, 1>>] # None

UniqueRows == \A p, q \in Rows : IsCurrent(p) /\ IsCurrent(q) /\ SameKey(p, q) => p = q

IInv ==
    /\ TypeOK
    /\ UniqueRows
    /\ Founded
    /\ CreatorIsTheAdmin
    /\ \A r \in Requests : InStep(r)
    /\ \A r, q \in Requests : r # q => Apart(r, q)

\* A step of request r that commits nothing.
Frame(r) ==
    /\ UNCHANGED tables
    /\ \A q \in Requests \ {r} : req'[q] = req[q]
    /\ \A p \in req'[r].new :
          p \in req[r].new \/ \A q \in Requests \ {r} : ~Pending(q, p[1], p[2])
    /\ \/ req'[r].conv = req[r].conv /\ req'[r].op = req[r].op
       \/ req'[r].conv = None
       \/ conv[req'[r].conv] # None /\ req'[r].op # "create_conversation"
       \/ \A q \in Requests \ {r} : req[q].conv # req'[r].conv
    /\ \/ req'[r].msg = req[r].msg /\ req'[r].op = req[r].op
       \/ req'[r].msg = None
       \/ msg[req'[r].msg] # None /\ req'[r].op # "send_message"
       \/ \A q \in Requests \ {r} : req[q].msg # req'[r].msg

-----------------------------------------------------------------------------
\* Ids of participants are triples.
LEMMA RowForm ==
  /\ \A p \in Rows : /\ p[1] \in Convs /\ p[2] \in Members /\ p[3] \in Stays
                     /\ p = <<p[1], p[2], p[3]>>
  /\ \A c \in Convs, m \in Members, k \in Stays : <<c, m, k>> \in Rows
  /\ 1 \in Stays
  BY BoundAssumption DEF Rows, Stays

\* The record of a request that has not begun has the type of a request.
LEMMA IdleType ==
  /\ Idle \in Request
  /\ Idle.new = {} /\ Idle.hold = {} /\ Idle.conv = None /\ Idle.op = None
  /\ Idle.pc = "idle" /\ Idle.msg = None /\ Idle.todo = <<>> /\ Idle.gone = {}
  BY DEF Idle, Request

\* None is told from everything else.
LEMMA NoneApart ==
  /\ None \notin Convs /\ None \notin Messages /\ None \notin Members /\ None \notin Rows
  /\ None \notin Routes /\ None \notin Conversation /\ None \notin Participant
  /\ None \notin Message
  BY NoneAssumption DEF Objects

\* The empty database, and no request at work.
LEMMA InitIInv == Init => IInv
  <1> SUFFICES ASSUME Init PROVE IInv OBVIOUS
  <1>1. TypeOK BY IdleType DEF Init, TypeOK
  <1>2. \A r \in Requests : req[r] = Idle BY DEF Init
  <1>3. \A p \in Rows : row[p] = None BY DEF Init
  <1>4. \A c \in Convs : conv[c] = None BY DEF Init
  <1>5. ASSUME NEW r \in Requests PROVE InStep(r)
    BY <1>2, IdleType, NoneApart
       DEF InStep, InProgram, InsertedInStep, LeavingInStep, Entitled, Leaving, OnMessage, Routes
  <1>6. \A r, q \in Requests : Apart(r, q)
    BY <1>2, IdleType, NoneApart DEF Apart, Routes
  <1>7. UniqueRows /\ Founded /\ CreatorIsTheAdmin
    BY <1>3, <1>4 DEF UniqueRows, Founded, CreatorIsTheAdmin, IsCurrent
  <1>8. QED BY <1>1, <1>5, <1>6, <1>7 DEF IInv

-----------------------------------------------------------------------------
\* What a record says is told by it and the tables.
LEMMA SameTables ==
  ASSUME UNCHANGED tables, NEW q \in Requests, NEW x, req'[q] = x
  PROVE  /\ LeavingInStep(x) => LeavingInStep(req[q])'
         /\ Entitled(x) => Entitled(req[q])'
  <1>1. row' = row /\ msg' = msg BY DEF tables
  <1>2. \A c, m : Ever(c, m)' = Ever(c, m) BY <1>1 DEF Ever
  <1>3. Acting(x) = Acting(req[q])' /\ (IsAdmin(x) => IsAdmin(req[q])')
    BY <1>1, <1>2 DEF Acting, IsAdmin
  <1>4. \A o : MayEnd(x, o) => MayEnd(req[q], o)' BY <1>1, <1>3 DEF MayEnd
  <1>5. LeavingInStep(x) => LeavingInStep(req[q])' BY <1>4 DEF LeavingInStep
  <1>6. Entitled(x) => Entitled(req[q])' BY <1>1, <1>2, <1>3 DEF Entitled
  <1>7. QED BY <1>5, <1>6

\* A step that commits nothing keeps the invariant, if it keeps what is said of its own
\* request.
LEMMA LocalKeepsIInv ==
  ASSUME IInv, TypeOK', NEW r \in Requests, Frame(r), InStep(r)'
  PROVE  IInv'
  <1>1. UniqueRows' /\ Founded' /\ CreatorIsTheAdmin'
    BY DEF IInv, Frame, tables, UniqueRows, Founded, CreatorIsTheAdmin, IsCurrent
  <1>2. ASSUME NEW q \in Requests \ {r} PROVE InStep(q)'
    <2>1. req'[q] = req[q] /\ conv' = conv /\ row' = row /\ msg' = msg /\ InStep(q)
      BY <1>2 DEF IInv, Frame, tables
    <2>2. InProgram(q)' BY <2>1 DEF InStep, InProgram, Pending
    <2>3. InsertedInStep(q)' BY <2>1 DEF InStep, InsertedInStep, IsCurrent, SameKey
    <2>4. LeavingInStep(req[q])' /\ Entitled(req[q])'
      BY <2>1, SameTables DEF InStep, Frame
    <2>5. QED BY <2>2, <2>3, <2>4 DEF InStep
  <1>3. ASSUME NEW q \in Requests \ {r} PROVE Apart(r, q)' /\ Apart(q, r)'
    <2>1. req'[q] = req[q] /\ Apart(r, q) /\ Apart(q, r) /\ InStep(q)
      BY <1>3 DEF IInv, Frame
    <2>2. ASSUME NEW p \in req'[r].new, NEW o \in req[q].new PROVE ~SameKey(p, o)
      <3>1. CASE p \in req[r].new BY <2>1, <3>1 DEF Apart
      <3>2. CASE ~Pending(q, p[1], p[2])
        <4>1. o \in Rows BY <1>3 DEF IInv, TypeOK, Request
        <4>2. o = <<o[1], o[2], o[3]>> /\ o[3] \in Stays BY <4>1, RowForm
        <4>3. QED BY <3>2, <4>2 DEF Pending, SameKey
      <3>3. QED BY <1>3, <2>2, <3>1, <3>2 DEF Frame
    <2>3. req'[r].op = "create_conversation" => req[q].conv # req'[r].conv
      BY <2>1, NoneApart, <1>3 DEF Frame, Apart, InStep, InProgram, IInv, TypeOK, Request
    <2>4. req[q].op = "create_conversation" => req[q].conv # req'[r].conv
      BY <2>1, NoneApart, <1>3 DEF Frame, Apart, InStep, InProgram
    <2>5. req'[r].op = "send_message" => req[q].msg # req'[r].msg
      <3>1. req'[r].op = "send_message" => req'[r].msg # None
        BY NoneApart, <1>3 DEF InStep, InProgram
      <3>2. QED BY <2>1, <3>1, <1>3 DEF Frame, Apart
    <2>6. req[q].op = "send_message" => req[q].msg # req'[r].msg
      BY <2>1, NoneApart, <1>3 DEF Frame, Apart, InStep, InProgram
    <2>7. QED BY <2>1, <2>2, <2>3, <2>4, <2>5, <2>6 DEF Apart, SameKey
  <1>4. ASSUME NEW p \in Requests, NEW q \in Requests, p # q PROVE Apart(p, q)'
    <2>1. CASE p = r \/ q = r BY <1>3, <1>4, <2>1
    <2>2. CASE p # r /\ q # r BY <1>4, <2>2 DEF IInv, Frame, Apart
    <2>3. QED BY <2>1, <2>2
  <1>5. QED BY <1>1, <1>2, <1>4 DEF IInv

\* A request that ends without a commit.
LEMMA AbortKeepsIInv ==
  ASSUME IInv, NEW r \in Requests, Abort(r)
  PROVE  IInv'
  <1>1. req' = [req EXCEPT ![r] = Idle] /\ UNCHANGED tables BY DEF Abort
  <1>2. req'[r] = Idle /\ \A q \in Requests \ {r} : req'[q] = req[q]
    BY <1>1 DEF IInv, TypeOK
  <1>3. TypeOK' BY <1>1, IdleType DEF IInv, TypeOK, tables
  <1>4. Frame(r) BY <1>1, <1>2, IdleType DEF Frame
  <1>5. InStep(r)'
    BY <1>2, IdleType, NoneApart
       DEF InStep, InProgram, InsertedInStep, LeavingInStep, Entitled, Leaving, OnMessage, Routes
  <1>6. QED BY <1>3, <1>4, <1>5, LocalKeepsIInv

\* The participants that a member was and is no more.
LEMMA LeftRows ==
  ASSUME NEW c \in Convs, NEW m \in Members
  PROVE  \A p \in Left(c, m) : p \in Rows /\ row[p] # None /\ row[p].left
  BY RowForm DEF Left, Current, Ever

\* What a call must bring when it names a conversation or a message that exists.
Asks(call) ==
    /\ call \in Request
    /\ call.op \in Routes \ {"create_conversation"}
    /\ call.user \in Members /\ call.conv \in Convs /\ conv[call.conv] # None
    /\ call.new = {} /\ call.hold = {}
    /\ call.msg # None => call.op \in OnMessage
    /\ call.op \in {"edit_message", "delete_message"} =>
          call.msg \in Messages /\ msg[call.msg] # None /\ msg[call.msg].conv = call.conv
    /\ call.op = "send_message" => call.msg \in FreshMessages
    /\ call.op \in Leaving => call.todo = <<>>

\* The first steps of the routes that ask for a conversation and take no id keep the invariant.
LEMMA AskKeepsIInv ==
  ASSUME IInv, NEW r \in Requests, NEW call, Asks(call), Begin(r, call, "member")
  PROVE  IInv'
  <1> DEFINE begun == [call EXCEPT !.pc = "member", !.gone = Left(call.conv, call.user)]
  <1>0. \A p \in Left(call.conv, call.user) : p \in Rows /\ row[p] # None /\ row[p].left
    BY LeftRows DEF Asks
  <1>1. begun \in Request /\ begun.pc = "member" /\ begun.op = call.op /\ begun.conv = call.conv
        /\ begun.user = call.user /\ begun.new = {} /\ begun.hold = {} /\ begun.msg = call.msg
        /\ begun.todo = call.todo /\ begun.gone = Left(call.conv, call.user)
    BY <1>0 DEF Asks, Request
  <1>2. req' = [req EXCEPT ![r] = begun] /\ UNCHANGED tables BY DEF Begin
  <1> HIDE DEF begun
  <1>3. req'[r] = begun /\ \A q \in Requests \ {r} : req'[q] = req[q]
    BY <1>2 DEF IInv, TypeOK
  <1>4. TypeOK' BY <1>1, <1>2 DEF IInv, TypeOK, tables
  <1>5. Frame(r) BY <1>1, <1>2, <1>3 DEF Frame, Asks, OnMessage, FreshMessages
  <1>6. InStep(r)'
    <2>1. InProgram(r)' BY <1>1, <1>2, <1>3 DEF InProgram, Asks, tables, FreshMessages
    <2>2. InsertedInStep(r)' BY <1>1, <1>3 DEF InsertedInStep
    <2>3. LeavingInStep(begun) BY <1>1 DEF LeavingInStep, Asks
    <2>4. Entitled(begun) BY <1>0, <1>1 DEF Entitled, Asks
    <2>5. LeavingInStep(req[r])' /\ Entitled(req[r])' BY <1>2, <1>3, <2>3, <2>4, SameTables
    <2>6. QED BY <2>1, <2>2, <2>5 DEF InStep
  <1>7. QED BY <1>4, <1>5, <1>6, LocalKeepsIInv

\* create_conversation and its participants: the ids are fresh.
LEMMA CreateKeepsIInv ==
  ASSUME IInv, NEW r \in Requests, NEW u \in Members, NEW kind \in {"direct", "group"},
         NEW others \in SUBSET Members, CreateConversation(r, u, kind, others)
  PROVE  IInv'
  <1> DEFINE call(c) == [Idle EXCEPT !.op = "create_conversation", !.user = u, !.conv = c,
                                    !.type = kind, !.new = {c} \X ({u} \cup others) \X {1}]
  <1>1. PICK c \in FreshConvs : Begin(r, call(c), "write") BY DEF CreateConversation
  <1> DEFINE made == [call(c) EXCEPT !.pc = "write", !.gone = Left(call(c).conv, call(c).user)]
  <1>2. c \in Convs /\ conv[c] = None /\ \A q \in Requests : req[q].conv # c
    BY DEF FreshConvs
  <1>3. {c} \X ({u} \cup others) \X {1} \subseteq Rows
    BY <1>2, RowForm DEF Rows
  <1>4. /\ made \in Request /\ made.pc = "write" /\ made.op = "create_conversation"
        /\ made.conv = c /\ made.user = u /\ made.type = kind /\ made.hold = {}
        /\ made.msg = None /\ made.todo = <<>> /\ made.new = {c} \X ({u} \cup others) \X {1}
        /\ \A p \in made.gone : p \in Rows /\ row[p] # None /\ row[p].left
    <2>1. ASSUME NEW x \in Request, NEW inserted \in SUBSET Rows
          PROVE  LET y == [x EXCEPT !.op = "create_conversation", !.user = u, !.conv = c,
                                    !.type = kind, !.new = inserted]
                 IN  /\ y \in Request /\ y.op = "create_conversation"
                     /\ y.conv = c /\ y.user = u /\ y.type = kind /\ y.hold = x.hold
                     /\ y.msg = x.msg /\ y.new = inserted /\ y.todo = x.todo
      BY <1>2, <2>1 DEF Request, Routes
    <2>2. /\ call(c) \in Request /\ call(c).op = "create_conversation"
          /\ call(c).conv = c /\ call(c).user = u /\ call(c).type = kind /\ call(c).hold = {}
          /\ call(c).msg = None /\ call(c).todo = <<>> /\ call(c).new = {c} \X ({u} \cup others) \X {1}
      BY <1>3, <2>1, IdleType
    <2>3. ASSUME NEW x \in Request, NEW gone \in SUBSET Rows
          PROVE  LET y == [x EXCEPT !.pc = "write", !.gone = gone]
                 IN  /\ y \in Request /\ y.gone = gone /\ y.pc = "write" /\ y.op = x.op /\ y.conv = x.conv
                     /\ y.user = x.user /\ y.type = x.type /\ y.hold = x.hold
                     /\ y.msg = x.msg /\ y.new = x.new /\ y.todo = x.todo
      BY DEF Request
    <2>4. \A p \in Left(c, u) : p \in Rows /\ row[p] # None /\ row[p].left
      BY <1>2, LeftRows
    <2>5. Left(c, u) \in SUBSET Rows BY <2>4
    <2> DEFINE base == call(c)
               gone == Left(c, u)
    <2>6. made = [base EXCEPT !.pc = "write", !.gone = gone] BY <2>2
    <2>7. base \in Request /\ gone \in SUBSET Rows BY <2>2, <2>5
    <2>8. /\ base.op = "create_conversation" /\ base.conv = c /\ base.user = u
          /\ base.type = kind /\ base.hold = {} /\ base.msg = None /\ base.todo = <<>>
          /\ base.new = {c} \X ({u} \cup others) \X {1}
      BY <2>2
    <2>9. \A p \in gone : p \in Rows /\ row[p] # None /\ row[p].left BY <2>4
    <2> HIDE DEF base, made, gone
    <2>10. /\ made \in Request /\ made.gone = gone /\ made.pc = "write" /\ made.op = base.op
           /\ made.conv = base.conv /\ made.user = base.user /\ made.type = base.type
           /\ made.hold = base.hold /\ made.msg = base.msg /\ made.new = base.new
           /\ made.todo = base.todo
      BY <2>3, <2>6, <2>7
    <2>11. QED BY <2>8, <2>9, <2>10
  <1>5. req' = [req EXCEPT ![r] = made] /\ UNCHANGED tables BY <1>1 DEF Begin
  <1> HIDE DEF made
  <1>6. req'[r] = made /\ \A q \in Requests \ {r} : req'[q] = req[q]
    BY <1>5 DEF IInv, TypeOK
  <1>7. TypeOK' BY <1>4, <1>5 DEF IInv, TypeOK, tables
  <1>8. \A p \in made.new : p \in Rows /\ p[1] = c /\ p[3] = 1 /\ p = <<p[1], p[2], p[3]>>
    BY <1>3, <1>4, RowForm
  <1>9. \A p \in Rows : p[1] = c => row[p] = None
    BY <1>2 DEF IInv, TypeOK
  <1>10. ASSUME NEW q \in Requests \ {r}, NEW p \in made.new PROVE ~Pending(q, p[1], p[2])
    BY <1>2, <1>8, <1>10 DEF IInv, InStep, InsertedInStep, Pending
  <1>11. Frame(r)
    <2>1. \A p \in req'[r].new : \A q \in Requests \ {r} : ~Pending(q, p[1], p[2])
      BY <1>6, <1>10
    <2>2. \A q \in Requests \ {r} : req[q].conv # req'[r].conv BY <1>2, <1>4, <1>6
    <2>3. QED BY <1>4, <1>5, <1>6, <2>1, <2>2 DEF Frame
  <1>12. InStep(r)'
    <2>1. <<c, u, 1>> \in made.new BY <1>4
    <2>2. InProgram(r)' BY <1>2, <1>4, <1>5, <1>6, <2>1 DEF InProgram, tables
    <2>3. row' = row BY <1>5 DEF tables
    <2>4. InsertedInStep(r)'
      BY <1>4, <1>6, <1>8, <1>9, <2>3 DEF InsertedInStep, IsCurrent, SameKey
    <2>5. LeavingInStep(made) /\ Entitled(made)
      BY <1>4 DEF LeavingInStep, Leaving, Entitled
    <2>6. LeavingInStep(req[r])' /\ Entitled(req[r])' BY <1>5, <1>6, <2>5, SameTables
    <2>7. QED BY <2>2, <2>4, <2>6 DEF InStep
  <1>13. QED BY <1>7, <1>11, <1>12, LocalKeepsIInv

\* Every call keeps the invariant.
LEMMA CallKeepsIInv ==
  ASSUME IInv, NEW r \in Requests, Call(r)
  PROVE  IInv'
  <1> PICK u \in Members :
         \/ \E type \in {"direct", "group"}, others \in SUBSET Members :
               CreateConversation(r, u, type, others)
         \/ \E c \in Convs :
               \/ UpdateTitle(r, u, c) \/ UpdateSettings(r, u, c) \/ DeleteConversation(r, u, c)
               \/ \E members \in AddLists : AddParticipants(r, u, c, members)
               \/ RemoveParticipant(r, u, c) \/ LeaveConversation(r, u, c)
               \/ SendMessage(r, u, c) \/ MarkRead(r, u, c)
         \/ \E m \in Messages : EditMessage(r, u, m) \/ DeleteMessage(r, u, m)
    BY DEF Call
  <1>1. ASSUME NEW op \in Routes \ ({"create_conversation"} \cup OnMessage), NEW c \in Convs,
               NEW todo \in Seq(Objects), op \in Leaving => todo = <<>>, Ask(r, op, u, c, todo)
        PROVE  IInv'
    <2>1. Asks([Idle EXCEPT !.op = op, !.user = u, !.conv = c, !.todo = todo])
      BY <1>1, IdleType DEF Asks, Ask, Open, Request, Idle, Leaving, OnMessage
    <2>2. QED BY <1>1, <2>1, AskKeepsIInv DEF Ask
  <1>2. ASSUME NEW c \in Convs PROVE <<>> \in Seq(Objects) /\ <<c>> \in Seq(Objects)
    BY <1>2 DEF Objects
  <1>3. CASE \E type \in {"direct", "group"}, others \in SUBSET Members :
               CreateConversation(r, u, type, others)
    BY <1>3, CreateKeepsIInv
  <1>4. CASE \E c \in Convs :
               \/ UpdateTitle(r, u, c) \/ UpdateSettings(r, u, c) \/ DeleteConversation(r, u, c)
               \/ RemoveParticipant(r, u, c) \/ LeaveConversation(r, u, c) \/ MarkRead(r, u, c)
    BY <1>1, <1>2, <1>4
       DEF UpdateTitle, UpdateSettings, DeleteConversation, RemoveParticipant, LeaveConversation,
           MarkRead, Routes, OnMessage, Leaving
  <1>5. ASSUME NEW c \in Convs, NEW members \in AddLists, AddParticipants(r, u, c, members)
        PROVE  IInv'
    <2>1. members \in Seq(Members) BY <1>5, BoundAssumption DEF AddLists
    <2>2. Asks([Idle EXCEPT !.op = "add_participants", !.user = u, !.conv = c, !.add = members])
      BY <1>5, <2>1, IdleType DEF Asks, AddParticipants, Open, Request, Idle, Leaving, Routes
    <2>3. QED BY <1>5, <2>2, AskKeepsIInv DEF AddParticipants
  <1>6. ASSUME NEW c \in Convs, SendMessage(r, u, c) PROVE IInv'
    <2>1. PICK m \in FreshMessages :
             Begin(r, [Idle EXCEPT !.op = "send_message", !.user = u, !.conv = c, !.msg = m,
                                   !.todo = <<c>>], "member")
      BY <1>6 DEF SendMessage
    <2>2. Asks([Idle EXCEPT !.op = "send_message", !.user = u, !.conv = c, !.msg = m,
                            !.todo = <<c>>])
      BY <1>2, <1>6, IdleType
         DEF Asks, SendMessage, Open, Request, Idle, Leaving, OnMessage, Routes, FreshMessages
    <2>3. QED BY <2>1, <2>2, AskKeepsIInv
  <1>7. ASSUME NEW m \in Messages, NEW op \in {"edit_message", "delete_message"},
               ChangeMessage(r, op, u, m)
        PROVE  IInv'
    <2>1. msg[m] # None /\ msg[m].conv \in Convs /\ conv[msg[m].conv] # None
      BY <1>7 DEF ChangeMessage, Readable, IInv, TypeOK, Message
    <2>2. Asks([Idle EXCEPT !.op = op, !.user = u, !.conv = msg[m].conv, !.msg = m,
                            !.todo = <<m>>])
      <3>1. <<m>> \in Seq(Objects) BY DEF Objects
      <3>2. QED BY <1>7, <2>1, <3>1, IdleType
                DEF Asks, Request, Idle, Leaving, OnMessage, Routes
    <2>3. QED BY <1>7, <2>2, AskKeepsIInv DEF ChangeMessage
  <1>8. QED BY <1>3, <1>4, <1>5, <1>6, <1>7 DEF EditMessage, DeleteMessage

-----------------------------------------------------------------------------
\* A step of r that assigns what a statement assigns to its record, and what else is
\* said of the record then.
LEMMA StatementKeepsIInv ==
  ASSUME IInv, NEW r \in Requests, UNCHANGED tables, NEW x \in Request,
         req' = [req EXCEPT ![r] = x],
         req[r].op # "create_conversation" /\ req[r].pc # "idle",
         x.op = req[r].op /\ x.conv = req[r].conv /\ x.user = req[r].user /\ x.msg = req[r].msg,
         x.gone = req[r].gone,
         x.pc # "idle",
         x.pc \in {"check", "insert"} => x.op = "add_participants",
         x.pc = "insert" => x.add # <<>> /\ \A p \in x.new : p[2] # Head(x.add),
         x.pc = "target" => x.op = "remove_participant",
         \A p \in x.new \ req[r].new :
            /\ p[1] = x.conv /\ row[p] = None
            /\ \A q \in Rows : IsCurrent(q) => ~SameKey(p, q)
            /\ \A q \in Requests \ {r} : ~Pending(q, p[1], p[2]),
         \A p, q \in x.new : SameKey(p, q) => p = q,
         LeavingInStep(x), Entitled(x)
  PROVE  IInv'
  <1>1. req'[r] = x /\ \A q \in Requests \ {r} : req'[q] = req[q]
    BY DEF IInv, TypeOK
  <1>2. TypeOK' BY DEF IInv, TypeOK, tables
  <1>3. conv' = conv /\ row' = row /\ msg' = msg BY DEF tables
  <1>4. InStep(r) BY DEF IInv
  <1>5. Frame(r) BY <1>1 DEF Frame
  <1>6. InProgram(r)'
    <2>1. ASSUME x.pc = "insert" PROVE ~Pending(r, x.conv, Head(x.add))'
      <3>1. ASSUME NEW k \in Stays PROVE <<x.conv, Head(x.add), k>> \notin x.new
        BY <2>1
      <3>2. QED BY <1>1, <3>1 DEF Pending
    <2>2. QED BY <1>1, <1>3, <1>4, <2>1 DEF InStep, InProgram
  <1>7. InsertedInStep(r)'
    BY <1>1, <1>3, <1>4 DEF InStep, InsertedInStep, IsCurrent, SameKey
  <1>8. LeavingInStep(req[r])' /\ Entitled(req[r])'
    BY <1>1, SameTables
  <1>9. QED BY <1>2, <1>5, <1>6, <1>7, <1>8, LocalKeepsIInv DEF InStep

\* What the participants of a member are.
LEMMA CurrentRows ==
  ASSUME IInv, NEW c \in Convs, NEW m \in Members
  PROVE  /\ \A p \in Ever(c, m) : p \in Rows /\ row[p] # None /\ p[1] = c /\ p[2] = m
         /\ \A p \in Current(c, m) : p \in Ever(c, m) /\ IsCurrent(p)
         /\ \A p \in Rows : IsCurrent(p) /\ p[1] = c /\ p[2] = m => p \in Current(c, m)
  <1>1. \A p \in Ever(c, m) : p \in Rows /\ row[p] # None /\ p[1] = c /\ p[2] = m
    BY RowForm DEF Ever
  <1>2. \A p \in Rows : row[p] # None /\ p[1] = c /\ p[2] = m => p \in Ever(c, m)
    BY RowForm DEF Ever
  <1>3. QED BY <1>1, <1>2 DEF Current, IsCurrent

\* _require_participant keeps the invariant.
LEMMA ReadParticipantKeepsIInv ==
  ASSUME IInv, NEW r \in Requests, ReadParticipant(r)
  PROVE  IInv'
  <1>1. CASE Abort(r) BY <1>1, AbortKeepsIInv
  <1>2. ASSUME NEW p \in Current(req[r].conv, req[r].user), Allowed(r, p), Proceed(r, p)
        PROVE  IInv'
    <2>1. req[r] \in Request /\ req[r].pc = "member" /\ InStep(r)
      BY DEF ReadParticipant, At, IInv, TypeOK
    <2>2. req[r].op # "create_conversation" /\ req[r].conv \in Convs /\ req[r].user \in Members
      BY <2>1 DEF InStep, InProgram
    <2>3. /\ p \in Rows /\ row[p] # None /\ p[1] = req[r].conv /\ p[2] = req[r].user
          /\ p \in Acting(req[r])
      <3>1. \A o \in req[r].gone : row[o].left BY <2>1 DEF InStep, Entitled
      <3>2. QED BY <1>2, <2>2, <3>1, CurrentRows DEF IsCurrent, Acting
    <2>4. PICK todo \in Writes(r, p) :
             req' = [req EXCEPT ![r] = [@ EXCEPT !.pc = NextStatement(r), !.me = p, !.todo = todo]]
      BY <1>2 DEF Proceed
    <2>5. todo \in Seq(Objects) /\ (req[r].op \in Leaving => todo = <<p>> \/ todo = req[r].todo)
      <3>1. <<p>> \in Seq(Objects) /\ req[r].todo \in Seq(Objects)
        BY <2>1, <2>3 DEF Objects, Request
      <3>2. <<p>> \o req[r].todo \in Seq(Objects) BY <3>1, ConcatProperties
      <3>3. QED BY <3>1, <3>2 DEF Writes, Leaving
    <2> DEFINE x == [req[r] EXCEPT !.pc = NextStatement(r), !.me = p, !.todo = todo]
    <2>6. NextStatement(r) \in {"check", "target", "write"} BY DEF NextStatement
    <2>7. /\ x \in Request /\ x.pc = NextStatement(r) /\ x.op = req[r].op
          /\ x.conv = req[r].conv /\ x.user = req[r].user /\ x.msg = req[r].msg
          /\ x.gone = req[r].gone
          /\ x.new = req[r].new /\ x.hold = req[r].hold /\ x.todo = todo /\ x.me = p
      BY <2>1, <2>3, <2>5, <2>6 DEF Request
    <2>8. req' = [req EXCEPT ![r] = x] BY <2>4
    <2> HIDE DEF x
    <2>9. /\ x.pc = "check" => x.op = "add_participants"
          /\ x.pc = "target" => x.op = "remove_participant"
          /\ x.pc # "idle" /\ x.pc # "insert"
      BY <2>7 DEF NextStatement
    <2>10. \A i \in 1..Len(<<p>>) : <<p>>[i] = p OBVIOUS
    <2>11. LeavingInStep(x)
      <3>1. MayEnd(x, p) BY <2>3, <2>7 DEF MayEnd
      <3>2. \A o : MayEnd(req[r], o) => MayEnd(x, o)
        BY <2>7 DEF MayEnd, IsAdmin, Acting
      <3>3. QED BY <2>1, <2>5, <2>7, <2>10, <3>1, <3>2 DEF InStep, LeavingInStep
    <2>12. \A o, q \in x.new : SameKey(o, q) => o = q
      BY <2>1, <2>7 DEF InStep, InsertedInStep
    <2>13. UNCHANGED tables BY <1>2 DEF Proceed
    <2>14. Entitled(x)
      <3>1. p \in Acting(x) BY <2>3, <2>7 DEF Acting
      <3>2. row[p].admin => IsAdmin(x) BY <3>1 DEF IsAdmin
      <3>3. Entitled(req[r]) BY <2>1 DEF InStep
      <3>4. QED BY <1>2, <2>7, <3>1, <3>2, <3>3 DEF Entitled, Allowed
    <2>15. QED BY <2>1, <2>2, <2>7, <2>8, <2>9, <2>11, <2>12, <2>13, <2>14, StatementKeepsIInv
  <1>3. QED BY <1>1, <1>2 DEF ReadParticipant

\* remove_participant and leave read the row that they end.
LEMMA ReadTargetKeepsIInv ==
  ASSUME IInv, NEW r \in Requests, ReadTarget(r)
  PROVE  IInv'
  <1>1. CASE Abort(r) BY <1>1, AbortKeepsIInv
  <1>2. ASSUME NEW m \in Members, NEW p \in Ever(req[r].conv, m), UNCHANGED tables,
               m = req[r].user \/ row[req[r].me].admin,
               req' = [req EXCEPT ![r] = [@ EXCEPT !.pc = "write", !.todo = <<p>>]]
        PROVE  IInv'
    <2>1. req[r] \in Request /\ req[r].pc = "target" /\ InStep(r)
      BY DEF ReadTarget, At, IInv, TypeOK
    <2>2. req[r].op # "create_conversation" /\ req[r].conv \in Convs
      BY <2>1 DEF InStep, InProgram
    <2>3. p \in Rows /\ row[p] # None /\ p[1] = req[r].conv /\ p[2] = m
      BY <1>2, <2>2, CurrentRows
    <2>4. <<p>> \in Seq(Objects) /\ \A i \in 1..Len(<<p>>) : <<p>>[i] = p
      BY <2>3 DEF Objects
    <2> DEFINE x == [req[r] EXCEPT !.pc = "write", !.todo = <<p>>]
    <2>5. /\ x \in Request /\ x.pc = "write" /\ x.op = req[r].op
          /\ x.conv = req[r].conv /\ x.user = req[r].user /\ x.msg = req[r].msg
          /\ x.gone = req[r].gone
          /\ x.new = req[r].new /\ x.hold = req[r].hold /\ x.todo = <<p>>
      BY <2>1, <2>4 DEF Request
    <2>6. req' = [req EXCEPT ![r] = x] BY <1>2
    <2> HIDE DEF x
    <2>7. LeavingInStep(x)
      <3>1. row[req[r].me].admin => IsAdmin(x)
        BY <2>1, <2>5 DEF InStep, Entitled, IsAdmin, Acting
      <3>2. MayEnd(x, p) BY <1>2, <2>3, <2>5, <3>1 DEF MayEnd
      <3>3. \A o : MayEnd(req[r], o) => MayEnd(x, o)
        BY <2>5 DEF MayEnd, IsAdmin, Acting
      <3>4. QED BY <2>1, <2>4, <2>5, <3>2, <3>3 DEF InStep, LeavingInStep
    <2>8. \A o, q \in x.new : SameKey(o, q) => o = q
      BY <2>1, <2>5 DEF InStep, InsertedInStep
    <2>9. Entitled(x) BY <2>1, <2>5 DEF InStep, Entitled, IsAdmin, Acting
    <2>10. QED BY <1>2, <2>1, <2>2, <2>5, <2>6, <2>7, <2>8, <2>9, StatementKeepsIInv
  <1>3. QED BY <1>1, <1>2 DEF ReadTarget

\* add_participants looks for a current row of each member it adds.
LEMMA CheckMemberKeepsIInv ==
  ASSUME IInv, NEW r \in Requests, CheckMember(r)
  PROVE  IInv'
  <1>1. req[r] \in Request /\ req[r].pc = "check" /\ InStep(r) /\ req[r].add # <<>>
        /\ UNCHANGED tables
    BY DEF CheckMember, At, IInv, TypeOK
  <1>2. req[r].op = "add_participants" BY <1>1 DEF InStep, InProgram
  <1>3. \A o, q \in req[r].new : SameKey(o, q) => o = q
    BY <1>1 DEF InStep, InsertedInStep
  <1>4. req[r].op \notin Leaving BY <1>2 DEF Leaving
  <1>5. req[r].add \in Seq(Members) BY <1>1 DEF Request
  <1>6. CASE req' = [req EXCEPT ![r] = [@ EXCEPT !.add = Tail(req[r].add)]]
    <2> DEFINE x == [req[r] EXCEPT !.add = Tail(req[r].add)]
    <2>1. Tail(req[r].add) \in Seq(Members) BY <1>1, <1>5, HeadTailProperties
    <2>2. /\ x \in Request /\ x.pc = "check" /\ x.op = req[r].op /\ x.conv = req[r].conv
          /\ x.user = req[r].user /\ x.msg = req[r].msg /\ x.gone = req[r].gone
          /\ x.new = req[r].new
      BY <1>1, <2>1 DEF Request
    <2>3. req' = [req EXCEPT ![r] = x] BY <1>6
    <2> HIDE DEF x
    <2>4. LeavingInStep(x) /\ Entitled(x)
      BY <1>1, <1>2, <1>4, <2>2 DEF InStep, Entitled, LeavingInStep, IsAdmin, Acting
    <2>5. QED BY <1>1, <1>2, <1>3, <2>2, <2>3, <2>4, StatementKeepsIInv
  <1>7. CASE /\ ~Pending(r, req[r].conv, Head(req[r].add))
             /\ req' = [req EXCEPT ![r] = [@ EXCEPT !.pc = "insert"]]
    <2> DEFINE x == [req[r] EXCEPT !.pc = "insert"]
    <2>1. /\ x \in Request /\ x.pc = "insert" /\ x.op = req[r].op /\ x.conv = req[r].conv
          /\ x.user = req[r].user /\ x.msg = req[r].msg /\ x.gone = req[r].gone
          /\ x.new = req[r].new
          /\ x.add = req[r].add
      BY <1>1 DEF Request
    <2>2. req' = [req EXCEPT ![r] = x] BY <1>7
    <2> HIDE DEF x
    <2>3. ASSUME NEW p \in req[r].new PROVE p[2] # Head(req[r].add)
      <3>1. p \in Rows /\ p[1] = req[r].conv BY <1>1 DEF Request, InStep, InsertedInStep
      <3>2. p = <<p[1], p[2], p[3]>> /\ p[3] \in Stays BY <3>1, RowForm
      <3>3. QED BY <1>7, <3>1, <3>2 DEF Pending
    <2>4. LeavingInStep(x) /\ Entitled(x)
      BY <1>1, <1>2, <1>4, <2>1 DEF InStep, Entitled, LeavingInStep, IsAdmin, Acting
    <2>5. QED BY <1>1, <1>2, <1>3, <2>1, <2>2, <2>3, <2>4, StatementKeepsIInv
  <1>8. QED BY <1>6, <1>7 DEF CheckMember

\* There is one next id of a member's participant, and it names no row.
LEMMA FreshIds ==
  ASSUME NEW c \in Convs, NEW m \in Members
  PROVE  /\ \A p \in FreshRows(c, m) : p \in Rows /\ row[p] = None /\ p[1] = c /\ p[2] = m
         /\ \A p, q \in FreshRows(c, m) : p = q
  <1>1. ASSUME NEW p \in FreshRows(c, m)
        PROVE  \E k \in Stays : /\ p = <<c, m, k>> /\ ~Taken(<<c, m, k>>)
                                /\ \A j \in 1..(k - 1) : Taken(<<c, m, j>>)
    BY <1>1 DEF FreshRows
  <1>2. \A p \in FreshRows(c, m) : p \in Rows /\ row[p] = None /\ p[1] = c /\ p[2] = m
    <2>1. ASSUME NEW p \in FreshRows(c, m)
          PROVE  p \in Rows /\ row[p] = None /\ p[1] = c /\ p[2] = m
      <3>1. PICK k \in Stays : p = <<c, m, k>> /\ ~Taken(p) BY <1>1, <2>1
      <3>2. QED BY <3>1, RowForm DEF Taken
    <2>2. QED BY <2>1
  <1>3. ASSUME NEW j \in Stays, NEW k \in Stays, ~Taken(<<c, m, j>>), ~Taken(<<c, m, k>>),
               \A i \in 1..(j - 1) : Taken(<<c, m, i>>),
               \A i \in 1..(k - 1) : Taken(<<c, m, i>>)
        PROVE  j = k
    <2>1. ~(j < k) /\ ~(k < j) BY <1>3, BoundAssumption DEF Stays
    <2>2. QED BY <2>1, BoundAssumption DEF Stays
  <1>4. QED BY <1>1, <1>2, <1>3

\* An INSERT that the index lets in has a key that nobody else has, committed or not.
LEMMA InsertParticipantKeepsIInv ==
  ASSUME IInv, NEW r \in Requests, InsertParticipant(r)
  PROVE  IInv'
  <1>1. CASE Abort(r) BY <1>1, AbortKeepsIInv
  <1>2. CASE ~Abort(r)
    <2> DEFINE c == req[r].conv
               m == Head(req[r].add)
               fresh == FreshRows(c, m)
               x == [req[r] EXCEPT !.pc = "check", !.add = Tail(req[r].add),
                                   !.new = req[r].new \cup fresh]
    <2>1. req[r] \in Request /\ req[r].pc = "insert" /\ InStep(r)
      BY DEF InsertParticipant, At, IInv, TypeOK
    <2>2. /\ req[r].op = "add_participants" /\ req[r].add # <<>> /\ c \in Convs
          /\ ~Pending(r, c, m)
      BY <2>1 DEF InStep, InProgram
    <2>3. req[r].add \in Seq(Members) BY <2>1 DEF Request
    <2>4. m \in Members /\ Tail(req[r].add) \in Seq(Members)
      BY <2>2, <2>3, HeadTailProperties
    <2>5. Current(c, m) = {} /\ UNCHANGED tables /\ req' = [req EXCEPT ![r] = x]
      BY <1>2 DEF InsertParticipant, Insert
    <2>6. \A q \in Requests \ {r} : ~Pending(q, c, m)
      BY <2>1 DEF InsertParticipant, Blockers, At
    <2>7. \A p \in fresh : p \in Rows /\ row[p] = None /\ p[1] = c /\ p[2] = m
      BY <2>2, <2>4, FreshIds
    <2>8. \A p, q \in fresh : p = q
      BY <2>2, <2>4, FreshIds
    <2>9. /\ x \in Request /\ x.pc = "check" /\ x.op = req[r].op /\ x.conv = c
          /\ x.user = req[r].user /\ x.msg = req[r].msg /\ x.gone = req[r].gone
          /\ x.new = req[r].new \cup fresh
      BY <2>1, <2>4, <2>7 DEF Request
    <2>10. \A p \in req[r].new : ~(p[1] = c /\ p[2] = m)
      <3>1. ASSUME NEW p \in req[r].new PROVE ~(p[1] = c /\ p[2] = m)
        <4>1. p \in Rows BY <2>1 DEF Request
        <4>2. p = <<p[1], p[2], p[3]>> /\ p[3] \in Stays BY <4>1, RowForm
        <4>3. QED BY <2>2, <4>2 DEF Pending
      <3>2. QED BY <3>1
    <2>11. \A p \in fresh : \A q \in Rows : IsCurrent(q) => ~SameKey(p, q)
      BY <2>2, <2>4, <2>5, <2>7, CurrentRows DEF SameKey
    <2>12. \A p \in fresh : \A q \in Requests \ {r} : ~Pending(q, p[1], p[2])
      BY <2>6, <2>7
    <2> HIDE DEF x, fresh
    <2>13. \A p, q \in x.new : SameKey(p, q) => p = q
      <3>1. \A p, q \in req[r].new : SameKey(p, q) => p = q
        BY <2>1 DEF InStep, InsertedInStep
      <3>2. QED BY <2>7, <2>8, <2>9, <2>10, <3>1 DEF SameKey
    <2>14. \A p \in x.new \ req[r].new :
              /\ p[1] = x.conv /\ row[p] = None
              /\ \A q \in Rows : IsCurrent(q) => ~SameKey(p, q)
              /\ \A q \in Requests \ {r} : ~Pending(q, p[1], p[2])
      BY <2>7, <2>9, <2>11, <2>12
    <2>15. req[r].op \notin Leaving BY <2>2 DEF Leaving
    <2>16. LeavingInStep(x) /\ Entitled(x)
      BY <2>1, <2>2, <2>9, <2>15 DEF InStep, Entitled, LeavingInStep, IsAdmin, Acting
    <2>17. QED BY <2>1, <2>2, <2>5, <2>9, <2>13, <2>14, <2>16, StatementKeepsIInv
  <1>3. QED BY <1>1, <1>2

\* An UPDATE of a row that no other request has written.
LEMMA WriteKeepsIInv ==
  ASSUME IInv, NEW r \in Requests, Write(r)
  PROVE  IInv'
  <1> DEFINE x == [req[r] EXCEPT !.todo = Tail(req[r].todo),
                                 !.hold = req[r].hold \cup {Head(req[r].todo)}]
  <1>1. req[r] \in Request /\ req[r].pc = "write" /\ InStep(r) /\ req[r].todo # <<>>
    BY DEF Write, At, IInv, TypeOK
  <1>0. UNCHANGED tables /\ req' = [req EXCEPT ![r] = x] BY DEF Write
  <1>2. req[r].todo \in Seq(Objects) BY <1>1 DEF Request
  <1>3. /\ Head(req[r].todo) \in Objects /\ Tail(req[r].todo) \in Seq(Objects)
        /\ Len(Tail(req[r].todo)) = Len(req[r].todo) - 1
        /\ \A i \in 1..Len(Tail(req[r].todo)) : Tail(req[r].todo)[i] = req[r].todo[i + 1]
    BY <1>1, <1>2, HeadTailProperties
  <1>4. Len(req[r].todo) \in Nat /\ Len(req[r].todo) # 0 /\ Head(req[r].todo) = req[r].todo[1]
    BY <1>1, <1>2, LenProperties, EmptySeq
  <1>5. /\ x \in Request /\ x.pc = "write" /\ x.op = req[r].op /\ x.conv = req[r].conv
        /\ x.user = req[r].user /\ x.msg = req[r].msg /\ x.gone = req[r].gone
          /\ x.new = req[r].new
        /\ x.todo = Tail(req[r].todo) /\ x.hold = req[r].hold \cup {Head(req[r].todo)}
    BY <1>1, <1>3 DEF Request
  <1> HIDE DEF x
  <1>6. \A o, q \in x.new : SameKey(o, q) => o = q
    BY <1>1, <1>5 DEF InStep, InsertedInStep
  <1>7. req[r].op # "create_conversation" BY <1>1 DEF InStep, InProgram
  <1>8. LeavingInStep(x)
    <2>1. \A o : MayEnd(req[r], o) => MayEnd(x, o)
      BY <1>5 DEF MayEnd, IsAdmin, Acting
    <2>2. CASE req[r].op \in Leaving
      <3>1. /\ \A o \in req[r].hold : MayEnd(x, o)
            /\ \A i \in 1..Len(req[r].todo) : MayEnd(x, req[r].todo[i])
        BY <1>1, <2>1, <2>2 DEF InStep, LeavingInStep
      <3>2. \A o \in x.hold : MayEnd(x, o) BY <1>4, <1>5, <3>1
      <3>3. \A i \in 1..Len(x.todo) : MayEnd(x, x.todo[i]) BY <1>3, <1>4, <1>5, <3>1
      <3>4. QED BY <3>2, <3>3 DEF LeavingInStep
    <2>3. QED BY <1>5, <2>2 DEF LeavingInStep
  <1>9. Entitled(x) BY <1>1, <1>5 DEF InStep, Entitled, IsAdmin, Acting
  <1>10. QED BY <1>0, <1>1, <1>5, <1>6, <1>7, <1>8, <1>9, StatementKeepsIInv

-----------------------------------------------------------------------------
\* What a commit does to each table.
LEMMA CommittedConvs ==
  ASSUME IInv, NEW r \in Requests, Commit(r)
  PROVE  /\ conv' \in [Convs -> Conversation \cup {None}]
         /\ \A c \in Convs : conv[c] # None =>
               conv'[c] # None /\ conv'[c] \in {conv[c], [conv[c] EXCEPT !.deleted = TRUE]}
         /\ \A c \in Convs : conv'[c] # conv[c] => c = req[r].conv
         /\ req[r].op = "create_conversation" =>
               conv'[req[r].conv] # None /\ conv'[req[r].conv].creator = req[r].user
         /\ req[r].op # "create_conversation" =>
               \A c \in Convs : conv[c] = None => conv'[c] = None
  <1>1. InStep(r) /\ req[r].pc # "idle" /\ conv \in [Convs -> Conversation \cup {None}]
    BY DEF IInv, TypeOK, Commit, Done, At
  <1>2. ASSUME NEW c \in Convs PROVE conv'[c] = ConvOf(r, c)
    BY DEF Commit
  <1>3. CASE req[r].op = "create_conversation"
    <2> DEFINE made == [type |-> req[r].type, creator |-> req[r].user, deleted |-> FALSE]
    <2>1. made \in Conversation /\ conv[req[r].conv] = None /\ req[r].conv \in Convs
      BY <1>1, <1>3 DEF InStep, InProgram, Conversation
    <2>2. conv'[req[r].conv] = made BY <1>2, <1>3, <2>1 DEF ConvOf
    <2>3. \A c \in Convs : c # req[r].conv => conv'[c] = conv[c] BY <1>2 DEF ConvOf
    <2>4. made # None /\ made.creator = req[r].user BY <2>1, NoneApart
    <2>5. conv' \in [Convs -> Conversation \cup {None}]
      <3>1. conv' = [c \in Convs |-> ConvOf(r, c)] BY DEF Commit
      <3>2. \A c \in Convs : ConvOf(r, c) \in Conversation \cup {None}
        BY <1>1, <1>2, <2>1, <2>2, <2>3
      <3>3. QED BY <3>1, <3>2
    <2> HIDE DEF made
    <2>6. QED BY <1>3, <2>1, <2>2, <2>3, <2>4, <2>5
  <1>4. CASE req[r].op # "create_conversation"
    <2>1. \A c \in Convs : conv[c] # None =>
             /\ [conv[c] EXCEPT !.deleted = TRUE] \in Conversation
             /\ [conv[c] EXCEPT !.deleted = TRUE] # None
      BY <1>1, NoneApart DEF Conversation
    <2>2. conv[req[r].conv] # None BY <1>1, <1>4 DEF InStep, InProgram
    <2>3. ASSUME NEW c \in Convs
          PROVE  /\ ConvOf(r, c) = conv[c] \/ (c = req[r].conv /\
                                                ConvOf(r, c) = [conv[c] EXCEPT !.deleted = TRUE])
      BY <1>4 DEF ConvOf
    <2>4. conv' = [c \in Convs |-> ConvOf(r, c)] BY DEF Commit
    <2>5. \A c \in Convs : ConvOf(r, c) \in Conversation \cup {None}
      BY <1>1, <2>1, <2>2, <2>3
    <2>6. QED BY <1>1, <1>2, <1>4, <2>1, <2>2, <2>3, <2>4, <2>5
  <1>5. QED BY <1>3, <1>4

\* A row that a request inserts is current, and an admin's just if it is the creator's of a
\* new conversation; another one stays or is left.
LEMMA CommittedRows ==
  ASSUME IInv, NEW r \in Requests, Commit(r)
  PROVE  /\ row' \in [Rows -> Participant \cup {None}]
         /\ \A p \in req[r].new : /\ row'[p] # None /\ ~row'[p].left
                                  /\ row'[p].admin <=> /\ req[r].op = "create_conversation"
                                                       /\ p[2] = req[r].user
         /\ \A p \in Rows \ req[r].new :
               \/ row'[p] = row[p]
               \/ /\ row[p] # None /\ row'[p] # None
                  /\ row'[p] = [row[p] EXCEPT !.left = TRUE]
                  /\ row'[p].left /\ row'[p].admin = row[p].admin
  <1>1. /\ InStep(r) /\ req[r].pc # "idle" /\ req[r].new \subseteq Rows
        /\ row \in [Rows -> Participant \cup {None}]
    BY DEF IInv, TypeOK, Commit, Done, At, Request
  <1>2. row' = [p \in Rows |-> RowOf(r, p)] BY DEF Commit
  <1>3. ASSUME NEW p \in req[r].new
        PROVE  /\ RowOf(r, p) \in Participant /\ ~RowOf(r, p).left
               /\ RowOf(r, p).admin <=> /\ req[r].op = "create_conversation"
                                        /\ p[2] = req[r].user
    BY DEF RowOf, Participant
  <1>4. ASSUME NEW p \in Rows \ req[r].new
        PROVE  \/ RowOf(r, p) = row[p]
               \/ /\ row[p] # None /\ RowOf(r, p) \in Participant
                  /\ RowOf(r, p) = [row[p] EXCEPT !.left = TRUE]
                  /\ RowOf(r, p).left /\ RowOf(r, p).admin = row[p].admin
    <2>1. CASE p \in req[r].hold /\ req[r].op \in Leaving
      <3>1. row[p] # None BY <1>1, <2>1 DEF InStep, LeavingInStep, MayEnd
      <3>2. RowOf(r, p) = [row[p] EXCEPT !.left = TRUE] BY <1>4, <2>1 DEF RowOf, Leaving
      <3>3. row[p] \in Participant BY <1>1, <3>1
      <3>4. QED BY <3>1, <3>2, <3>3 DEF Participant
    <2>2. CASE ~(p \in req[r].hold /\ req[r].op \in Leaving)
      BY <1>4, <2>2 DEF RowOf, Leaving
    <2>3. QED BY <2>1, <2>2
  <1>5. row' \in [Rows -> Participant \cup {None}] BY <1>1, <1>2, <1>3, <1>4
  <1>6. QED BY <1>1, <1>2, <1>3, <1>4, <1>5, NoneApart

\* A message that is there stays in its conversation, with its sender, and deleted if it is;
\* a commit changes the request's message only.
LEMMA CommittedMessages ==
  ASSUME IInv, NEW r \in Requests, Commit(r)
  PROVE  /\ msg' \in [Messages -> Message \cup {None}]
         /\ \A m \in Messages : msg[m] # None =>
               /\ msg'[m] # None
               /\ msg'[m].conv = msg[m].conv /\ msg'[m].sender = msg[m].sender
               /\ msg[m].deleted => msg'[m].deleted
         /\ \A m \in Messages : msg'[m] # msg[m] => m = req[r].msg
         /\ \A m \in Messages : msg'[m] # None => conv[msg'[m].conv] # None
  <1>1. /\ InStep(r) /\ req[r].pc # "idle" /\ req[r] \in Request
        /\ msg \in [Messages -> Message \cup {None}]
        /\ \A m \in Messages : msg[m] # None => conv[msg[m].conv] # None
    BY DEF IInv, TypeOK, Commit, Done, At
  <1>2. msg' = [m \in Messages |-> MsgOf(r, m)] BY DEF Commit
  <1>3. ASSUME NEW m \in Messages
        PROVE  /\ MsgOf(r, m) \in Message \cup {None}
               /\ msg[m] # None =>
                     /\ MsgOf(r, m) # None
                     /\ MsgOf(r, m).conv = msg[m].conv /\ MsgOf(r, m).sender = msg[m].sender
                     /\ msg[m].deleted => MsgOf(r, m).deleted
               /\ MsgOf(r, m) # msg[m] => m = req[r].msg
               /\ MsgOf(r, m) # None => conv[MsgOf(r, m).conv] # None
    <2>1. CASE req[r].msg # m BY <1>1, <2>1 DEF MsgOf
    <2>2. CASE req[r].msg = m /\ req[r].op = "send_message"
      <3>1. /\ req[r].conv \in Convs /\ req[r].user \in Members /\ conv[req[r].conv] # None
            /\ msg[m] = None
        BY <1>1, <2>2 DEF InStep, InProgram
      <3>2. MsgOf(r, m) = [conv |-> req[r].conv, sender |-> req[r].user,
                           deleted |-> FALSE, edited |-> FALSE]
        BY <2>2 DEF MsgOf
      <3>3. QED BY <2>2, <3>1, <3>2 DEF Message
    <2>3. CASE req[r].msg = m /\ req[r].op # "send_message"
      <3>1. req[r].op \in {"edit_message", "delete_message"} /\ msg[m] # None
        BY <1>1, <1>3, <2>3, NoneApart DEF InStep, InProgram, OnMessage
      <3>2. msg[m] \in Message /\ conv[msg[m].conv] # None BY <1>1, <1>3, <3>1
      <3>3. \/ MsgOf(r, m) = [msg[m] EXCEPT !.edited = TRUE]
            \/ MsgOf(r, m) = [msg[m] EXCEPT !.deleted = TRUE]
        BY <2>3, <3>1 DEF MsgOf
      <3>4. /\ MsgOf(r, m) \in Message
            /\ MsgOf(r, m).conv = msg[m].conv /\ MsgOf(r, m).sender = msg[m].sender
            /\ msg[m].deleted => MsgOf(r, m).deleted
        BY <3>2, <3>3 DEF Message
      <3>5. QED BY <2>3, <3>2, <3>4, NoneApart
    <2>4. QED BY <2>1, <2>2, <2>3
  <1>4. QED BY <1>2, <1>3

\* A commit publishes rows that nobody else has or is about to have.
LEMMA CommitKeepsIInv ==
  ASSUME IInv, NEW r \in Requests, Commit(r)
  PROVE  IInv'
  <1> DEFINE c == req[r].conv
             creating == req[r].op = "create_conversation"
  <1>1. /\ InStep(r) /\ req[r].pc # "idle" /\ req[r] \in Request /\ req \in [Requests -> Request]
        /\ req[r].new \subseteq Rows
    BY DEF IInv, TypeOK, Commit, Done, At, Request
  <1>2. /\ req' = [req EXCEPT ![r] = Idle] /\ req'[r] = Idle
        /\ \A q \in Requests \ {r} : req'[q] = req[q]
    BY <1>1 DEF Commit
  <1>3. c \in Convs /\ conv'[c] # None /\ req[r].user \in Members
    BY <1>1, CommittedConvs DEF InStep, InProgram
  <1>4. \A p \in req[r].new : /\ p \in Rows /\ p[1] = c /\ row[p] = None /\ (creating => p[3] = 1)
    BY <1>1 DEF InStep, InsertedInStep
  <1>5. /\ \A d \in Convs : conv[d] # None => conv'[d] # None
        /\ \A p \in Rows : row[p] # None => row'[p] # None
        /\ \A m \in Messages : msg[m] # None => msg'[m] # None
    BY <1>4, CommittedConvs, CommittedRows, CommittedMessages
  <1>6. \A d \in Convs : conv[d] # None => conv'[d].creator = conv[d].creator
    <2>1. \A d \in Convs : conv[d] # None => conv[d] \in Conversation BY DEF IInv, TypeOK
    <2>2. QED BY <2>1, CommittedConvs DEF Conversation
  <1>7. \A p \in Rows : IsCurrent(p)' => p \in req[r].new \/ IsCurrent(p)
    BY CommittedRows DEF IsCurrent
  <1>8. TypeOK'
    <2>1. \A p \in Rows : row'[p] # None => conv'[p[1]] # None
      <3>1. ASSUME NEW p \in Rows, row'[p] # None PROVE conv'[p[1]] # None
        <4>1. CASE p \in req[r].new BY <1>3, <1>4, <4>1
        <4>2. CASE p \notin req[r].new
          <5>1. row[p] # None BY <3>1, <4>2, CommittedRows
          <5>2. conv[p[1]] # None /\ p[1] \in Convs BY <5>1, RowForm DEF IInv, TypeOK
          <5>3. QED BY <1>5, <5>2
        <4>3. QED BY <4>1, <4>2
      <3>2. QED BY <3>1
    <2>2. \A m \in Messages : msg'[m] # None => conv'[msg'[m].conv] # None
      <3>1. \A m \in Messages : msg'[m] # None => msg'[m] \in Message
        BY CommittedMessages
      <3>2. QED BY <1>5, <3>1, CommittedMessages DEF Message
    <2>3. req' \in [Requests -> Request] BY <1>1, <1>2, IdleType
    <2>4. QED BY <2>1, <2>2, <2>3, CommittedConvs, CommittedRows, CommittedMessages DEF TypeOK
  <1>9. UniqueRows'
    <2>1. \A p, q \in req[r].new : SameKey(p, q) => p = q
      BY <1>1 DEF InStep, InsertedInStep
    <2>2. \A p \in req[r].new : \A q \in Rows : IsCurrent(q) => ~SameKey(p, q) /\ ~SameKey(q, p)
      BY <1>1 DEF InStep, InsertedInStep, SameKey
    <2>3. UniqueRows BY DEF IInv
    <2>4. \A p, q \in Rows : IsCurrent(p)' /\ IsCurrent(q)' /\ SameKey(p, q) => p = q
      BY <1>7, <2>1, <2>2, <2>3 DEF UniqueRows
    <2>5. QED BY <2>4 DEF UniqueRows, SameKey
  <1>10. Founded'
    <2>1. ASSUME NEW d \in Convs, conv'[d] # None PROVE row'[<<d, conv'[d].creator, 1>>] # None
      <3>1. CASE conv[d] # None
        <4>1. row[<<d, conv[d].creator, 1>>] # None /\ conv[d] \in Conversation
          BY <3>1 DEF IInv, Founded, TypeOK
        <4>2. <<d, conv[d].creator, 1>> \in Rows BY <4>1, RowForm DEF Conversation
        <4>3. QED BY <1>5, <1>6, <3>1, <4>1, <4>2
      <3>2. CASE conv[d] = None
        <4>1. creating /\ d = c BY <2>1, <3>2, CommittedConvs
        <4>2. <<c, req[r].user, 1>> \in req[r].new BY <1>1, <4>1 DEF InStep, InProgram
        <4>3. QED BY <4>1, <4>2, CommittedConvs, CommittedRows
      <3>3. QED BY <3>1, <3>2
    <2>2. QED BY <2>1 DEF Founded
  <1>11. CreatorIsTheAdmin'
    <2>1. ASSUME NEW p \in Rows, row'[p] # None
          PROVE  row'[p].admin <=> p[2] = conv'[p[1]].creator /\ p[3] = 1
      <3>1. CASE p \in req[r].new /\ creating
        BY <1>4, <3>1, CommittedConvs, CommittedRows
      <3>2. CASE p \in req[r].new /\ ~creating
        <4>1. conv[c] # None BY <1>1, <3>2 DEF InStep, InProgram
        <4>2. row[<<c, conv[c].creator, 1>>] # None BY <1>3, <4>1 DEF IInv, Founded
        <4>3. p = <<p[1], p[2], p[3]>> /\ p[1] = c /\ row[p] = None BY <1>4, <3>2, RowForm
        <4>4. ~(p[2] = conv[c].creator /\ p[3] = 1) BY <4>2, <4>3
        <4>5. ~row'[p].admin BY <3>2, CommittedRows
        <4>6. QED BY <1>3, <1>6, <4>1, <4>3, <4>4, <4>5
      <3>3. CASE p \notin req[r].new
        <4>1. row[p] # None /\ row'[p].admin = row[p].admin BY <2>1, <3>3, CommittedRows
        <4>2. conv[p[1]] # None /\ p[1] \in Convs BY <4>1, RowForm DEF IInv, TypeOK
        <4>3. row[p].admin <=> p[2] = conv[p[1]].creator /\ p[3] = 1
          BY <4>1 DEF IInv, CreatorIsTheAdmin
        <4>4. QED BY <1>6, <4>1, <4>2, <4>3
      <3>4. QED BY <3>1, <3>2, <3>3
    <2>2. QED BY <2>1 DEF CreatorIsTheAdmin
  <1>12. InStep(r)'
    BY <1>2, IdleType, NoneApart
       DEF InStep, InProgram, InsertedInStep, LeavingInStep, Entitled, Leaving, OnMessage, Routes
  <1>13. ASSUME NEW q \in Requests \ {r} PROVE InStep(q)'
    <2>1. req'[q] = req[q] /\ InStep(q) /\ Apart(r, q) /\ Apart(q, r) /\ req[q] \in Request
      BY <1>1, <1>2, <1>13 DEF IInv
    <2>2. InProgram(q)'
      <3>1. req[q].op = "create_conversation" => conv'[req[q].conv] = None
        BY <2>1, CommittedConvs DEF InStep, InProgram, Apart
      <3>2. req[q].op = "send_message" => msg'[req[q].msg] = None
        BY <2>1, CommittedMessages DEF InStep, InProgram, Apart
      <3>3. Pending(q, req[q].conv, Head(req[q].add))' <=> Pending(q, req[q].conv, Head(req[q].add))
        BY <2>1 DEF Pending
      <3>4. QED BY <1>5, <2>1, <3>1, <3>2, <3>3 DEF InStep, InProgram
    <2>3. InsertedInStep(q)'
      <3>1. ASSUME NEW p \in req[q].new
            PROVE  row'[p] = None /\ \A o \in Rows : IsCurrent(o)' => ~SameKey(p, o)
        <4>1. p \in Rows /\ row[p] = None /\ \A o \in Rows : IsCurrent(o) => ~SameKey(p, o)
          BY <2>1, <3>1 DEF Request, InStep, InsertedInStep
        <4>2. \A o \in req[r].new : ~SameKey(o, p) /\ ~SameKey(p, o) /\ o # p
          BY <2>1, <3>1 DEF Apart, SameKey
        <4>3. QED BY <1>7, <4>1, <4>2, CommittedRows
      <3>2. QED BY <2>1, <3>1 DEF InStep, InsertedInStep, IsCurrent, SameKey
    <2>4. ASSUME req[q].pc # "idle"
          PROVE  /\ \A p \in Acting(req[q]) : p \in Acting(req[q])'
                 /\ IsAdmin(req[q]) => IsAdmin(req[q])'
      <3>1. req[q].conv \in Convs /\ req[q].user \in Members
        BY <2>1, <2>4 DEF InStep, InProgram
      <3>2. ASSUME NEW p \in Acting(req[q])
            PROVE  p \in Acting(req[q])' /\ row'[p].admin = row[p].admin
        <4>1. p \in Rows /\ row[p] # None BY <3>1, <3>2, CurrentRows DEF Acting
        <4>2. PICK k \in Stays : p = <<req[q].conv, req[q].user, k>>
          BY <3>2 DEF Acting, Ever
        <4>3. row'[p] # None /\ row'[p].admin = row[p].admin
          BY <1>4, <1>5, <4>1, CommittedRows
        <4>4. QED BY <2>1, <3>2, <4>2, <4>3 DEF Acting, Ever
      <3>3. QED BY <3>2 DEF IsAdmin
    <2>5. LeavingInStep(req[q])'
      <3>1. ASSUME req[q].pc # "idle", req[q].op \in Leaving, NEW x, MayEnd(req[q], x)
            PROVE  MayEnd(req[q], x)'
        BY <1>5, <2>1, <2>4, <3>1 DEF MayEnd
      <3>2. QED BY <2>1, <3>1 DEF InStep, LeavingInStep
    <2>6. Entitled(req[q])'
      <3>1. Entitled(req[q]) /\ InProgram(q) BY <2>1 DEF InStep
      <3>2. req[q].op \in {"edit_message", "delete_message"} =>
               /\ msg'[req[q].msg].conv = msg[req[q].msg].conv
               /\ msg'[req[q].msg].sender = msg[req[q].msg].sender
        BY <3>1, CommittedMessages DEF InProgram
      <3>3. \A p \in req[q].gone : row'[p] # None /\ row'[p].left
        BY <1>4, <1>5, <3>1, CommittedRows DEF Entitled
      <3>4. QED BY <2>1, <2>4, <3>1, <3>2, <3>3 DEF Entitled, InProgram
    <2>7. QED BY <2>2, <2>3, <2>5, <2>6 DEF InStep
  <1>14. ASSUME NEW p \in Requests, NEW q \in Requests, p # q PROVE Apart(p, q)'
    <2>1. CASE p # r /\ q # r BY <1>2, <1>14, <2>1 DEF IInv, Apart
    <2>2. CASE p = r BY <1>2, <2>2, IdleType, NoneApart DEF Apart, Routes
    <2>3. CASE q = r /\ p # r
      <3>1. req'[p] = req[p] /\ InStep(p) BY <1>2, <2>3 DEF IInv
      <3>2. QED BY <1>2, <2>3, <3>1, IdleType, NoneApart DEF Apart, InStep, InProgram
    <2>4. QED BY <2>1, <2>2, <2>3
  <1>15. QED
    BY <1>2, <1>8, <1>9, <1>10, <1>11, <1>12, <1>13, <1>14 DEF IInv

-----------------------------------------------------------------------------
\* Every step keeps the invariant.
LEMMA NextKeepsIInv == IInv /\ [Next]_vars => IInv'
  <1> SUFFICES ASSUME IInv, [Next]_vars PROVE IInv' OBVIOUS
  <1>1. ASSUME NEW r \in Requests, Call(r) PROVE IInv' BY <1>1, CallKeepsIInv
  <1>2. ASSUME NEW r \in Requests, Step(r) PROVE IInv'
    <2>1. CASE ReadParticipant(r) BY <2>1, ReadParticipantKeepsIInv
    <2>2. CASE ReadTarget(r) BY <2>2, ReadTargetKeepsIInv
    <2>3. CASE CheckMember(r) BY <2>3, CheckMemberKeepsIInv
    <2>4. CASE InsertParticipant(r) BY <2>4, InsertParticipantKeepsIInv
    <2>5. CASE Write(r) BY <2>5, WriteKeepsIInv
    <2>6. CASE DeadlockAbort(r) BY <2>6, AbortKeepsIInv DEF DeadlockAbort
    <2>7. CASE Commit(r) BY <2>7, CommitKeepsIInv
    <2>8. QED BY <1>2, <2>1, <2>2, <2>3, <2>4, <2>5, <2>6, <2>7 DEF Step
  <1>3. ASSUME NEW r \in Requests, Cancel(r) PROVE IInv'
    BY <1>3, AbortKeepsIInv DEF Cancel
  <1>4. CASE UNCHANGED vars
    <2>1. UNCHANGED tables /\ req' = req BY <1>4 DEF vars
    <2>2. ASSUME NEW r \in Requests PROVE InStep(r)'
      <3>1. InProgram(r)' /\ InsertedInStep(r)'
        BY <2>1 DEF tables, IInv, InStep, InProgram, InsertedInStep, IsCurrent, SameKey, Pending
      <3>2. LeavingInStep(req[r])' /\ Entitled(req[r])'
        BY <2>1, SameTables DEF IInv, InStep
      <3>3. QED BY <3>1, <3>2 DEF InStep
    <2>3. QED
      BY <2>1, <2>2 DEF tables, IInv, TypeOK, UniqueRows, Founded, CreatorIsTheAdmin, IsCurrent,
                        Apart, SameKey
  <1>5. QED BY <1>1, <1>2, <1>3, <1>4 DEF Next

-----------------------------------------------------------------------------
\* The invariant of the conversations: what the requests at work have read and written fits
\* what is committed, whatever the others do (DMService).
THEOREM Invariance == Spec => []IInv
  <1>1. QED BY InitIInv, NextKeepsIInv, PTL DEF Spec

\* Every value has its type, and participants and messages belong to conversations that
\* exist: the foreign keys of the models of app/dms.
THEOREM TypeCorrectness == Spec => []TypeOK
  <1>1. IInv => TypeOK BY DEF IInv
  <1>2. QED BY <1>1, Invariance, PTL

\* A member has one current participant in a conversation at most, for any number of
\* concurrent requests of add_participants, remove_participant and leave_conversation.
THEOREM OneParticipant == Spec => []OneCurrentRow
  <1>1. IInv => OneCurrentRow
    <2> SUFFICES ASSUME IInv, NEW c \in Convs, NEW m \in Members,
                        NEW p \in Current(c, m), NEW q \in Current(c, m)
                 PROVE  p = q
      BY DEF OneCurrentRow
    <2>1. /\ p \in Rows /\ IsCurrent(p) /\ p[1] = c /\ p[2] = m
          /\ q \in Rows /\ IsCurrent(q) /\ q[1] = c /\ q[2] = m
      BY CurrentRows
    <2>2. QED BY <2>1 DEF IInv, UniqueRows, SameKey
  <1>2. QED BY <1>1, Invariance, PTL

\* The participant that create_conversation makes for the creator is the conversation's only
\* admin, for good.
THEOREM CreatorAdministers == Spec => []CreatorIsTheAdmin
  <1>1. IInv => CreatorIsTheAdmin BY DEF IInv
  <1>2. QED BY <1>1, Invariance, PTL

\* The tables change by commits only.
LEMMA OnlyCommitsPublish ==
  ASSUME Next, ~UNCHANGED tables
  PROVE  \E r \in Requests : Commit(r)
  <1> PICK r \in Requests : Call(r) \/ Step(r) \/ Cancel(r) BY DEF Next
  <1>1. Call(r) => UNCHANGED tables
    <2>1. \A call, pc : Begin(r, call, pc) => UNCHANGED tables BY DEF Begin
    <2>2. QED
      BY <2>1 DEF Call, CreateConversation, UpdateTitle, UpdateSettings, DeleteConversation,
         AddParticipants, RemoveParticipant, LeaveConversation, SendMessage, MarkRead,
         EditMessage, DeleteMessage, ChangeMessage, Ask
  <1>2. ReadParticipant(r) \/ ReadTarget(r) \/ CheckMember(r) => UNCHANGED tables
    BY DEF ReadParticipant, Proceed, ReadTarget, CheckMember, Abort
  <1>3. InsertParticipant(r) \/ Write(r) \/ DeadlockAbort(r) \/ Cancel(r) => UNCHANGED tables
    BY DEF InsertParticipant, Insert, Write, DeadlockAbort, Cancel, Abort
  <1>4. QED BY <1>1, <1>2, <1>3 DEF Step

\* A deletion, and a participant's leaving, are never undone by a request that has read the
\* row before (soft_delete, mark_left).
THEOREM GoneForGood == Spec => GoneStaysGone
  <1> DEFINE Kept ==
        /\ \A c \in Convs : conv[c] # None =>
              conv'[c] \in {conv[c], [conv[c] EXCEPT !.deleted = TRUE]}
        /\ \A p \in Rows : row[p] # None => row'[p] \in {row[p], [row[p] EXCEPT !.left = TRUE]}
        /\ \A m \in Messages : msg[m] # None =>
              /\ msg'[m] # None
              /\ msg'[m].conv = msg[m].conv /\ msg'[m].sender = msg[m].sender
              /\ msg[m].deleted => msg'[m].deleted
  <1>1. IInv /\ [Next]_vars => [Kept]_vars
    <2> SUFFICES ASSUME IInv, Next PROVE Kept OBVIOUS
    <2>1. CASE UNCHANGED tables BY <2>1 DEF tables
    <2>2. ASSUME NEW r \in Requests, Commit(r) PROVE Kept
      <3>1. \A p \in req[r].new : row[p] = None
        BY <2>2 DEF IInv, InStep, InsertedInStep
      <3>2. QED BY <2>2, <3>1, CommittedConvs, CommittedRows, CommittedMessages
    <2>3. QED BY <2>1, <2>2, OnlyCommitsPublish
  <1>2. QED BY <1>1, Invariance, PTL DEF Spec, GoneStaysGone

\* What a request publishes changes the conversation that it names, and its user is a
\* participant there, or was one when the request began or later, and the admin where
\* that is asked, though the check and the commit are separate steps and others commit in
\* between (_require_participant, the is_admin and sender checks).
THEOREM Authority == Spec => ActsWithAuthority
  <1> DEFINE Entitles(r) ==
        LET q == req[r]
        IN  /\ \A c \in Convs : conv[c] # None /\ conv'[c] # conv[c] =>
                  c = q.conv /\ IsAdmin(q)
            /\ \A p \in Rows : row'[p] # row[p] /\ conv[p[1]] # None =>
                  p[1] = q.conv /\ (IsAdmin(q) \/ p \in Acting(q))
            /\ \A m \in Messages : msg'[m] # msg[m] =>
                  /\ msg'[m].conv = q.conv /\ Acting(q) # {}
                  /\ msg'[m].sender = q.user \/ IsAdmin(q)
      Authorised == \A r \in Requests : At(r, "idle") \/ req'[r] = req[r] \/ Entitles(r)
  <1>1. IInv /\ [Next]_vars => [Authorised]_vars
    <2> SUFFICES ASSUME IInv, Next PROVE Authorised OBVIOUS
    <2>1. CASE UNCHANGED tables BY <2>1 DEF tables
    <2>2. ASSUME NEW r \in Requests, Commit(r) PROVE Entitles(r)
      <3> DEFINE q == req[r]
      <3>1. /\ InProgram(r) /\ InsertedInStep(r) /\ LeavingInStep(q) /\ Entitled(q)
            /\ q.pc \notin {"idle", "member"}
        BY <2>2 DEF IInv, InStep, Commit, Done, At
      <3>2. ASSUME NEW c \in Convs, conv[c] # None, conv'[c] # conv[c]
            PROVE  c = q.conv /\ IsAdmin(q)
        <4>1. c = q.conv /\ conv'[c] = ConvOf(r, c) BY <2>2, <3>2, CommittedConvs DEF Commit
        <4>2. q.op # "create_conversation" BY <3>1, <3>2, <4>1 DEF InProgram
        <4>3. q.op = "delete_conversation" BY <3>2, <4>1, <4>2 DEF ConvOf
        <4>4. QED BY <3>1, <4>1, <4>3 DEF Entitled
      <3>3. ASSUME NEW p \in Rows, row'[p] # row[p], conv[p[1]] # None
            PROVE  p[1] = q.conv /\ (IsAdmin(q) \/ p \in Acting(q))
        <4>1. row'[p] = RowOf(r, p) BY <2>2 DEF Commit
        <4>2. CASE p \in q.new
          <5>1. p[1] = q.conv BY <3>1, <4>2 DEF InsertedInStep
          <5>2. q.op = "add_participants"
            BY <3>1, <3>3, <4>2, <5>1 DEF Entitled, InProgram
          <5>3. QED BY <3>1, <5>1, <5>2 DEF Entitled
        <4>3. CASE p \notin q.new
          <5>1. p \in q.hold /\ q.op \in Leaving BY <3>3, <4>1, <4>3 DEF RowOf, Leaving
          <5>2. MayEnd(q, p) BY <3>1, <5>1 DEF LeavingInStep
          <5>3. ~row[p].left
            <6>1. row[p] \in Participant BY <5>2 DEF MayEnd, IInv, TypeOK
            <6>2. row[p].left => [row[p] EXCEPT !.left = TRUE] = row[p]
              BY <6>1 DEF Participant
            <6>3. row'[p] = [row[p] EXCEPT !.left = TRUE]
              BY <2>2, <3>3, <4>3, CommittedRows
            <6>4. QED BY <3>3, <6>2, <6>3
          <5>4. p \notin q.gone BY <3>1, <5>3 DEF Entitled
          <5>5. p[2] = q.user => p \in Ever(q.conv, q.user)
            BY <5>2, RowForm DEF MayEnd, Ever
          <5>6. QED BY <5>2, <5>4, <5>5 DEF MayEnd, Acting
        <4>4. QED BY <4>2, <4>3
      <3>4. ASSUME NEW m \in Messages, msg'[m] # msg[m]
            PROVE  /\ msg'[m].conv = q.conv /\ Acting(q) # {}
                   /\ msg'[m].sender = q.user \/ IsAdmin(q)
        <4>1. m = q.msg /\ msg'[m] = MsgOf(r, m) BY <2>2, <3>4, CommittedMessages DEF Commit
        <4>2. q.op \in OnMessage BY <3>1, <4>1, NoneApart DEF InProgram
        <4>3. Acting(q) # {} BY <3>1, <4>2 DEF Entitled, OnMessage
        <4>4. CASE q.op = "send_message"
          <5>1. msg'[m].conv = q.conv /\ msg'[m].sender = q.user BY <4>1, <4>4 DEF MsgOf
          <5>2. QED BY <4>3, <5>1
        <4>5. CASE q.op # "send_message"
          <5>1. msg[m] # None /\ msg[m].conv = q.conv
            BY <3>1, <4>1, <4>2, <4>5 DEF InProgram, Entitled, OnMessage
          <5>2. msg'[m].conv = q.conv /\ msg'[m].sender = msg[m].sender
            BY <2>2, <5>1, CommittedMessages
          <5>3. msg[m].sender = q.user \/ IsAdmin(q)
            BY <3>1, <4>1, <4>2, <4>5 DEF Entitled, OnMessage
          <5>4. QED BY <4>3, <5>2, <5>3
        <4>6. QED BY <4>4, <4>5
      <3>5. QED BY <3>2, <3>3, <3>4
    <2>3. ASSUME NEW r \in Requests, Commit(r), NEW q \in Requests \ {r} PROVE req'[q] = req[q]
      BY <2>3 DEF Commit, IInv, TypeOK
    <2> HIDE DEF Entitles
    <2>4. QED BY <2>1, <2>2, <2>3, OnlyCommitsPublish
  <1>2. QED BY <1>1, Invariance, PTL DEF Spec, ActsWithAuthority
=============================================================================
