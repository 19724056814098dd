---------------------------- MODULE Accounts_proofs ----------------------------
(***************************************************************************)
(* A theorem about the accounts, for any number of addresses, ids, links   *)
(* and requests: an address is verified only by a link that has been sent  *)
(* to it for the account that it has now.  A link verifies the account     *)
(* with the id that its key holds, so the proof says of every place where  *)
(* an id is kept with an address (rows, mails, requests at work) that the  *)
(* id is of this address only: AccountsFit.                                *)
(***************************************************************************)
EXTENDS Workspace_proofs

Mailing == {"register", "resend_verification"}

\* The account of an address, and its id.
HasId(a, i) == a \in Addresses /\ row[a] # None /\ row[a].uid = i

\* Somewhere the id of a user is kept with an address.
Claims(a, i) ==
    \/ HasId(a, i)
    \/ \E t \in Links : <<t, a, i>> \in mail
    \/ \E r \in Requests : req[r].op \in Mailing /\ req[r].arg = [to |-> a, uid |-> i]

OneAddress == \A a, b \in Addresses, i \in Uids : Claims(a, i) /\ Claims(b, i) => a = b

\* The key of a link that has been sent is the id in the mail.
KeysFit == \A m \in mail : link[m[1]] \in {None, m[3]}

\* A registration inserts the account that its link is for; a verification updates the account
\* with the id of its link, which has been sent to some address.
AccountPlan(q) ==
    /\ q.op \in Mailing => q.arg \in [to : Addresses, uid : Uids]
    /\ q.op = "register" =>
          /\ \A x \in DOMAIN q.new : x = q.arg.to /\ q.new[x].uid = q.arg.uid
          /\ \A p \in Pending(q) : p[1] = q.arg.to /\ p[2].uid = q.arg.uid
    /\ q.op = "verify_email" =>
          /\ \E a \in Addresses : <<q.arg.link, a, q.arg.uid>> \in mail
          /\ \A x \in q.todo \cup q.hold : HasId(x, q.arg.uid)

AccountsFit == (\A r \in Requests : AccountPlan(req[r])) /\ KeysFit /\ OneAddress

-----------------------------------------------------------------------------
\* The row of an account, its id included, is there for ever.
LEMMA IdsOfAccountsStay ==
  ASSUME Base, [Next]_all, NEW a \in Addresses, row[a] # None
  PROVE  row'[a] # None /\ row'[a].uid = row[a].uid /\ row[a].uid \in Uids
  <1>1. a \in Ids /\ Kind(a) = "user" BY KindsOfRows
  <1>2. row[a] \in User BY <1>1, RecordsOfTables DEF Base, RowsFit, WellFormed
  <1>3. "uid" \in DOMAIN row[a] /\ row[a].uid \in Uids BY <1>2 DEF User
  <1>4. "uid" \notin Updatable("user") \cup {"grants", "expired"} BY DEF Updatable
  <1>5. row'[a]["uid"] = row[a]["uid"] BY <1>1, <1>3, <1>4, FixedColumns
  <1>6. QED BY <1>1, <1>3, <1>5, FixedColumns

\* Requests of other routes use no link and register nobody.
LEMMA NoAccountsElsewhere ==
  ASSUME NEW q, q.op \notin Mailing \cup {"verify_email"}
  PROVE  AccountPlan(q)
  BY DEF AccountPlan, Mailing

\* A request that has not begun uses no link.
LEMMA IdleIsNoAccount == Idle.op \notin Mailing \cup {"verify_email"}
  BY IdleFields, NothingAssumption DEF Mailing, Routes, AccountRoutes

\* How the keys and the mails change: a link is sent, or its key goes.
LEMMA OutsideSteps ==
  ASSUME Base, [Next]_all
  PROVE  \/ UNCHANGED outside
         \/ \E r \in Requests : MailLink(r)
         \/ mail' = mail /\ \E t \in Links : link' = [link EXCEPT ![t] = None]
  <1>1. CASE UNCHANGED all BY <1>1 DEF all
  <1>2. ASSUME NEW r \in Requests, Call(r) PROVE UNCHANGED outside
    BY <1>2 DEF Call, AccountCall, Register, ResendVerification, VerifyEmail, UpdateProfile
  <1>3. ASSUME NEW r \in Requests, UseLink(r)
        PROVE  mail' = mail /\ \E t \in Links : link' = [link EXCEPT ![t] = None]
    <2>1. InProgram(req[r]) /\ req[r].pc = "use" BY <1>3 DEF UseLink, At, Base, Fits
    <2>2. req[r].arg.link \in Links BY <2>1 DEF InProgram
    <2>3. QED BY <1>3, <2>2 DEF UseLink
  <1>4. ASSUME NEW r \in Requests, OpenAccount(r) PROVE UNCHANGED outside
    BY <1>4 DEF OpenAccount, Open
  <1>5. ASSUME NEW r \in Requests, Step(r)
        PROVE  \/ UNCHANGED outside
               \/ MailLink(r)
               \/ mail' = mail /\ \E t \in Links : link' = [link EXCEPT ![t] = None]
    BY <1>3, <1>4, <1>5 DEF Step, AccountStep
  <1>6. ASSUME NEW t \in Links, LinkExpires(t)
        PROVE  mail' = mail /\ link' = [link EXCEPT ![t] = None]
    BY <1>6 DEF LinkExpires
  <1>7. CASE Next
    <2>1. ASSUME NEW r \in Requests, Refused(r) PROVE UNCHANGED outside
      BY <2>1 DEF Refused, all
    <2>2. QED BY <1>2, <1>5, <1>6, <1>7, <2>1 DEF Next
  <1>8. QED BY <1>1, <1>7

\* What a link that is sent adds to the keys and to the mails.
LEMMA SentLinks ==
  ASSUME Base, NEW r \in Requests, MailLink(r), AccountPlan(req[r])
  PROVE  \E t \in Links :
            /\ link' = [link EXCEPT ![t] = req[r].arg.uid]
            /\ \A m \in mail : m[1] # t
            /\ mail' \in {mail, mail \cup {<<t, req[r].arg.to, req[r].arg.uid>>}}
            /\ req[r].op \in Mailing
            /\ req[r].arg.to \in Addresses /\ req[r].arg.uid \in Uids
            /\ req[r].arg = [to |-> req[r].arg.to, uid |-> req[r].arg.uid]
  <1>1. InProgram(req[r]) /\ req[r].pc = "mail" BY DEF MailLink, At, Base, Fits
  <1>2. req[r].op \in Mailing BY <1>1 DEF InProgram, Mailing
  <1>3. req[r].arg \in [to : Addresses, uid : Uids] BY <1>2 DEF AccountPlan
  <1>4. PICK arg : arg = req[r].arg OBVIOUS
  <1>5. /\ arg.to \in Addresses /\ arg.uid \in Uids
        /\ arg = [to |-> arg.to, uid |-> arg.uid]
    BY <1>3, <1>4
  <1>6. PICK t \in Links :
          /\ \A m \in mail : m[1] # t
          /\ link' = [link EXCEPT ![t] = req[r].arg.uid]
          /\ mail' \in {mail, mail \cup {<<t, req[r].arg.to, req[r].arg.uid>>}}
    BY DEF MailLink
  <1>7. QED BY <1>2, <1>4, <1>5, <1>6

\* Mails are not taken back.
LEMMA MailsStay ==
  ASSUME Base, [Next]_all
  PROVE  mail \subseteq mail'
  BY OutsideSteps DEF MailLink, outside

\* The key of a link that has been sent stays the id in its mail, or goes.
LEMMA StepKeepsKeys ==
  ASSUME Base, AccountsFit, [Next]_all
  PROVE  KeysFit'
  <1> SUFFICES ASSUME NEW m \in mail' PROVE link'[m[1]] \in {None, m[3]} BY DEF KeysFit
  <1>1. mail \subseteq Links \X Addresses \X Uids /\ link \in [Links -> Uids \cup {None}]
    BY DEF Base
  <1>2. \A n \in mail : n[1] \in Links /\ link[n[1]] \in {None, n[3]}
    BY <1>1 DEF AccountsFit, KeysFit
  <1>3. CASE UNCHANGED outside BY <1>2, <1>3 DEF outside
  <1>4. CASE mail' = mail /\ \E t \in Links : link' = [link EXCEPT ![t] = None]
    BY <1>1, <1>2, <1>4
  <1>5. ASSUME NEW r \in Requests, MailLink(r) PROVE link'[m[1]] \in {None, m[3]}
    <2>1. AccountPlan(req[r]) BY DEF AccountsFit
    <2>2. PICK to, uid : to = req[r].arg.to /\ uid = req[r].arg.uid OBVIOUS
    <2>3. PICK t \in Links :
            /\ link' = [link EXCEPT ![t] = uid] /\ \A n \in mail : n[1] # t
            /\ mail' \in {mail, mail \cup {<<t, to, uid>>}}
      BY <1>5, <2>1, <2>2, SentLinks
    <2>4. CASE m \in mail BY <1>1, <1>2, <2>3, <2>4
    <2>5. CASE m = <<t, to, uid>> BY <1>1, <2>3, <2>5
    <2>6. QED BY <2>3, <2>4, <2>5
  <1>6. QED BY <1>3, <1>4, <1>5, OutsideSteps

-----------------------------------------------------------------------------
\* The requests that send or use a link keep the link's fields.
LEMMA AccountStepFields ==
  ASSUME Base, NEW r \in Requests, AccountStep(r), req'[r] # Idle
  PROVE  /\ req'[r].op = req[r].op /\ req'[r].arg = req[r].arg /\ req'[r].new = req[r].new
         /\ req'[r].names = req[r].names /\ req'[r].hold = req[r].hold
         /\ \A x \in req'[r].todo : x \in req[r].todo \/ HasId(x, req[r].arg.uid)
  <1>1. Typed(req[r]) BY DEF Base, Fits
  <1>2. ~Abort(r) BY Continued DEF Abort
  <1>3. ASSUME NEW pc, Continue(r, [req[r] EXCEPT !.pc = pc])
        PROVE  /\ req'[r].op = req[r].op /\ req'[r].arg = req[r].arg /\ req'[r].new = req[r].new
               /\ req'[r].names = req[r].names /\ req'[r].hold = req[r].hold
               /\ req'[r].todo = req[r].todo
    <2> DEFINE to == [req[r] EXCEPT !.pc = pc]
    <2>1. /\ to.op = req[r].op /\ to.arg = req[r].arg /\ to.new = req[r].new
          /\ to.names = req[r].names /\ to.hold = req[r].hold /\ to.todo = req[r].todo
      BY <1>1, Fields
    <2>2. req'[r] = to BY <1>3, Continued
    <2>3. QED BY <2>1, <2>2
  <1>4. ASSUME NEW a, HasId(a, req[r].arg.uid),
               Continue(r, [req[r] EXCEPT !.pc = "write", !.todo = {a},
                                          !.data = [verified |-> TRUE]])
        PROVE  /\ req'[r].op = req[r].op /\ req'[r].arg = req[r].arg /\ req'[r].new = req[r].new
               /\ req'[r].names = req[r].names /\ req'[r].hold = req[r].hold
               /\ req'[r].todo = {a}
    <2> DEFINE to == [req[r] EXCEPT !.pc = "write", !.todo = {a}, !.data = [verified |-> TRUE]]
    <2>1. /\ to.op = req[r].op /\ to.arg = req[r].arg /\ to.new = req[r].new
          /\ to.names = req[r].names /\ to.hold = req[r].hold /\ to.todo = {a}
      BY <1>1, Fields
    <2>2. req'[r] = to BY <1>4, Continued
    <2>3. QED BY <2>1, <2>2
  <1>5. CASE MailLink(r) BY <1>2, <1>3, <1>5 DEF MailLink
  <1>6. CASE UseLink(r) BY <1>3, <1>6 DEF UseLink
  <1>7. CASE OpenAccount(r)
    <2>1. \/ Continue(r, [req[r] EXCEPT !.pc = "done"])
          \/ \E a : /\ HasId(a, req[r].arg.uid)
                    /\ Continue(r, [req[r] EXCEPT !.pc = "write", !.todo = {a},
                                                  !.data = [verified |-> TRUE]])
      BY <1>2, <1>7 DEF OpenAccount, Open, HasId
    <2>2. CASE Continue(r, [req[r] EXCEPT !.pc = "done"]) BY <1>3, <2>2
    <2>3. ASSUME NEW a, HasId(a, req[r].arg.uid),
                 Continue(r, [req[r] EXCEPT !.pc = "write", !.todo = {a},
                                            !.data = [verified |-> TRUE]])
          PROVE  /\ req'[r].op = req[r].op /\ req'[r].arg = req[r].arg
                 /\ req'[r].new = req[r].new /\ req'[r].names = req[r].names
                 /\ req'[r].hold = req[r].hold
                 /\ \A x \in req'[r].todo : x \in req[r].todo \/ HasId(x, req[r].arg.uid)
      <3>1. /\ req'[r].op = req[r].op /\ req'[r].arg = req[r].arg /\ req'[r].new = req[r].new
            /\ req'[r].names = req[r].names /\ req'[r].hold = req[r].hold
            /\ req'[r].todo = {a}
        BY <1>4, <2>3
      <3>2. QED BY <2>3, <3>1
    <2>4. QED BY <2>1, <2>2, <2>3
  <1>8. QED BY <1>5, <1>6, <1>7 DEF AccountStep

\* So does every step of such a request but the first and the last one.
LEMMA AccountMoves ==
  ASSUME Base, [Next]_all, NEW r \in Requests, req'[r] \notin {req[r], Idle}, ~Call(r),
         req'[r].op \in Mailing \cup {"verify_email"}
  PROVE  /\ req'[r].op = req[r].op /\ req'[r].arg = req[r].arg
         /\ \A x \in DOMAIN req'[r].new :
               \/ x \in DOMAIN req[r].new /\ req'[r].new[x] = req[r].new[x]
               \/ \E p \in Pending(req[r]) : p[1] = x /\ p[2] = req'[r].new[x]
         /\ Pending(req'[r]) \subseteq Pending(req[r])
         /\ \A x \in req'[r].todo \cup req'[r].hold :
               x \in req[r].todo \cup req[r].hold \/ HasId(x, req[r].arg.uid)
  <1>1. CASE Write(r) BY <1>1, WriteFields DEF Pending
  <1>2. CASE InsertName(r)
    <2>1. PICK name, record :
            /\ req[r].names # <<>> /\ <<name, record>> = Head(req[r].names)
            /\ Pending(req[r]) = {<<name, record>>} \cup Pending(req'[r])
            /\ row[name] = None /\ \A q \in Requests \ {r} : name \notin DOMAIN req[q].new
            /\ DOMAIN req'[r].new = DOMAIN req[r].new \cup {name}
            /\ \A x \in DOMAIN req'[r].new :
                  \/ x \in DOMAIN req[r].new /\ req'[r].new[x] = req[r].new[x]
                  \/ x = name /\ req'[r].new[x] = record
            /\ req'[r].pc = req[r].next /\ req'[r].op = req[r].op /\ req'[r].arg = req[r].arg
            /\ req'[r].next = req[r].next /\ req'[r].todo = req[r].todo
            /\ req'[r].hold = req[r].hold /\ req'[r].data = req[r].data
      BY <1>2, InsertNameFields
    <2> DEFINE first == <<name, record>>
    <2>2. first[1] = name /\ first[2] = record OBVIOUS
    <2>3. Pending(req[r]) = {first} \cup Pending(req'[r]) BY <2>1
    <2> HIDE DEF first
    <2>4. QED BY <2>1, <2>2, <2>3
  <1>3. CASE AccountStep(r) BY <1>3, AccountStepFields DEF Pending
  <1>4. CASE AddVersion(r) \/ LookUpName(r) \/ ChangeLinks(r)
    <2>1. req'[r].op \in {"update_memo", "seed", "update_role"} BY <1>4, RoutesOfSteps
    <2>2. QED BY <2>1 DEF Mailing
  <1>5. QED BY <1>1, <1>2, <1>3, <1>4, RequestSteps

\* The fields of the requests that a call of these routes makes.
LEMMA AccountCalls ==
  ASSUME Base, NEW r \in Requests, Call(r), req'[r].op \in Mailing \cup {"verify_email"}
  PROVE  /\ req'[r].op = "resend_verification" =>
               \E a \in Addresses :
                  /\ row[a] # None /\ row[a].uid \in Uids
                  /\ req'[r].arg = [to |-> a, uid |-> row[a].uid]
         /\ req'[r].op = "register" =>
               \E a \in Addresses, i \in NewUids : \E user :
                  /\ user.uid = i
                  /\ req'[r].arg = [to |-> a, uid |-> i]
                  /\ req'[r].new = NoRows /\ req'[r].names = <<<<a, user>>>>
         /\ req'[r].op = "verify_email" =>
               \E m \in mail :
                  /\ link[m[1]] # None
                  /\ req'[r].arg = [link |-> m[1], uid |-> link[m[1]]]
                  /\ req'[r].todo = {} /\ req'[r].hold = {}
         /\ UNCHANGED outside
  <1>1. \A to : Begin(r, to) => req'[r] = to BY OpsOfCalls
  <1>2. AccountCall(r) BY CallsByRoute DEF Mailing, AccountRoutes
  <1>3. ASSUME NEW a \in Addresses, ResendVerification(r, a)
        PROVE  /\ req'[r].op = "resend_verification" /\ UNCHANGED outside
               /\ row[a] # None /\ row[a].uid \in Uids
               /\ req'[r].arg = [to |-> a, uid |-> row[a].uid]
    <2> DEFINE arg == [to |-> a, uid |-> row[a].uid]
               to == [Idle EXCEPT !.pc = "mail", !.op = "resend_verification", !.arg = arg]
    <2>1. Begin(r, to) /\ UNCHANGED outside /\ row[a] # None
      BY <1>3 DEF ResendVerification, Live
    <2>2. to.op = "resend_verification" /\ to.arg = arg BY DEF Idle
    <2>3. row[a] \in User BY <2>1, KindsOfRows, RecordsOfTables DEF Base, RowsFit, WellFormed
    <2>4. row[a].uid \in Uids BY <2>3 DEF User
    <2>5. QED BY <1>1, <2>1, <2>2, <2>4
  <1>4. ASSUME NEW a \in Addresses, NEW v \in Profiles, Register(r, a, v)
        PROVE  /\ req'[r].op = "register" /\ UNCHANGED outside
               /\ \E i \in NewUids : \E user :
                     /\ user.uid = i
                     /\ req'[r].arg = [to |-> a, uid |-> i]
                     /\ req'[r].new = NoRows /\ req'[r].names = <<<<a, user>>>>
    <2>1. PICK i \in NewUids : i = CHOOSE j \in NewUids : TRUE BY <1>4 DEF Register
    <2>2. PICK user : user = [uid |-> i, verified |-> FALSE, profile |-> v, deleted |-> FALSE]
      OBVIOUS
    <2> DEFINE names == <<<<a, user>>>>
               arg == [to |-> a, uid |-> i]
               to == [Idle EXCEPT !.pc = "insert", !.op = "register", !.next = "mail",
                                  !.arg = arg, !.names = names]
    <2>3. Begin(r, to) /\ UNCHANGED outside BY <1>4, <2>1, <2>2 DEF Register
    <2>4. to.op = "register" /\ to.arg = arg /\ to.new = NoRows /\ to.names = names BY DEF Idle
    <2>5. user.uid = i BY <2>2
    <2>6. QED BY <1>1, <2>3, <2>4, <2>5
  <1>5. ASSUME NEW t \in Links, VerifyEmail(r, t)
        PROVE  /\ req'[r].op = "verify_email" /\ UNCHANGED outside
               /\ \E m \in mail :
                     /\ link[m[1]] # None
                     /\ req'[r].arg = [link |-> m[1], uid |-> link[m[1]]]
                     /\ req'[r].todo = {} /\ req'[r].hold = {}
    <2>1. PICK m \in mail : m[1] = t BY <1>5 DEF VerifyEmail
    <2> DEFINE arg == [link |-> t, uid |-> link[t]]
               to == [Idle EXCEPT !.pc = "use", !.op = "verify_email", !.arg = arg]
    <2>2. Begin(r, to) /\ UNCHANGED outside /\ link[t] # None BY <1>5 DEF VerifyEmail
    <2>3. to.op = "verify_email" /\ to.arg = arg /\ to.todo = {} /\ to.hold = {} BY DEF Idle
    <2>4. QED BY <1>1, <2>1, <2>2, <2>3
  <1>6. ASSUME NEW a \in Addresses, NEW v \in Profiles, UpdateProfile(r, a, v)
        PROVE  req'[r].op = "update_profile"
    BY <1>6, OpsOfCalls DEF UpdateProfile
  <1>7. CASE \E a \in Addresses : ResendVerification(r, a) BY <1>3, <1>7
  <1>8. CASE \E a \in Addresses, v \in Profiles : Register(r, a, v) BY <1>4, <1>8
  <1>9. CASE \E t \in Links : VerifyEmail(r, t) BY <1>5, <1>9
  <1>10. QED BY <1>2, <1>6, <1>7, <1>8, <1>9 DEF AccountCall, Mailing

-----------------------------------------------------------------------------
\* Calls make plans.
LEMMA CallsPlanAccounts ==
  ASSUME Base, AccountsFit, NEW r \in Requests, Call(r),
         req'[r].op \in Mailing \cup {"verify_email"}
  PROVE  AccountPlan(req'[r])
  <1>1. PICK q : q = req'[r] OBVIOUS
  <1>2. CASE q.op = "resend_verification"
    <2>1. PICK a \in Addresses : row[a].uid \in Uids /\ q.arg = [to |-> a, uid |-> row[a].uid]
      BY <1>1, <1>2, AccountCalls
    <2>2. q.arg \in [to : Addresses, uid : Uids] BY <2>1
    <2>3. QED BY <1>1, <1>2, <2>2 DEF AccountPlan, Mailing
  <1>3. CASE q.op = "register"
    <2>1. PICK a \in Addresses, i \in NewUids : \E user :
            /\ user.uid = i /\ q.arg = [to |-> a, uid |-> i]
            /\ q.new = NoRows /\ q.names = <<<<a, user>>>>
      BY <1>1, <1>3, AccountCalls
    <2>2. PICK user : user.uid = i /\ q.new = NoRows /\ q.names = <<<<a, user>>>> BY <2>1
    <2>3. q.arg.to = a /\ q.arg.uid = i BY <2>1
    <2>4. q.arg \in [to : Addresses, uid : Uids] BY <2>1 DEF NewUids
    <2>5. PICK pair : pair = <<a, user>> OBVIOUS
    <2>6. pair[1] = a /\ pair[2] = user BY <2>5
    <2>7. Len(q.names) = 1 /\ q.names[1] = pair BY <2>2, <2>5
    <2>8. Pending(q) = {pair} BY <2>7 DEF Pending
    <2>9. QED BY <1>1, <1>3, <2>2, <2>3, <2>4, <2>6, <2>8, IdleFields DEF AccountPlan
  <1>4. CASE q.op = "verify_email"
    <2>1. PICK m \in mail :
            /\ link[m[1]] # None /\ q.arg = [link |-> m[1], uid |-> link[m[1]]]
            /\ q.todo = {} /\ q.hold = {}
      BY <1>1, <1>4, AccountCalls
    <2>2. link[m[1]] = m[3] BY <2>1 DEF AccountsFit, KeysFit
    <2>3. PICK t \in Links, a \in Addresses, i \in Uids : m = <<t, a, i>> BY DEF Base
    <2>4. q.arg.link = t /\ q.arg.uid = i BY <2>1, <2>2, <2>3
    <2>5. \E b \in Addresses : <<q.arg.link, b, q.arg.uid>> \in mail BY <2>3, <2>4
    <2>6. QED BY <1>1, <1>4, <2>1, <2>5 DEF AccountPlan, Mailing
  <1>5. QED BY <1>1, <1>2, <1>3, <1>4 DEF Mailing

\* A plan says of the rows that they have an id, and of the mails that one has been sent.
LEMMA AccountPlanStays ==
  ASSUME Base, [Next]_all, NEW q, AccountPlan(q), NEW r, req'[r] = q
  PROVE  AccountPlan(req[r])'
  <1>1. mail \subseteq mail' BY MailsStay
  <1>2. ASSUME NEW x, NEW i, HasId(x, i) PROVE HasId(x, i)'
    BY <1>2, IdsOfAccountsStay DEF HasId
  <1>3. QED BY <1>1, <1>2 DEF AccountPlan, Pending

\* Every step keeps the plans.
LEMMA StepKeepsAccountPlans ==
  ASSUME Base, Base', AccountsFit, [Next]_all
  PROVE  (\A r \in Requests : AccountPlan(req[r]))'
  <1>1. ASSUME NEW r \in Requests PROVE AccountPlan(req'[r])
    <2>1. PICK p, q : p = req[r] /\ q = req'[r] OBVIOUS
    <2>2. AccountPlan(p) BY <2>1 DEF AccountsFit
    <2>3. CASE q.op \notin Mailing \cup {"verify_email"} BY <2>1, <2>3, NoAccountsElsewhere
    <2>4. CASE q = p BY <2>1, <2>2, <2>4
    <2>5. CASE q = Idle BY <2>3, <2>5, IdleIsNoAccount
    <2>6. CASE Call(r) BY <2>1, <2>3, <2>6, CallsPlanAccounts
    <2>7. CASE q \notin {p, Idle} /\ ~Call(r) /\ q.op \in Mailing \cup {"verify_email"}
      <3>1. /\ q.op = p.op /\ q.arg = p.arg
            /\ \A x \in DOMAIN q.new : \/ x \in DOMAIN p.new /\ q.new[x] = p.new[x]
                                       \/ \E n \in Pending(p) : n[1] = x /\ n[2] = q.new[x]
            /\ Pending(q) \subseteq Pending(p)
            /\ \A x \in q.todo \cup q.hold :
                  x \in p.todo \cup p.hold \/ HasId(x, p.arg.uid)
        BY <2>1, <2>7, AccountMoves
      <3>2. AccountPlan(q) BY <2>2, <3>1 DEF AccountPlan
      <3>3. QED BY <2>1, <3>2
    <2>8. QED BY <2>3, <2>4, <2>5, <2>6, <2>7
  <1>2. ASSUME NEW r \in Requests PROVE AccountPlan(req[r])'
    <2>1. PICK q : q = req'[r] OBVIOUS
    <2>2. QED BY <1>1, <2>1, AccountPlanStays
  <1>3. QED BY <1>2

-----------------------------------------------------------------------------
\* uuid4 returns an id that nobody claims.
LEMMA NewUidsUnclaimed ==
  ASSUME Base, AccountsFit, NEW i \in NewUids
  PROVE  i \in Uids /\ \A a \in Addresses : ~Claims(a, i)
  <1>1. i \in Uids BY DEF NewUids
  <1>2. ASSUME NEW a \in Addresses PROVE ~HasId(a, i) BY DEF NewUids, HasId
  <1>3. ASSUME NEW a \in Addresses, NEW t \in Links PROVE <<t, a, i>> \notin mail
    <2>1. PICK m : m = <<t, a, i>> OBVIOUS
    <2>2. m[3] = i BY <2>1
    <2>3. m \notin mail BY <2>2 DEF NewUids
    <2>4. QED BY <2>1, <2>3
  <1>4. ASSUME NEW a \in Addresses, NEW r \in Requests, req[r].op \in Mailing
        PROVE  req[r].arg # [to |-> a, uid |-> i]
    <2>1. PICK arg : arg = [to |-> a, uid |-> i] OBVIOUS
    <2>2. arg \in [to : Addresses, uid : Uids] /\ arg.uid = i BY <1>1, <2>1
    <2>3. arg # None BY <2>2, NothingAssumption
    <2>4. req[r].arg # arg BY <2>2, <2>3 DEF NewUids
    <2>5. QED BY <2>1, <2>4
  <1>5. QED BY <1>1, <1>2, <1>3, <1>4 DEF Claims

\* Where the row of an account comes from, the request had its id with the address.
LEMMA NewAccountsClaimed ==
  ASSUME Base, AccountsFit, [Next]_all, NEW a \in Addresses, NEW i \in Uids, HasId(a, i)'
  PROVE  Claims(a, i)
  <1>1. row'[a] # None /\ row'[a].uid = i BY DEF HasId
  <1>2. a \in Ids /\ Kind(a) = "user" BY KindsOfRows
  <1>3. CASE row[a] # None
    <2>1. HasId(a, i) BY <1>1, <1>3, IdsOfAccountsStay DEF HasId
    <2>2. QED BY <2>1 DEF Claims
  <1>4. CASE row[a] = None
    <2>1. PICK r \in Requests :
            /\ a \in DOMAIN req[r].new /\ row'[a] = req[r].new[a]
            /\ req[r].op \in Inserters("user")
      BY <1>1, <1>2, <1>4, RowsAppearAtCommit
    <2>2. req[r].op = "register" BY <2>1, TablesOfInserters
    <2>3. /\ req[r].arg \in [to : Addresses, uid : Uids]
          /\ a = req[r].arg.to /\ req[r].new[a].uid = req[r].arg.uid
      BY <2>1, <2>2 DEF AccountsFit, AccountPlan, Mailing
    <2>4. PICK arg : arg = req[r].arg OBVIOUS
    <2>5. arg = [to |-> arg.to, uid |-> arg.uid] BY <2>3, <2>4
    <2>6. arg.to = a /\ arg.uid = i BY <1>1, <2>1, <2>3, <2>4
    <2>7. req[r].op \in Mailing /\ req[r].arg = [to |-> a, uid |-> i]
      BY <2>2, <2>4, <2>5, <2>6 DEF Mailing
    <2>8. QED BY <2>7 DEF Claims
  <1>5. QED BY <1>3, <1>4

\* A mail says what its request has.
LEMMA NewMailsClaimed ==
  ASSUME Base, AccountsFit, [Next]_all, NEW a \in Addresses, NEW i \in Uids, NEW t \in Links,
         <<t, a, i>> \in mail'
  PROVE  Claims(a, i)
  <1>1. CASE <<t, a, i>> \in mail BY <1>1 DEF Claims
  <1>2. CASE <<t, a, i>> \notin mail
    <2>1. PICK r \in Requests : MailLink(r) BY <1>2, OutsideSteps DEF outside
    <2>2. AccountPlan(req[r]) BY DEF AccountsFit
    <2>3. PICK s \in Links :
            /\ mail' \in {mail, mail \cup {<<s, req[r].arg.to, req[r].arg.uid>>}}
            /\ req[r].op \in Mailing
            /\ req[r].arg = [to |-> req[r].arg.to, uid |-> req[r].arg.uid]
      BY <2>1, <2>2, SentLinks
    <2>4. PICK to, uid : to = req[r].arg.to /\ uid = req[r].arg.uid OBVIOUS
    <2>5. <<t, a, i>> = <<s, to, uid>> BY <1>2, <2>3, <2>4
    <2>6. a = to /\ i = uid BY <2>5
    <2>7. req[r].arg = [to |-> a, uid |-> i] BY <2>3, <2>4, <2>6
    <2>8. QED BY <2>3, <2>7 DEF Claims
  <1>3. QED BY <1>1, <1>2

\* A request that keeps an id with an address has it from the step before, or registers.
LEMMA NewArgumentsClaimed ==
  ASSUME Base, AccountsFit, [Next]_all, NEW a \in Addresses, NEW i \in Uids, NEW r \in Requests,
         req'[r].op \in Mailing, req'[r].arg = [to |-> a, uid |-> i]
  PROVE  Claims(a, i) \/ (Call(r) /\ req'[r].op = "register" /\ i \in NewUids)
  <1>1. CASE req'[r] = req[r] BY <1>1 DEF Claims
  <1>2. CASE req'[r] = Idle BY <1>2, IdleIsNoAccount
  <1>3. CASE req'[r] \notin {req[r], Idle} /\ ~Call(r)
    <2>1. req'[r].op = req[r].op /\ req'[r].arg = req[r].arg BY <1>3, AccountMoves
    <2>2. QED BY <2>1 DEF Claims
  <1>4. CASE Call(r) /\ req'[r].op = "resend_verification"
    <2>1. PICK b \in Addresses : row[b] # None /\ req'[r].arg = [to |-> b, uid |-> row[b].uid]
      BY <1>4, AccountCalls
    <2>2. PICK arg : arg = req'[r].arg OBVIOUS
    <2>3. arg.to = b /\ arg.uid = row[b].uid BY <2>1, <2>2
    <2>4. arg.to = a /\ arg.uid = i BY <2>2
    <2>5. HasId(a, i) BY <2>1, <2>3, <2>4 DEF HasId
    <2>6. QED BY <2>5 DEF Claims
  <1>5. CASE Call(r) /\ req'[r].op = "register"
    <2>1. PICK b \in Addresses, j \in NewUids : req'[r].arg = [to |-> b, uid |-> j]
      BY <1>5, AccountCalls
    <2>2. PICK arg : arg = req'[r].arg OBVIOUS
    <2>3. arg.uid = j BY <2>1, <2>2
    <2>4. arg.uid = i BY <2>2
    <2>5. QED BY <1>5, <2>3, <2>4
  <1>6. QED BY <1>1, <1>2, <1>3, <1>4, <1>5 DEF Mailing

\* So an id that is new in a step is claimed by one registration.
LEMMA NewClaims ==
  ASSUME Base, AccountsFit, [Next]_all, NEW a \in Addresses, NEW i \in Uids, Claims(a, i)'
  PROVE  \/ Claims(a, i)
         \/ \E r \in Requests :
               /\ Call(r) /\ i \in NewUids
               /\ req'[r].op = "register" /\ req'[r].arg = [to |-> a, uid |-> i]
  <1>1. \/ HasId(a, i)'
        \/ \E t \in Links : <<t, a, i>> \in mail'
        \/ \E r \in Requests : req'[r].op \in Mailing /\ req'[r].arg = [to |-> a, uid |-> i]
    BY DEF Claims
  <1>2. QED BY <1>1, NewAccountsClaimed, NewMailsClaimed, NewArgumentsClaimed

\* Every step keeps the ids apart.
LEMMA StepKeepsOneAddress ==
  ASSUME Base, AccountsFit, [Next]_all
  PROVE  OneAddress'
  <1> SUFFICES ASSUME NEW a \in Addresses, NEW b \in Addresses, NEW i \in Uids,
                      Claims(a, i)', Claims(b, i)'
               PROVE  a = b
    BY DEF OneAddress
  <1>1. CASE Claims(a, i) /\ Claims(b, i) BY <1>1 DEF AccountsFit, OneAddress
  <1>2. CASE i \in NewUids
    <2>1. ~Claims(a, i) /\ ~Claims(b, i) BY <1>2, NewUidsUnclaimed
    <2>2. PICK r \in Requests : Call(r) /\ req'[r].arg = [to |-> a, uid |-> i]
      BY <2>1, NewClaims
    <2>3. PICK s \in Requests : Call(s) /\ req'[s].arg = [to |-> b, uid |-> i]
                                /\ req'[s].op = "register"
      BY <2>1, NewClaims
    <2>4. s = r
      <3>1. req[s].pc = "idle" BY <2>3, CallsByRoute
      <3>2. req'[s] # req[s]
        <4>1. req[s] = Idle BY <3>1 DEF Base, Fits, InProgram
        <4>2. QED BY <2>3, <4>1, IdleIsNoAccount DEF Mailing
      <3>3. QED BY <2>2, <3>2, CallsByRoute
    <2>5. PICK arg : arg = req'[r].arg OBVIOUS
    <2>6. arg.to = a /\ arg.to = b BY <2>2, <2>3, <2>4, <2>5
    <2>7. QED BY <2>6
  <1>3. QED BY <1>1, <1>2, NewClaims

\* AccountsFit holds in every state.
THEOREM AccountsInvariance == Spec => []AccountsFit
  <1>1. Init => AccountsFit
    <2> SUFFICES ASSUME Init PROVE AccountsFit OBVIOUS
    <2>1. \A r \in Requests : AccountPlan(req[r])
      BY IdleIsNoAccount, NoAccountsElsewhere DEF Init
    <2>2. \A a \in Addresses : row[a] = None BY KindsOfRows DEF Init
    <2>3. \A a \in Addresses, i \in Uids : ~Claims(a, i)
      BY <2>2, IdleIsNoAccount DEF Init, Claims, HasId
    <2>4. QED BY <2>1, <2>3 DEF Init, AccountsFit, KeysFit, OneAddress
  <1>2. Base /\ Base' /\ AccountsFit /\ [Next]_all => AccountsFit'
    BY StepKeepsAccountPlans, StepKeepsKeys, StepKeepsOneAddress DEF AccountsFit
  <1>3. QED BY <1>1, <1>2, BaseInvariance, PTL DEF Spec

\* An address is verified by a link that has been sent to it for the very account: the link of
\* a registration that was rolled back verifies no later account of the same address, nor of
\* another one.
THEOREM OwnMailVerifies == Spec => VerifiedByOwnMail
  <1> DEFINE Own ==
        \A a \in Addresses, r \in Requests :
           /\ row[a] # None /\ ~row[a].verified /\ row'[a].verified
           /\ At(r, "done") /\ At(r, "idle")' /\ a \in req[r].hold
           => <<req[r].arg.link, a, row[a].uid>> \in mail
  <1>1. Base /\ AccountsFit /\ [Next]_all => Own
    <2> SUFFICES ASSUME Base, AccountsFit, [Next]_all, NEW a \in Addresses, NEW r \in Requests,
                        row[a] # None, ~row[a].verified, row'[a].verified, a \in req[r].hold
                 PROVE  <<req[r].arg.link, a, row[a].uid>> \in mail
      OBVIOUS
    <2>1. a \in Ids /\ Kind(a) = "user" BY KindsOfRows
    <2>2. row[a] \in User BY <2>1, RecordsOfTables DEF Base, RowsFit, WellFormed
    <2>3. "verified" \in DOMAIN row[a] BY <2>2 DEF User
    <2>4. PICK q \in Requests : Commit(q)
      <3>1. a \notin Shares BY <2>1, KindsOfRows
      <3>2. \A s \in Shares : Expire(s) => row'[a] = row[a] BY <2>1, <3>1 DEF Expire, Base, RowsFit
      <3>3. row' # row OBVIOUS
      <3>4. QED BY <3>2, <3>3, RowsChangeAtCommit
    <2>5. a \notin DOMAIN req[q].new BY <2>4, CommittedRows
    <2>6. ColumnWritten(req[q], a, "verified", row[a]["verified"], row'[a]["verified"])
      BY <2>1, <2>3, <2>4, <2>5, CommittedRows
    <2>7. a \in req[q].hold BY <2>1, <2>6, KindsOfRows DEF ColumnWritten
    <2>8. q = r BY <2>7 DEF Base, Parted
    <2>9. Updates(req[q]) /\ Relinks(req[q]) BY DEF Base, Fits
    <2>10. "verified" \in ColumnsOf(req[q].op) BY <2>1, <2>6, <2>9, ColumnsWritten
    <2>11. req[r].op = "verify_email" BY <2>8, <2>10 DEF ColumnsOf
    <2>12. PICK b \in Addresses : <<req[r].arg.link, b, req[r].arg.uid>> \in mail
      BY <2>11 DEF AccountsFit, AccountPlan, Mailing
    <2>13. HasId(a, req[r].arg.uid) BY <2>11 DEF AccountsFit, AccountPlan, Mailing
    <2>14. req[r].arg.link \in Links /\ req[r].arg.uid \in Uids
      BY <2>11 DEF Base, Fits, InProgram
    <2>15. Claims(a, req[r].arg.uid) /\ Claims(b, req[r].arg.uid) BY <2>12, <2>13, <2>14 DEF Claims
    <2>16. a = b BY <2>14, <2>15 DEF AccountsFit, OneAddress
    <2>17. QED BY <2>12, <2>13, <2>16 DEF HasId
  <1>2. QED BY <1>1, BaseInvariance, AccountsInvariance, PTL DEF VerifiedByOwnMail, Spec
=============================================================================
