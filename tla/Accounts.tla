------------------------------- MODULE Accounts -------------------------------
(***************************************************************************)
(* Registration, the verification of e-mail addresses and the profile of a *)
(* user: app/auth, app/users.  Signing in, passwords and sessions are in   *)
(* AuthSessions.                                                           *)
(*                                                                         *)
(* email is unique over all rows, so that an address stands for its row,  *)
(* whose id is the column uid.  The link to verify an address is a key in  *)
(* Redis with that id, which is written while the transaction is open and  *)
(* outlives its rollback.                                                  *)
(***************************************************************************)
EXTENDS Repository

CONSTANTS
    Addresses,
    Uids,           \* ids of users
    Links,          \* tokens
    Profiles        \* values of the columns that a user may change

\* A user: the row of an address.
User == [uid : Uids, verified : BOOLEAN, profile : Profiles, deleted : BOOLEAN]

AccountRoutes == {"register", "verify_email", "resend_verification", "update_profile"}

VARIABLES
    link,   \* email_verify keys in Redis: the id of a user, None if there is no such key
    mail    \* links that have been sent: <<link, address, id>>

outside == <<link, mail>>

\* Ids that uuid4 may return.
NewUids == {i \in Uids : /\ \A a \in Addresses : row[a] # None => row[a].uid # i
                         /\ \A t \in Links : link[t] # i
                         /\ \A m \in mail : m[3] # i
                         /\ \A q \in Requests : req[q].arg # None => req[q].arg.uid # i}

Register(r, a, v) ==
    /\ ~Live(a)
    /\ NewUids # {}
    /\ LET i == CHOOSE i \in NewUids : TRUE
       IN  Begin(r, [Idle EXCEPT !.pc = "insert", !.op = "register", !.next = "mail",
                                 !.arg = [to |-> a, uid |-> i],
                                 !.names = <<<<a, [uid |-> i, verified |-> FALSE, profile |-> v,
                                                   deleted |-> FALSE]>>>>])
    /\ UNCHANGED outside

ResendVerification(r, a) ==
    /\ Live(a) /\ ~row[a].verified
    /\ Begin(r, [Idle EXCEPT !.pc = "mail", !.op = "resend_verification",
                             !.arg = [to |-> a, uid |-> row[a].uid]])
    /\ UNCHANGED outside

\* The key is read and deleted, then the user is looked up: one whose registration has not
\* been committed is not found, and the link is gone.
VerifyEmail(r, t) ==
    /\ \E m \in mail : m[1] = t
    /\ link[t] # None
    /\ Begin(r, [Idle EXCEPT !.pc = "use", !.op = "verify_email", !.arg = [link |-> t, uid |-> link[t]]])
    /\ UNCHANGED outside

\* The user is signed in, which takes a verified address.
UpdateProfile(r, a, v) ==
    /\ Live(a) /\ row[a].verified
    /\ Update(r, "update_profile", None, a, [profile |-> v])
    /\ UNCHANGED outside

-----------------------------------------------------------------------------
\* The key is written, then the mail is sent; an error of the mail server ends the request.
MailLink(r) ==
    /\ At(r, "mail")
    /\ \E t \in Links :
          /\ link[t] = None /\ \A m \in mail : m[1] # t
          /\ link' = [link EXCEPT ![t] = req[r].arg.uid]
          /\ \/ /\ mail' = mail \cup {<<t, req[r].arg.to, req[r].arg.uid>>}
                /\ Continue(r, [req[r] EXCEPT !.pc = "done"])
             \/ Abort(r) /\ UNCHANGED mail

UseLink(r) ==
    /\ At(r, "use")
    /\ link' = [link EXCEPT ![req[r].arg.link] = None]
    /\ Continue(r, [req[r] EXCEPT !.pc = "open"])
    /\ UNCHANGED mail

\* The rest of verify_email, with the users that have been found.
Open(r, found) ==
    /\ \/ found = {} /\ Abort(r)
       \/ \E a \in found :
             Continue(r, IF row[a].verified THEN [req[r] EXCEPT !.pc = "done"]
                         ELSE [req[r] EXCEPT !.pc = "write", !.todo = {a},
                                             !.data = [verified |-> TRUE]])
    /\ UNCHANGED outside

\* Variant: the user is looked up by the address that the link has been sent to.
OpenByAddress(r) ==
    At(r, "open") /\ Open(r, {a \in Addresses : row[a] # None /\ \E m \in mail :
                                               m[1] = req[r].arg.link /\ m[2] = a})

OpenAccount(r) ==
    At(r, "open") /\ Open(r, {a \in Addresses : row[a] # None /\ row[a].uid = req[r].arg.uid})

\* The key expires.
LinkExpires(t) ==
    /\ link[t] # None
    /\ link' = [link EXCEPT ![t] = None]
    /\ UNCHANGED <<vars, mail>>

AccountCall(r) ==
    \/ \E a \in Addresses :
          \/ ResendVerification(r, a)
          \/ \E v \in Profiles : Register(r, a, v) \/ UpdateProfile(r, a, v)
    \/ \E t \in Links : VerifyEmail(r, t)

AccountStep(r) == MailLink(r) \/ UseLink(r) \/ OpenAccount(r)
=============================================================================
