------------------------ MODULE AuthSessions_proofs ------------------------
(***************************************************************************)
(* Theorems about AuthSessions, for any number of users, sessions and      *)
(* requests.  All rest on the inductive invariant IInv; KeysAreACopy, the  *)
(* one about Redis, also on KeysFollowRows.                                *)
(***************************************************************************)
EXTENDS AuthSessions, TLAPS

AfterSelect == {"apply", "members", "drop", "forget", "respond", "commit"}
AfterApply == AfterSelect \ {"apply"}
AfterInsert == {"cache", "index", "respond", "commit"}
AfterRevoke == {"uncache", "unindex", "insert"} \cup AfterInsert

HasRow(s) == owner[s] # None

\* The program each route runs.
InProgram(r) ==
    LET pc == req[r].pc
        op == req[r].op
    IN  /\ op = None => pc = "idle"
        /\ op = "login" => pc \in {"touch", "clear", "insert"} \cup AfterInsert
        /\ op = "failed_login" => pc \in {"count", "lock", "note", "raise"}
        /\ op = "refresh" => pc \in {"revoke"} \cup AfterRevoke
        /\ op = "logout" => pc \in {"revoke", "uncache", "unindex", "blacklist", "respond",
                                    "commit"}
        /\ op # "forgot_password"
        /\ op \in Revoking => pc \in {"consume", "password", "select"} \cup AfterSelect
        /\ op # None => req[r].user \in Users
        /\ op = "logout" => req[r].token \in Sessions

\* What a login or a refresh has written where it stands.
OpeningInStep(r) ==
    /\ req[r].op = "login" => req[r].old = None /\ req[r].hits = {}
    /\ req[r].op = "refresh" => req[r].old \in Sessions /\ HasRow(req[r].old)
    /\ req[r].pc = "revoke" => req[r].old \in Sessions /\ HasRow(req[r].old)
    /\ req[r].op = "refresh" /\ req[r].pc \in AfterRevoke => req[r].hits = {req[r].old}
    /\ req[r].op \in Opening /\ req[r].pc \in AfterInsert => req[r].new \in Sessions
    /\ req[r].op = "login" /\ req[r].pc # "touch" => req[r].write = "signin"

\* What a sweep has selected and written where it stands.
SweepInStep(r) ==
    /\ req[r].op \notin Revoking => req[r].rows = {}
    /\ req[r].pc \in AfterApply => req[r].rows \subseteq revoked \cup req[r].hits
    /\ \A s \in req[r].rows \cup req[r].hits : HasRow(s)

\* A new password waits in the transaction: no login can commit before it, so the
\* sessions of logins are among the rows selected.
PasswordInStep(r) ==
    req[r].write = "password" =>
        /\ req[r].pc \in {"select"} \cup AfterSelect
        /\ req[r].op \in Revoking
        /\ req[r].pc \in AfterSelect =>
              \A s \in Sessions : owner[s] = req[r].user /\ parent[s] = None
                                      => s \in revoked \cup req[r].rows

\* The id of the row a request is about to commit is its own.
NewInStep(r) ==
    \A s \in Opened(r) \ {None} :
        /\ s \in minted /\ ~HasRow(s)
        /\ \A q \in Requests \ {r} : s \notin Opened(q)
        /\ At(r, "commit") => issued[s] = req[r].user

\* One transaction at a time has written the users row.
UserRowIsExclusive ==
    \A r, q \in Requests :
        r # q /\ req[r].write # None /\ req[q].write # None => req[r].user # req[q].user

\* History and revocations are about rows.
RowsFirst ==
    \A s \in Sessions :
        /\ HasRow(s) => s \in minted
        /\ s \in revoked => HasRow(s)
        /\ parent[s] # None => HasRow(s)

InStep(r) ==
    /\ InProgram(r) /\ OpeningInStep(r) /\ SweepInStep(r) /\ PasswordInStep(r)
    /\ NewInStep(r)

IInv ==
    /\ TypeOK
    /\ RowsFirst
    /\ \A r \in Requests : InStep(r)
    /\ UserRowIsExclusive
    /\ RotationRevokesParent

\* A step of request r that leaves the committed rows alone.
Frame(r) ==
    /\ \A q \in Requests \ {r} : req'[q] = req[q]
    /\ UNCHANGED <<owner, revoked, parent, minted>>
    /\ \A s \in Sessions \ Opened(r) : issued'[s] = issued[s]
    /\ Opened(r)' \subseteq Opened(r) \cup {None}
    /\ req'[r].write # None =>
          \/ req[r].write # None /\ req'[r].user = req[r].user
          \/ ~UserLocked(req'[r].user, r)

LocalStep(r) ==
    \/ CountFailure(r) \/ RecordFailure(r) \/ Raise(r)
    \/ TouchUser(r) \/ ClearAttempts(r) \/ CacheSession(r) \/ IndexSession(r)
    \/ RevokeOld(r) \/ UncacheOld(r) \/ UnindexOld(r) \/ Blacklist(r)
    \/ ConsumeReset(r) \/ UpdatePassword(r)
    \/ SelectSessions(r) \/ ApplyRevocation(r)
    \/ ReadIndex(r) \/ DropCached(r) \/ DropIndex(r)
    \/ Respond(r) \/ Crash(r)

-----------------------------------------------------------------------------
\* The empty database, and no request at work.
LEMMA InitIInv == Init => IInv
  BY NoneAssumption, BoundAssumption
     DEF Init, IInv, TypeOK, RequestType, Idle, Pcs, RowsFirst, InStep, InProgram,
         OpeningInStep, SweepInStep, PasswordInStep, NewInStep, UserRowIsExclusive,
         RotationRevokesParent, HasRow, Opened, Opening, Revoking, Routes, Writes, At

-----------------------------------------------------------------------------
\* A step inside a transaction keeps the invariant, if it keeps what is said of its own
\* request.
LEMMA LocalKeepsIInv ==
  ASSUME IInv, TypeOK', NEW r \in Requests, Frame(r), InStep(r)'
  PROVE  IInv'
  <1>1. ASSUME NEW q \in Requests \ {r} PROVE InStep(q)'
    <2>1. InStep(q) /\ req'[q] = req[q] BY <1>1 DEF IInv, Frame
    <2>2. InProgram(q)' /\ OpeningInStep(q)' /\ SweepInStep(q)' /\ PasswordInStep(q)'
      BY <2>1 DEF Frame, InStep, InProgram, OpeningInStep, SweepInStep, PasswordInStep,
                  HasRow
    <2>3. NewInStep(q)'
      BY <2>1 DEF Frame, InStep, NewInStep, HasRow, Opened, At, IInv, TypeOK
    <2>4. QED BY <2>2, <2>3 DEF InStep
  <1>2. UserRowIsExclusive'
    BY DEF IInv, Frame, UserRowIsExclusive, UserLocked
  <1>3. RowsFirst' /\ RotationRevokesParent'
    BY DEF IInv, Frame, RowsFirst, RotationRevokesParent, HasRow
  <1>4. QED BY <1>1, <1>2, <1>3 DEF IInv

\* What the steps of a request assign to its record.
LEMMA AssignType ==
  ASSUME TypeOK, NEW r \in Requests, NEW pc \in Pcs
  PROVE  /\ [req[r] EXCEPT !.pc = pc] \in RequestType
         /\ \A x \in SUBSET Sessions :
               /\ [req[r] EXCEPT !.pc = pc, !.rows = x] \in RequestType
               /\ [req[r] EXCEPT !.pc = pc, !.hits = x] \in RequestType
               /\ [req[r] EXCEPT !.pc = pc, !.seen = x] \in RequestType
         /\ \A x \in Writes : [req[r] EXCEPT !.pc = pc, !.write = x] \in RequestType
         /\ \A x \in Sessions : [req[r] EXCEPT !.pc = pc, !.new = x] \in RequestType
  BY DEF TypeOK, RequestType

\* What Raise, Commit and Crash assign.
LEMMA IdleType == Idle \in RequestType
  BY DEF Idle, RequestType, Pcs

\* A request and its record stay well typed.
LEMMA LocalTypes ==
  ASSUME IInv, NEW r \in Requests, LocalStep(r)
  PROVE  TypeOK'
  <1> DEFINE Typed == req' \in [Requests -> RequestType]
  <1>1. TypeOK /\ InStep(r) BY DEF IInv
  <1>2. /\ req \in [Requests -> RequestType]
        /\ req[r].new \in Sessions \cup {None}
        /\ req[r].rows \ revoked \in SUBSET Sessions
    BY <1>1 DEF TypeOK, RequestType
  <1>3. \A x \in RequestType : [req EXCEPT ![r] = x] \in [Requests -> RequestType]
    BY <1>2
  <1>4. \A pc \in Pcs :
         /\ [req[r] EXCEPT !.pc = pc] \in RequestType
         /\ \A x \in SUBSET Sessions :
               /\ [req[r] EXCEPT !.pc = pc, !.rows = x] \in RequestType
               /\ [req[r] EXCEPT !.pc = pc, !.hits = x] \in RequestType
               /\ [req[r] EXCEPT !.pc = pc, !.seen = x] \in RequestType
         /\ \A x \in Writes : [req[r] EXCEPT !.pc = pc, !.write = x] \in RequestType
    BY <1>1, AssignType
  <1>5. CASE CountFailure(r)
    <2>1. Typed
      BY <1>5, <1>2, <1>3, <1>4 DEF CountFailure, Goto, Pcs, Writes
    <2>2. attempts' \in [Users -> 0..MaxLoginAttempts]
      BY BoundAssumption, <1>1, <1>5 DEF CountFailure, TypeOK, InStep, InProgram, At
    <2>3. QED BY <1>1, <1>5, <2>1, <2>2 DEF CountFailure, TypeOK, postgres, redis, history
  <1>6. CASE RecordFailure(r)
    <2>1. Typed
      BY <1>6, <1>2, <1>3, <1>4 DEF RecordFailure, Goto, Pcs, Writes
    <2>2. QED BY <1>1, <1>6, <2>1 DEF RecordFailure, TypeOK, postgres, redis, history
  <1>7. CASE Raise(r)
    <2>1. Typed
      BY <1>7, <1>3, IdleType DEF Raise
    <2>2. QED BY <1>1, <1>7, <2>1 DEF Raise, TypeOK, postgres, redis, history
  <1>8. CASE TouchUser(r)
    <2>1. Typed
      BY <1>8, <1>2, <1>3, <1>4 DEF TouchUser, Goto, Pcs, Writes
    <2>2. QED BY <1>1, <1>8, <2>1 DEF TouchUser, TypeOK, postgres, redis, history
  <1>9. CASE ClearAttempts(r)
    <2>1. 0 \in 0..MaxLoginAttempts
      BY BoundAssumption
    <2>2. Typed
      BY <1>9, <1>2, <1>3, <1>4, <2>1 DEF ClearAttempts, Goto, Pcs, Writes
    <2>3. QED BY <1>1, <1>9, <2>2, <2>1 DEF ClearAttempts, TypeOK, postgres, redis, history
  <1>10. CASE CacheSession(r)
    <2>1. Typed
      BY <1>10, <1>2, <1>3, <1>4 DEF CacheSession, Goto, Pcs, Writes
    <2>2. cached' \subseteq Sessions
      BY NoneAssumption, <1>1, <1>10
         DEF CacheSession, TypeOK, InStep, InProgram, OpeningInStep, At, AfterInsert,
             AfterSelect, Opening, Revoking, RequestType, Routes
    <2>3. QED BY <1>1, <1>10, <2>1, <2>2 DEF CacheSession, TypeOK, postgres, redis, history
  <1>11. CASE IndexSession(r)
    <2>1. Typed
      BY <1>11, <1>2, <1>3, <1>4 DEF IndexSession, Goto, Pcs, Writes
    <2>2. index' \in [Users -> SUBSET Sessions]
      BY NoneAssumption, <1>1, <1>11
         DEF IndexSession, TypeOK, InStep, InProgram, OpeningInStep, At, AfterInsert,
             AfterSelect, Opening, Revoking, RequestType, Routes
    <2>3. QED BY <1>1, <1>11, <2>1, <2>2 DEF IndexSession, TypeOK, postgres, redis, history
  <1>12. CASE RevokeOld(r)
    <2>1. {req[r].old} \in SUBSET Sessions
      BY <1>1, <1>12 DEF RevokeOld, At, InStep, OpeningInStep
    <2>2. Typed
      BY <1>12, <1>2, <1>3, <1>4, <2>1 DEF RevokeOld, Goto, Pcs, Writes
    <2>3. QED BY <1>1, <1>12, <2>2 DEF RevokeOld, TypeOK, postgres, redis, history
  <1>13. CASE UncacheOld(r)
    <2>1. Typed
      BY <1>13, <1>2, <1>3, <1>4 DEF UncacheOld, Goto, Pcs, Writes
    <2>2. QED BY <1>1, <1>13, <2>1 DEF UncacheOld, TypeOK, postgres, redis, history
  <1>14. CASE UnindexOld(r)
    <2>1. Typed
      BY <1>14, <1>2, <1>3, <1>4 DEF UnindexOld, Goto, Pcs, Writes
    <2>2. index' \in [Users -> SUBSET Sessions]
      BY <1>1, <1>14 DEF UnindexOld, TypeOK
    <2>3. QED BY <1>1, <1>14, <2>1, <2>2 DEF UnindexOld, TypeOK, postgres, redis, history
  <1>15. CASE Blacklist(r)
    <2>1. Typed
      BY <1>15, <1>2, <1>3, <1>4 DEF Blacklist, Goto, Pcs, Writes
    <2>2. blacklist' \subseteq Sessions
      BY NoneAssumption, <1>1, <1>15 DEF Blacklist, TypeOK, InStep, InProgram, At,
             AfterInsert, AfterRevoke, AfterSelect, Opening, Revoking, RequestType, Routes
    <2>3. QED BY <1>1, <1>15, <2>1, <2>2 DEF Blacklist, TypeOK, postgres, redis, history
  <1>16. CASE ConsumeReset(r)
    <2>1. Typed
      BY <1>16, <1>2, <1>3, <1>4 DEF ConsumeReset, Goto, Pcs, Writes
    <2>2. resets' \in [ResetTokens -> Users \cup {None}]
      BY <1>1, <1>16 DEF ConsumeReset, TypeOK
    <2>3. QED BY <1>1, <1>16, <2>1, <2>2 DEF ConsumeReset, TypeOK, postgres, redis, history
  <1>17. CASE UpdatePassword(r)
    <2>1. Typed
      BY <1>17, <1>2, <1>3, <1>4 DEF UpdatePassword, Goto, Pcs, Writes
    <2>2. QED BY <1>1, <1>17, <2>1 DEF UpdatePassword, TypeOK, postgres, redis, history
  <1>18. CASE SelectSessions(r)
    <2>1. {s \in Sessions : owner[s] = req[r].user /\ Live(s)} \in SUBSET Sessions
      OBVIOUS
    <2>2. Typed
      BY <1>18, <1>2, <1>3, <1>4, <2>1 DEF SelectSessions, Goto, Pcs, Writes
    <2>3. QED BY <1>1, <1>18, <2>2 DEF SelectSessions, TypeOK, postgres, redis, history
  <1>19. CASE ApplyRevocation(r)
    <2>1. Typed
      BY <1>19, <1>2, <1>3, <1>4 DEF ApplyRevocation, Goto, Pcs, Writes
    <2>2. QED BY <1>1, <1>19, <2>1 DEF ApplyRevocation, TypeOK, postgres, redis, history
  <1>20. CASE ReadIndex(r)
    <2>1. index[req[r].user] \in SUBSET Sessions
      BY <1>1, <1>20 DEF ReadIndex, TypeOK, At, InStep, InProgram
    <2>2. Typed
      BY <1>20, <1>2, <1>3, <1>4, <2>1 DEF ReadIndex, Goto, Pcs, Writes
    <2>3. QED BY <1>1, <1>20, <2>2 DEF ReadIndex, TypeOK, postgres, redis, history
  <1>21. CASE DropCached(r)
    <2>1. Typed
      BY <1>21, <1>2, <1>3, <1>4 DEF DropCached, Goto, Pcs, Writes
    <2>2. QED BY <1>1, <1>21, <2>1 DEF DropCached, TypeOK, postgres, redis, history
  <1>22. CASE DropIndex(r)
    <2>1. Typed
      BY <1>22, <1>2, <1>3, <1>4 DEF DropIndex, Goto, Pcs, Writes
    <2>2. index' \in [Users -> SUBSET Sessions]
      BY <1>1, <1>22 DEF DropIndex, TypeOK
    <2>3. QED BY <1>1, <1>22, <2>1, <2>2 DEF DropIndex, TypeOK, postgres, redis, history
  <1>23. CASE Respond(r)
    <2>1. Typed
      BY <1>23, <1>2, <1>3, <1>4 DEF Respond, Goto, Pcs, Writes
    <2>2. issued' \in [Sessions -> Users \cup {None}]
      BY <1>1, <1>23 DEF Respond, TypeOK, RequestType
    <2>3. QED BY <1>1, <1>23, <2>1, <2>2 DEF Respond, TypeOK, postgres, redis, history
  <1>24. CASE Crash(r)
    <2>1. Typed
      BY <1>24, <1>3, IdleType DEF Crash
    <2>2. crashes' \in 0..MaxCrashes
      BY BoundAssumption, <1>1, <1>24 DEF Crash, TypeOK
    <2>3. QED BY <1>1, <1>24, <2>1, <2>2 DEF Crash, TypeOK, postgres, redis, history
  <1>25. QED
    BY <1>5, <1>6, <1>7, <1>8, <1>9, <1>10, <1>11, <1>12, <1>13, <1>14,
       <1>15, <1>16, <1>17, <1>18, <1>19, <1>20, <1>21, <1>22, <1>23, <1>24 DEF LocalStep

\* A step assigns only what its request owns.
LEMMA LocalFrame ==
  ASSUME IInv, NEW r \in Requests, LocalStep(r)
  PROVE  Frame(r)
  <1> USE DEF Frame, Opened, Opening, Goto, Idle, postgres, history
  <1>1. req \in [Requests -> RequestType] /\ issued \in [Sessions -> Users \cup {None}]
    BY DEF IInv, TypeOK
  <1>2. CASE CountFailure(r) BY <1>1, <1>2 DEF CountFailure, RequestType
  <1>3. CASE RecordFailure(r) BY <1>1, <1>3 DEF RecordFailure, RequestType
  <1>4. CASE Raise(r) BY <1>1, <1>4 DEF Raise, RequestType
  <1>5. CASE TouchUser(r) BY <1>1, <1>5 DEF TouchUser, RequestType
  <1>6. CASE ClearAttempts(r) BY <1>1, <1>6 DEF ClearAttempts, RequestType
  <1>7. CASE CacheSession(r) BY <1>1, <1>7 DEF CacheSession, RequestType
  <1>8. CASE IndexSession(r) BY <1>1, <1>8 DEF IndexSession, RequestType
  <1>9. CASE RevokeOld(r) BY <1>1, <1>9 DEF RevokeOld, RequestType
  <1>10. CASE UncacheOld(r) BY <1>1, <1>10 DEF UncacheOld, RequestType
  <1>11. CASE UnindexOld(r) BY <1>1, <1>11 DEF UnindexOld, RequestType
  <1>12. CASE Blacklist(r) BY <1>1, <1>12 DEF Blacklist, RequestType
  <1>13. CASE ConsumeReset(r) BY <1>1, <1>13 DEF ConsumeReset, RequestType
  <1>14. CASE UpdatePassword(r) BY <1>1, <1>14 DEF UpdatePassword, RequestType
  <1>15. CASE SelectSessions(r) BY <1>1, <1>15 DEF SelectSessions, RequestType
  <1>16. CASE ApplyRevocation(r) BY <1>1, <1>16 DEF ApplyRevocation, RequestType
  <1>17. CASE ReadIndex(r) BY <1>1, <1>17 DEF ReadIndex, RequestType
  <1>18. CASE DropCached(r) BY <1>1, <1>18 DEF DropCached, RequestType
  <1>19. CASE DropIndex(r) BY <1>1, <1>19 DEF DropIndex, RequestType
  <1>20. CASE Respond(r) BY <1>1, <1>20 DEF Respond, RequestType
  <1>21. CASE Crash(r) BY <1>1, <1>21 DEF Crash, RequestType
  <1>22. QED
    BY <1>2, <1>3, <1>4, <1>5, <1>6, <1>7, <1>8, <1>9, <1>10, <1>11, <1>12,
       <1>13, <1>14, <1>15, <1>16, <1>17, <1>18, <1>19, <1>20, <1>21 DEF LocalStep

\* The request is where its program says, having written what comes before.
LEMMA LocalInStep ==
  ASSUME IInv, NEW r \in Requests, LocalStep(r)
  PROVE  InStep(r)'
  <1> USE NoneAssumption
      DEF Goto, At, RequestType, InStep, InProgram, OpeningInStep, SweepInStep,
          PasswordInStep, NewInStep, HasRow, Opened, Opening, Revoking, Routes, Writes,
          AfterSelect, AfterApply, AfterInsert, AfterRevoke, postgres, history
  <1>1. TypeOK /\ RowsFirst /\ InStep(r) BY DEF IInv
  <1>2. CASE CountFailure(r) BY <1>1, <1>2 DEF CountFailure, TypeOK
  <1>3. CASE RecordFailure(r) BY <1>1, <1>3 DEF RecordFailure, TypeOK
  <1>4. CASE Raise(r) BY <1>1, <1>4 DEF Raise, TypeOK, Idle
  <1>5. CASE TouchUser(r) BY <1>1, <1>5 DEF TouchUser, TypeOK
  <1>6. CASE ClearAttempts(r) BY <1>1, <1>6 DEF ClearAttempts, TypeOK
  <1>7. CASE CacheSession(r) BY <1>1, <1>7 DEF CacheSession, TypeOK
  <1>8. CASE IndexSession(r) BY <1>1, <1>8 DEF IndexSession, TypeOK
  <1>9. CASE RevokeOld(r) BY <1>1, <1>9 DEF RevokeOld, TypeOK
  <1>10. CASE UncacheOld(r) BY <1>1, <1>10 DEF UncacheOld, TypeOK
  <1>11. CASE UnindexOld(r) BY <1>1, <1>11 DEF UnindexOld, TypeOK
  <1>12. CASE Blacklist(r) BY <1>1, <1>12 DEF Blacklist, TypeOK
  <1>13. CASE ConsumeReset(r) BY <1>1, <1>13 DEF ConsumeReset, TypeOK
  <1>14. CASE UpdatePassword(r) BY <1>1, <1>14 DEF UpdatePassword, TypeOK
  <1>15. CASE SelectSessions(r) BY <1>1, <1>15 DEF SelectSessions, TypeOK, Live
  <1>16. CASE ApplyRevocation(r) BY <1>1, <1>16 DEF ApplyRevocation, TypeOK
  <1>17. CASE ReadIndex(r) BY <1>1, <1>17 DEF ReadIndex, TypeOK
  <1>18. CASE DropCached(r) BY <1>1, <1>18 DEF DropCached, TypeOK
  <1>19. CASE DropIndex(r) BY <1>1, <1>19 DEF DropIndex, TypeOK
  <1>20. CASE Respond(r) BY <1>1, <1>20 DEF Respond, TypeOK
  <1>21. CASE Crash(r) BY <1>1, <1>21 DEF Crash, TypeOK, Idle
  <1>22. QED
    BY <1>2, <1>3, <1>4, <1>5, <1>6, <1>7, <1>8, <1>9, <1>10, <1>11, <1>12,
       <1>13, <1>14, <1>15, <1>16, <1>17, <1>18, <1>19, <1>20, <1>21 DEF LocalStep

-----------------------------------------------------------------------------
\* A route that only begins: nothing is written, and the request stands at the first
\* step of its program.
LEMMA BeginKeepsIInv ==
  ASSUME IInv, NEW r \in Requests, NEW call \in RequestType, NEW pc \in Pcs,
         Begin(r, call, pc),
         UNCHANGED <<postgres, redis, issued, history>>,
         call.new = None, call.rows = {}, call.hits = {}, call.write = None,
         pc \notin AfterApply,
         InProgram(r)', OpeningInStep(r)'
  PROVE  IInv'
  <1>1. TypeOK BY DEF IInv
  <1>2. req' = [req EXCEPT ![r] = [call EXCEPT !.pc = pc]] BY DEF Begin
  <1>3. [call EXCEPT !.pc = pc] \in RequestType BY DEF RequestType
  <1>4. req \in [Requests -> RequestType] BY <1>1 DEF TypeOK
  <1>5. req' \in [Requests -> RequestType] BY <1>2, <1>3, <1>4
  <1>6. TypeOK' BY <1>1, <1>5 DEF TypeOK, postgres, redis, history
  <1>7. /\ req'[r].pc = pc /\ req'[r].op = call.op /\ req'[r].new = None
        /\ req'[r].rows = {} /\ req'[r].hits = {} /\ req'[r].write = None
    BY <1>2, <1>4 DEF RequestType
  <1>8. Opened(r)' \subseteq {None} BY <1>7 DEF Opened
  <1>9. Frame(r)
    BY <1>2, <1>4, <1>7, <1>8 DEF Frame, postgres, history
  <1>10. SweepInStep(r)' /\ PasswordInStep(r)' /\ NewInStep(r)'
    BY <1>7, <1>8, NoneAssumption DEF SweepInStep, PasswordInStep, NewInStep, Writes
  <1>11. QED BY <1>6, <1>9, <1>10, LocalKeepsIInv DEF InStep

\* What the routes put into the record of a request.
LEMMA CallType ==
  ASSUME NEW op \in Routes, NEW u \in Users
  PROVE  /\ [Idle EXCEPT !.op = op, !.user = u] \in RequestType
         /\ \A s \in Sessions :
               [Idle EXCEPT !.op = op, !.user = u, !.old = s] \in RequestType
         /\ \A t \in Sessions \cup ResetTokens :
               [Idle EXCEPT !.op = op, !.user = u, !.token = t] \in RequestType
         /\ \A s, a \in Sessions :
               [Idle EXCEPT !.op = op, !.user = u, !.old = s, !.token = a] \in RequestType
  BY DEF Idle, RequestType, Pcs

\* Each route, called.
LEMMA CallKeepsIInv ==
  ASSUME IInv, NEW r \in Requests, Call(r)
  PROVE  IInv'
  <1> USE NoneAssumption
  <1>1. TypeOK BY DEF IInv
  <1>2. req \in [Requests -> RequestType] BY <1>1 DEF TypeOK
  <1>3. ASSUME NEW call \in RequestType, NEW pc \in Pcs, Begin(r, call, pc)
        PROVE  /\ req'[r].pc = pc /\ req'[r].op = call.op /\ req'[r].user = call.user
               /\ req'[r].old = call.old /\ req'[r].new = call.new
               /\ req'[r].token = call.token /\ req'[r].rows = call.rows
               /\ req'[r].hits = call.hits /\ req'[r].write = call.write
    BY <1>2, <1>3 DEF Begin, RequestType
  <1>4. ASSUME NEW u \in Users, Login(r, u) PROVE IInv'
    <2> DEFINE call == [Idle EXCEPT !.op = "login", !.user = u]
    <2>1. call \in RequestType BY CallType DEF Routes
    <2>2. /\ call.op = "login" /\ call.user = u /\ call.old = None /\ call.new = None
          /\ call.rows = {} /\ call.hits = {} /\ call.write = None
      BY DEF Idle
    <2> HIDE DEF call
    <2>3. Begin(r, call, "touch") /\ UNCHANGED <<postgres, redis, issued, history>>
      BY <1>4 DEF Login, call
    <2>4. InProgram(r)' /\ OpeningInStep(r)'
      BY <1>3, <2>1, <2>2, <2>3
         DEF InProgram, OpeningInStep, Pcs, Opening, Revoking, AfterInsert, Routes
    <2>5. QED
      BY <2>1, <2>2, <2>3, <2>4, BeginKeepsIInv DEF Pcs, AfterApply, AfterSelect
  <1>5. ASSUME NEW u \in Users, LoginWrongPassword(r, u) PROVE IInv'
    <2> DEFINE call == [Idle EXCEPT !.op = "failed_login", !.user = u]
    <2>1. call \in RequestType BY CallType DEF Routes
    <2>2. /\ call.op = "failed_login" /\ call.user = u /\ call.new = None
          /\ call.rows = {} /\ call.hits = {} /\ call.write = None
      BY DEF Idle
    <2> HIDE DEF call
    <2>3. Begin(r, call, "count") /\ UNCHANGED <<postgres, redis, issued, history>>
      BY <1>5 DEF LoginWrongPassword, call
    <2>4. InProgram(r)' /\ OpeningInStep(r)'
      BY <1>3, <2>1, <2>2, <2>3
         DEF InProgram, OpeningInStep, Pcs, Opening, Revoking, AfterInsert, Routes
    <2>5. QED
      BY <2>1, <2>2, <2>3, <2>4, BeginKeepsIInv DEF Pcs, AfterApply, AfterSelect
  <1>6. ASSUME NEW u \in Users, RevokeSessions(r, u) PROVE IInv'
    <2> DEFINE call == [Idle EXCEPT !.op = "revoke_sessions", !.user = u]
    <2>1. call \in RequestType BY CallType DEF Routes, Revoking
    <2>2. /\ call.op = "revoke_sessions" /\ call.user = u /\ call.new = None
          /\ call.rows = {} /\ call.hits = {} /\ call.write = None
      BY DEF Idle
    <2> HIDE DEF call
    <2>3. Begin(r, call, "select") /\ UNCHANGED <<postgres, redis, issued, history>>
      BY <1>6 DEF RevokeSessions, call
    <2>4. InProgram(r)' /\ OpeningInStep(r)'
      BY <1>3, <2>1, <2>2, <2>3
         DEF InProgram, OpeningInStep, Pcs, Opening, Revoking, AfterInsert, Routes
    <2>5. QED
      BY <2>1, <2>2, <2>3, <2>4, BeginKeepsIInv DEF Pcs, AfterApply, AfterSelect
  <1>7. ASSUME NEW u \in Users, ChangePassword(r, u) PROVE IInv'
    <2> DEFINE call == [Idle EXCEPT !.op = "change_password", !.user = u]
    <2>1. call \in RequestType BY CallType DEF Routes, Revoking
    <2>2. /\ call.op = "change_password" /\ call.user = u /\ call.new = None
          /\ call.rows = {} /\ call.hits = {} /\ call.write = None
      BY DEF Idle
    <2> HIDE DEF call
    <2>3. Begin(r, call, "password") /\ UNCHANGED <<postgres, redis, issued, history>>
      BY <1>7 DEF ChangePassword, call
    <2>4. InProgram(r)' /\ OpeningInStep(r)'
      BY <1>3, <2>1, <2>2, <2>3
         DEF InProgram, OpeningInStep, Pcs, Opening, Revoking, AfterInsert, Routes
    <2>5. QED
      BY <2>1, <2>2, <2>3, <2>4, BeginKeepsIInv DEF Pcs, AfterApply, AfterSelect
  <1>8. ASSUME NEW u \in Users, NEW t \in ResetTokens, ForgotPassword(r, u, t) PROVE IInv'
    <2>1. TypeOK' BY <1>1, <1>8 DEF ForgotPassword, TypeOK, postgres, history
    <2>2. Frame(r) /\ InStep(r)'
      BY <1>8 DEF ForgotPassword, IInv, Frame, InStep, InProgram, OpeningInStep,
                  SweepInStep, PasswordInStep, NewInStep, HasRow, Opened, At,
                  postgres, history
    <2>3. QED BY <2>1, <2>2, LocalKeepsIInv
  <1>9. ASSUME NEW s \in Sessions, Refresh(r, s) PROVE IInv'
    <2> DEFINE call == [Idle EXCEPT !.op = "refresh", !.user = owner[s], !.old = s]
    <2>1. HasRow(s) /\ owner[s] \in Users
      BY <1>1, <1>9 DEF Refresh, IsActive, Live, HasRow, TypeOK
    <2>2. call \in RequestType BY <2>1, CallType DEF Routes
    <2>3. /\ call.op = "refresh" /\ call.user = owner[s] /\ call.old = s
          /\ call.new = None /\ call.rows = {} /\ call.hits = {} /\ call.write = None
      BY DEF Idle
    <2> HIDE DEF call
    <2>4. Begin(r, call, "revoke") /\ UNCHANGED <<postgres, redis, issued, history>>
      BY <1>9 DEF Refresh, call
    <2>5. InProgram(r)' /\ OpeningInStep(r)'
      BY <1>3, <2>1, <2>2, <2>3, <2>4
         DEF InProgram, OpeningInStep, HasRow, Pcs, Opening, Revoking, AfterRevoke,
             AfterInsert, Routes, postgres
    <2>6. QED
      BY <2>2, <2>3, <2>4, <2>5, BeginKeepsIInv DEF Pcs, AfterApply, AfterSelect
  <1>10. ASSUME NEW s \in Sessions, NEW a \in Sessions, Logout(r, s, a) PROVE IInv'
    <2> DEFINE call ==
          [Idle EXCEPT !.op = "logout", !.user = issued[s], !.old = s, !.token = a]
        pc == IF owner[s] # None THEN "revoke" ELSE "blacklist"
    <2>1. issued[s] \in Users BY <1>1, <1>10 DEF Logout, TypeOK
    <2>2. call \in RequestType BY <2>1, CallType DEF Routes
    <2>3. /\ call.op = "logout" /\ call.user = issued[s] /\ call.old = s /\ call.token = a
          /\ call.new = None /\ call.rows = {} /\ call.hits = {} /\ call.write = None
      BY DEF Idle
    <2>4. /\ pc \in Pcs /\ pc \in {"revoke", "blacklist"} /\ pc \notin AfterApply
          /\ pc \notin AfterInsert
          /\ pc = "revoke" => HasRow(s)
      BY DEF Pcs, AfterApply, AfterSelect, AfterInsert, HasRow
    <2> HIDE DEF call, pc
    <2>5. Begin(r, call, pc) /\ UNCHANGED <<postgres, redis, issued, history>>
      BY <1>10 DEF Logout, call, pc
    <2>6. InProgram(r)' /\ OpeningInStep(r)'
      BY <1>3, <2>1, <2>2, <2>3, <2>4, <2>5
         DEF InProgram, OpeningInStep, HasRow, Opening, Revoking, Routes, postgres
    <2>7. QED
      BY <2>2, <2>3, <2>4, <2>5, <2>6, BeginKeepsIInv
  <1>11. ASSUME NEW t \in ResetTokens, ResetPassword(r, t) PROVE IInv'
    <2> DEFINE call ==
          [Idle EXCEPT !.op = "reset_password", !.user = resets[t], !.token = t]
    <2>1. resets[t] \in Users BY <1>1, <1>11 DEF ResetPassword, TypeOK
    <2>2. call \in RequestType BY <2>1, CallType DEF Routes, Revoking
    <2>3. /\ call.op = "reset_password" /\ call.user = resets[t] /\ call.new = None
          /\ call.rows = {} /\ call.hits = {} /\ call.write = None
      BY DEF Idle
    <2> HIDE DEF call
    <2>4. Begin(r, call, "consume") /\ UNCHANGED <<postgres, redis, issued, history>>
      BY <1>11 DEF ResetPassword, call
    <2>5. InProgram(r)' /\ OpeningInStep(r)'
      BY <1>3, <2>1, <2>2, <2>3, <2>4
         DEF InProgram, OpeningInStep, Pcs, Opening, Revoking, AfterInsert, Routes
    <2>6. QED
      BY <2>2, <2>3, <2>4, <2>5, BeginKeepsIInv DEF Pcs, AfterApply, AfterSelect
  <1>12. QED
    BY <1>4, <1>5, <1>6, <1>7, <1>8, <1>9, <1>10, <1>11 DEF Call

\* The id of a new row is fresh (uuid4), so it is no other request's.
LEMMA InsertKeepsIInv ==
  ASSUME IInv, NEW r \in Requests, InsertSession(r)
  PROVE  IInv'
  <1> USE NoneAssumption
  <1>1. TypeOK /\ RowsFirst /\ InStep(r) /\ UserRowIsExclusive /\ RotationRevokesParent
    BY DEF IInv
  <1>2. req \in [Requests -> RequestType] /\ minted \subseteq Sessions BY <1>1 DEF TypeOK
  <1>3. PICK s \in Sessions \ minted :
          /\ minted' = minted \cup {s}
          /\ req' = [req EXCEPT ![r] = [@ EXCEPT !.pc = "cache", !.new = s]]
    BY DEF InsertSession
  <1>4. req[r].pc = "insert" /\ UNCHANGED <<postgres, redis, issued, parent, crashes>>
    BY DEF InsertSession, At
  <1>5. [req[r] EXCEPT !.pc = "cache", !.new = s] \in RequestType
    BY <1>1, AssignType DEF Pcs
  <1>6. req' \in [Requests -> RequestType] BY <1>2, <1>3, <1>5
  <1>7. TypeOK' BY <1>1, <1>2, <1>3, <1>4, <1>6 DEF TypeOK, postgres, redis
  <1>8. /\ \A q \in Requests \ {r} : req'[q] = req[q]
        /\ req'[r].pc = "cache" /\ req'[r].new = s /\ req'[r].op = req[r].op
        /\ req'[r].user = req[r].user /\ req'[r].old = req[r].old
        /\ req'[r].token = req[r].token /\ req'[r].rows = req[r].rows
        /\ req'[r].hits = req[r].hits /\ req'[r].write = req[r].write
    BY <1>2, <1>3 DEF RequestType
  <1>9. RowsFirst' /\ RotationRevokesParent' /\ UserRowIsExclusive'
    BY <1>1, <1>3, <1>4, <1>8
       DEF RowsFirst, RotationRevokesParent, UserRowIsExclusive, HasRow, postgres
  <1>10. req[r].op \in Opening
    BY <1>1, <1>2, <1>4 DEF InStep, InProgram, Opening, Routes, Revoking, RequestType,
       AfterSelect
  <1>11. \A q \in Requests : s \notin Opened(q)
    BY <1>3 DEF IInv, InStep, NewInStep
  <1>12. InStep(r)'
    <2>1. InProgram(r)' /\ OpeningInStep(r)'
      BY <1>1, <1>3, <1>4, <1>8, <1>10
         DEF InStep, InProgram, OpeningInStep, HasRow, Opening, Revoking, AfterRevoke,
             AfterInsert, postgres
    <2>2. SweepInStep(r)' /\ PasswordInStep(r)'
      BY <1>1, <1>4, <1>8, <1>10
         DEF InStep, SweepInStep, PasswordInStep, HasRow, Opening, Revoking, AfterApply,
             AfterSelect, postgres
    <2>3. NewInStep(r)'
      BY <1>1, <1>3, <1>4, <1>8, <1>10, <1>11
         DEF NewInStep, Opened, RowsFirst, HasRow, At, postgres
    <2>4. QED BY <2>1, <2>2, <2>3 DEF InStep
  <1>13. ASSUME NEW q \in Requests \ {r} PROVE InStep(q)'
    <2>1. InStep(q) /\ req'[q] = req[q] BY <1>8, <1>13 DEF IInv
    <2>2. InProgram(q)' /\ OpeningInStep(q)' /\ SweepInStep(q)' /\ PasswordInStep(q)'
      BY <2>1, <1>4 DEF InStep, InProgram, OpeningInStep, SweepInStep, PasswordInStep,
                        HasRow, postgres
    <2>3. NewInStep(q)'
      BY <2>1, <1>2, <1>3, <1>4, <1>8, <1>10, <1>11
         DEF InStep, NewInStep, HasRow, Opened, At, postgres
    <2>4. QED BY <2>2, <2>3 DEF InStep
  <1>14. QED BY <1>7, <1>9, <1>12, <1>13 DEF IInv

\* What a transaction writes to the rows when it commits.
LEMMA CommitRows ==
  ASSUME IInv, NEW r \in Requests, Commit(r)
  PROVE  /\ Opened(r) \subseteq Sessions /\ req[r].user \in Users
         /\ \A s \in Opened(r) : ~HasRow(s) /\ s \in minted /\ s \notin revoked
         /\ \A s \in Sessions :
               /\ HasRow(s)' <=> HasRow(s) \/ s \in Opened(r)
               /\ s \notin Opened(r) => owner'[s] = owner[s] /\ parent'[s] = parent[s]
               /\ s \in Opened(r) => owner'[s] = req[r].user /\ parent'[s] = req[r].old
         /\ revoked' = revoked \cup req[r].hits
         /\ \A s \in req[r].hits : HasRow(s)
         /\ Opened(r) # {} => req[r].op \in Opening /\ req[r].new \in Sessions
         /\ req[r].op \in Revoking \cup Opening \cup {"logout"}
  <1> USE NoneAssumption
  <1>1. /\ TypeOK /\ RowsFirst /\ InProgram(r) /\ OpeningInStep(r) /\ SweepInStep(r)
        /\ NewInStep(r)
    BY DEF IInv, InStep
  <1>2. req \in [Requests -> RequestType] /\ req[r].pc = "commit"
    BY <1>1 DEF TypeOK, Commit, At
  <1>3. req[r].op \in Revoking \cup Opening \cup {"logout"} /\ req[r].user \in Users
    BY <1>1, <1>2 DEF InProgram, RequestType, Routes, Opening, Revoking
  <1>4. Opened(r) \subseteq Sessions
    BY <1>1, <1>2 DEF OpeningInStep, Opened, AfterInsert
  <1>5. \A s \in Opened(r) : ~HasRow(s) /\ s \in minted /\ s \notin revoked
    BY <1>1, <1>4 DEF NewInStep, RowsFirst
  <1>6. \A s \in Sessions :
           /\ s \notin Opened(r) => owner'[s] = owner[s] /\ parent'[s] = parent[s]
           /\ s \in Opened(r) => owner'[s] = req[r].user /\ parent'[s] = req[r].old
    BY DEF Commit
  <1>7. revoked' = revoked \cup req[r].hits /\ \A s \in req[r].hits : HasRow(s)
    BY <1>1 DEF Commit, SweepInStep
  <1>8. Opened(r) # {} => req[r].op \in Opening /\ req[r].new \in Sessions
    BY <1>4 DEF Opened
  <1>9. \A s \in Sessions : HasRow(s)' <=> HasRow(s) \/ s \in Opened(r)
    BY <1>3, <1>6 DEF HasRow
  <1>10. QED BY <1>3, <1>4, <1>5, <1>6, <1>7, <1>8, <1>9

\* A commit keeps the invariant of its own request and of all the others: the rows it
\* publishes are no other's, and a login's commit is not beside a new password.
LEMMA CommitKeepsIInv ==
  ASSUME IInv, NEW r \in Requests, Commit(r)
  PROVE  IInv'
  <1> USE NoneAssumption
  <1>1. /\ TypeOK /\ RowsFirst /\ InStep(r) /\ UserRowIsExclusive
        /\ RotationRevokesParent
    BY DEF IInv
  <1>2. req \in [Requests -> RequestType] /\ req[r].pc = "commit"
    BY <1>1 DEF TypeOK, Commit, At
  <1>3. /\ \A q \in Requests \ {r} : req'[q] = req[q]
        /\ req'[r] = Idle
        /\ UNCHANGED <<expired, redis, issued, minted, crashes>>
    BY <1>2 DEF Commit
  <1>4. TypeOK'
    <2>1. req' \in [Requests -> RequestType] BY <1>2, IdleType DEF Commit
    <2>2. /\ owner' \in [Sessions -> Users \cup {None}]
          /\ parent' \in [Sessions -> Sessions \cup {None}]
          /\ revoked' \subseteq Sessions /\ locked' \subseteq Users
      <3>1. req[r].hits \subseteq Sessions /\ req[r].old \in Sessions \cup {None}
        BY <1>2 DEF RequestType
      <3>2. /\ owner' \in [Sessions -> Users \cup {None}]
            /\ parent' \in [Sessions -> Sessions \cup {None}]
        BY <1>1, <3>1, CommitRows DEF Commit, TypeOK
      <3>3. revoked' \subseteq Sessions
        BY <1>1, <3>1, CommitRows DEF TypeOK
      <3>4. locked' \in {locked, locked \cup {req[r].user}, locked \ {req[r].user}}
        BY DEF Commit
      <3>5. locked' \subseteq Users
        BY <1>1, <3>4, CommitRows DEF TypeOK
      <3>6. QED BY <3>2, <3>3, <3>5
    <2>3. QED BY <1>1, <1>3, <2>1, <2>2 DEF TypeOK, redis
  <1>5. RowsFirst'
    BY <1>1, <1>3, CommitRows DEF RowsFirst, HasRow
  <1>6. RotationRevokesParent'
    <2>1. Opened(r) # {} /\ req[r].old # None => req[r].hits = {req[r].old}
      BY <1>1, <1>2, CommitRows
         DEF InStep, OpeningInStep, Opening, AfterRevoke, AfterInsert
    <2>2. QED BY <1>1, <2>1, CommitRows DEF RotationRevokesParent
  <1>7. UserRowIsExclusive'
    BY <1>1, <1>3 DEF UserRowIsExclusive, Idle
  <1>8. InStep(r)'
    BY <1>3 DEF Idle, InStep, InProgram, OpeningInStep, SweepInStep, PasswordInStep,
       NewInStep, Opened, Opening, Revoking, AfterRevoke, AfterInsert, AfterApply,
       AfterSelect, Routes, Writes
  <1>9. ASSUME NEW q \in Requests \ {r} PROVE InStep(q)'
    <2>1. InStep(q) /\ req'[q] = req[q] BY <1>3, <1>9 DEF IInv
    <2>2. \A s : s \in req[q].rows \cup req[q].hits => s \in Sessions
      BY <1>2 DEF RequestType
    <2>3. InProgram(q)' /\ OpeningInStep(q)'
      BY <2>1, CommitRows DEF InStep, InProgram, OpeningInStep
    <2>4. SweepInStep(q)'
      BY <2>1, <2>2, CommitRows DEF InStep, SweepInStep
    <2>5. PasswordInStep(q)'
      <3>1. ASSUME req[q].write = "password", NEW s \in Opened(r), req[r].old = None
            PROVE  req[q].user # req[r].user
        <4>1. req[r].op = "login" /\ req[r].write = "signin"
          BY <1>1, <1>2, <3>1, CommitRows DEF InStep, OpeningInStep, Opening
        <4>2. QED BY <1>1, <4>1, <3>1 DEF UserRowIsExclusive, Writes
      <3>2. QED
        BY <2>1, <3>1, CommitRows DEF InStep, PasswordInStep
    <2>6. NewInStep(q)'
      <3>1. \A s \in Opened(q) \ {None} : s \notin Opened(r)
        BY <2>1 DEF InStep, NewInStep
      <3>2. Opened(q)' = Opened(q) /\ Opened(q) \ {None} \subseteq Sessions
        BY <1>2, <2>1 DEF Opened, RequestType
      <3>3. Opened(r)' = {} BY <1>3 DEF Opened, Idle, Opening, Routes
      <3>4. \A p \in Requests \ {r} : Opened(p)' = Opened(p)
        BY <1>3 DEF Opened
      <3>5. QED
        BY <1>3, <2>1, <3>1, <3>2, <3>3, <3>4, CommitRows
           DEF InStep, NewInStep, At
    <2>7. QED BY <2>3, <2>4, <2>5, <2>6 DEF InStep
  <1>10. QED BY <1>4, <1>5, <1>6, <1>7, <1>8, <1>9 DEF IInv

\* Time, and a stuttering step, touch neither rows nor requests.
LEMMA QuietKeepsIInv ==
  ASSUME IInv, TypeOK', UNCHANGED <<owner, revoked, req, issued, minted, parent>>
  PROVE  IInv'
  BY DEF IInv, RowsFirst, InStep, InProgram, OpeningInStep, SweepInStep, PasswordInStep,
         NewInStep, UserRowIsExclusive, RotationRevokesParent, HasRow, Opened, At

\* The clock, and nothing at all.
LEMMA TimeKeepsIInv ==
  ASSUME IInv, Time \/ UNCHANGED vars
  PROVE  IInv'
  <1>1. TypeOK BY DEF IInv
  <1>2. ASSUME NEW s \in Sessions, SessionExpires(s) PROVE IInv'
    BY <1>1, <1>2, QuietKeepsIInv DEF SessionExpires, TypeOK, history
  <1>3. ASSUME NEW u \in Users, AttemptsExpire(u) PROVE IInv'
    <2>1. 0 \in 0..MaxLoginAttempts BY BoundAssumption
    <2>2. QED
      BY <1>1, <1>3, <2>1, QuietKeepsIInv DEF AttemptsExpire, TypeOK, postgres, history
  <1>4. ASSUME NEW t \in ResetTokens, ResetExpires(t) PROVE IInv'
    BY <1>1, <1>4, QuietKeepsIInv DEF ResetExpires, TypeOK, postgres, history
  <1>5. CASE UNCHANGED vars
    BY <1>1, <1>5, QuietKeepsIInv DEF vars, TypeOK, postgres, redis, history
  <1>6. QED BY <1>2, <1>3, <1>4, <1>5 DEF Time

-----------------------------------------------------------------------------
\* The inductive step.
LEMMA NextKeepsIInv == IInv /\ [Next]_vars => IInv'
  <1> SUFFICES ASSUME IInv, [Next]_vars PROVE IInv'
    OBVIOUS
  <1>1. ASSUME NEW r \in Requests, Call(r) PROVE IInv'
    BY <1>1, CallKeepsIInv
  <1>2. ASSUME NEW r \in Requests, Step(r) \/ Crash(r) PROVE IInv'
    <2>1. CASE InsertSession(r) BY <2>1, InsertKeepsIInv
    <2>2. CASE Commit(r) BY <2>2, CommitKeepsIInv
    <2>3. CASE LocalStep(r)
      BY <2>3, LocalTypes, LocalFrame, LocalInStep, LocalKeepsIInv
    <2>4. QED BY <1>2, <2>1, <2>2, <2>3 DEF Step, LocalStep
  <1>3. QED BY <1>1, <1>2, TimeKeepsIInv DEF Next

\* The inductive invariant: every request is where its program says, has written what
\* comes before, and nobody has written the same users row.
THEOREM Invariance == Spec => []IInv
  BY InitIInv, NextKeepsIInv, PTL DEF Spec

\* Every record, row and key has its type, in every reachable state.
THEOREM TypeCorrectness == Spec => []TypeOK
  <1>1. IInv => TypeOK BY DEF IInv
  <1>2. QED BY <1>1, Invariance, PTL

\* refresh: a session that came out of a rotation has a revoked predecessor.
THEOREM RotationIsAtomic == Spec => []RotationRevokesParent
  <1>1. IInv => RotationRevokesParent BY DEF IInv
  <1>2. QED BY <1>1, Invariance, PTL

-----------------------------------------------------------------------------
(***************************************************************************)
(* What a step does to the rows                                            *)
(***************************************************************************)
\* Only a commit writes rows, and it is the commit of one request.
LEMMA OnlyCommitsWrite ==
  ASSUME IInv, [Next]_vars
  PROVE  \/ \E r \in Requests : Commit(r) /\ \A q \in Requests \ {r} : ~Commits(q)
         \/ /\ UNCHANGED <<owner, revoked, parent>>
            /\ \A r \in Requests : ~Commits(r)
  <1>1. req \in [Requests -> RequestType] /\ crashes \in Nat
    BY BoundAssumption DEF IInv, TypeOK
  <1> DEFINE Quiet == /\ UNCHANGED <<owner, revoked, parent>>
                      /\ \A r \in Requests : ~Commits(r)
  <1>2. ASSUME NEW r \in Requests, \A q \in Requests \ {r} : req'[q] = req[q],
               UNCHANGED <<owner, revoked, parent>>,
               req[r].pc = "commit" => req'[r].pc # "idle" \/ crashes' # crashes
        PROVE  Quiet
    BY <1>2 DEF Commits, At
  <1>3. ASSUME UNCHANGED <<owner, revoked, parent, req>> PROVE Quiet
    BY <1>3 DEF Commits, At
  <1>4. ASSUME NEW r \in Requests, Call(r) PROVE Quiet
    <2>1. UNCHANGED <<owner, revoked, parent>>
      BY <1>4 DEF Call, Login, LoginWrongPassword, RevokeSessions, ChangePassword,
         ForgotPassword, Refresh, Logout, ResetPassword, postgres, history
    <2>2. /\ \A q \in Requests \ {r} : req'[q] = req[q]
          /\ req[r].pc # "commit" \/ req' = req
      BY <1>1, <1>4 DEF Call, Login, LoginWrongPassword, RevokeSessions, ChangePassword,
         ForgotPassword, Refresh, Logout, ResetPassword, Begin, At
    <2>3. QED BY <1>2, <1>3, <2>1, <2>2
  <1>5. ASSUME NEW r \in Requests, LocalStep(r) PROVE Quiet
    <2>1. req[r].pc = "commit" => req'[r].pc # "idle" \/ crashes' # crashes
      <3>1. CASE Crash(r) BY <1>1, <3>1 DEF Crash
      <3>2. CASE ~Crash(r)
        BY <1>5, <3>2 DEF LocalStep, CountFailure, RecordFailure, Raise, TouchUser,
           ClearAttempts, CacheSession, IndexSession, RevokeOld, UncacheOld, UnindexOld,
           Blacklist, ConsumeReset, UpdatePassword, SelectSessions, ApplyRevocation,
           ReadIndex, DropCached, DropIndex, Respond, At
      <3>3. QED BY <3>1, <3>2
    <2>2. Frame(r) BY <1>5, LocalFrame
    <2>3. QED BY <1>2, <2>1, <2>2 DEF Frame
  <1>6. ASSUME NEW r \in Requests, InsertSession(r) PROVE Quiet
    <2>1. req[r].pc = "insert" /\ UNCHANGED <<owner, revoked, parent>>
      BY <1>6 DEF InsertSession, At, postgres
    <2>2. \A q \in Requests \ {r} : req'[q] = req[q]
      BY <1>1, <1>6 DEF InsertSession
    <2>3. QED BY <1>2, <2>1, <2>2
  <1>7. ASSUME NEW r \in Requests, Commit(r)
        PROVE  \A q \in Requests \ {r} : ~Commits(q)
    BY <1>1, <1>7 DEF Commit, Commits, At
  <1>8. CASE Time \/ UNCHANGED vars
    BY <1>3, <1>8 DEF Time, SessionExpires, AttemptsExpire, ResetExpires, vars, postgres,
       history
  <1>9. QED BY <1>4, <1>5, <1>6, <1>7, <1>8 DEF Next, Step, LocalStep

\* A sweep ends every session it selected, whichever transaction revoked it.
THEOREM SweepCompleteness == Spec => SweepEndsWhatItSaw
  <1>1. ASSUME IInv, [Next]_vars, NEW r \in Requests, Commits(r)
        PROVE  req[r].rows \subseteq revoked'
    <2>1. Commit(r) BY <1>1, OnlyCommitsWrite
    <2>2. req[r].rows \subseteq revoked \cup req[r].hits
      BY <1>1 DEF IInv, InStep, SweepInStep, Commits, At, AfterApply, AfterSelect
    <2>3. QED BY <1>1, <2>1, <2>2, CommitRows
  <1>2. ASSUME IInv, [Next]_vars
        PROVE  \A r \in Requests : Commits(r) => req[r].rows \subseteq revoked'
    BY <1>1, <1>2
  <1>3. QED BY <1>2, Invariance, PTL DEF Spec, SweepEndsWhatItSaw

\* When a new password commits, no session opened by a login of that user is left, and
\* the logins still at work wait to write the users row: it orders the logins and the new
\* password (change_password, reset_password, login).
THEOREM NewPasswordSignsOut == Spec => NewPasswordEndsEarlierLogins
  <1>1. ASSUME IInv, [Next]_vars, NEW r \in Requests, Commits(r),
               req[r].write = "password", NEW s \in Sessions,
               owner'[s] = req[r].user, parent'[s] = None
        PROVE  s \in revoked'
    <2>1. Commit(r) BY <1>1, OnlyCommitsWrite
    <2>2. PasswordInStep(r) /\ SweepInStep(r) /\ req[r].pc = "commit"
      BY <1>1 DEF IInv, InStep, Commits, At
    <2>3. req[r].op \in Revoking BY <1>1, <2>2 DEF PasswordInStep
    <2>4. Opened(r) = {} BY <2>3 DEF Opened, Opening, Revoking
    <2>5. owner[s] = req[r].user /\ parent[s] = None
      BY <1>1, <2>1, <2>4, CommitRows
    <2>6. s \in revoked \cup req[r].rows
      BY <1>1, <2>2, <2>5 DEF PasswordInStep, AfterSelect
    <2>7. req[r].rows \subseteq revoked \cup req[r].hits
      BY <2>2 DEF SweepInStep, AfterApply, AfterSelect
    <2>8. QED BY <1>1, <2>1, <2>6, <2>7, CommitRows
  <1>2. ASSUME IInv, NEW r \in Requests, req[r].write = "password", NEW q \in Requests,
               req[q].op = "login", req[q].user = req[r].user
        PROVE  At(q, "touch")
    <2>1. PasswordInStep(r) /\ OpeningInStep(q) /\ UserRowIsExclusive
      BY <1>2 DEF IInv, InStep
    <2>2. q # r BY <1>2, <2>1 DEF PasswordInStep, Revoking
    <2>3. req[q].write = None
      BY <1>2, <2>1, <2>2, NoneAssumption DEF UserRowIsExclusive, Writes
    <2>4. QED BY <1>2, <2>1, <2>3, NoneAssumption DEF OpeningInStep, Writes, At
  <1>3. ASSUME IInv, [Next]_vars
        PROVE  \A r \in Requests : Commits(r) /\ req[r].write = "password" =>
                  /\ \A s \in Sessions :
                        owner'[s] = req[r].user /\ parent'[s] = None => s \in revoked'
                  /\ \A q \in Requests :
                        req[q].op = "login" /\ req[q].user = req[r].user => At(q, "touch")
    BY <1>1, <1>2, <1>3
  <1>4. QED BY <1>3, Invariance, PTL DEF Spec, NewPasswordEndsEarlierLogins

-----------------------------------------------------------------------------
\* The sessions of the code implement SessionLifecycle.
THEOREM Refinement == Spec => ImplementsLifecycle
  <1> USE NoneAssumption
  <1> DEFINE Alive == {s \in Sessions : Live(s)}
  <1>1. Init => Lifecycle!Init
    BY DEF Init, Lifecycle!Init, Live
  <1>2. ASSUME IInv, [Next]_vars
        PROVE  [Lifecycle!Next]_<<Alive, revoked, parent>>
    <2>1. ASSUME UNCHANGED <<owner, revoked, parent>>
          PROVE  UNCHANGED <<Alive, revoked, parent>>
      BY <2>1 DEF Live
    <2>2. ASSUME NEW r \in Requests, Commit(r)
          PROVE  Lifecycle!Next
      <3>1. /\ InProgram(r) /\ OpeningInStep(r) /\ req[r].pc = "commit"
            /\ RowsFirst /\ req[r].hits \subseteq Sessions
            /\ parent \in [Sessions -> Sessions \cup {None}]
        BY <1>2, <2>2 DEF IInv, InStep, TypeOK, RequestType, Commit, At
      <3>2. \A s \in Sessions : Live(s) <=> HasRow(s) /\ s \notin revoked
        BY DEF Live, HasRow
      <3>3. \A s \in Sessions :
              Live(s)' <=> /\ HasRow(s) \/ s \in Opened(r)
                           /\ s \notin revoked \cup req[r].hits
        BY <1>2, <2>2, CommitRows DEF Live, HasRow
      <3>4. parent' = [s \in Sessions |-> IF s \in Opened(r) THEN req[r].old ELSE parent[s]]
        BY <2>2 DEF Commit
      <3>5. CASE req[r].op = "login"
        <4>1. Opened(r) = {req[r].new} /\ req[r].old = None /\ req[r].hits = {}
          BY <3>1, <3>5 DEF Opened, Opening, OpeningInStep
        <4>2. /\ req[r].new \in Sessions /\ ~HasRow(req[r].new) /\ req[r].new \notin revoked
              /\ revoked' = revoked
          BY <1>2, <2>2, <4>1, CommitRows
        <4>3. parent' = parent
          BY <3>1, <3>4, <4>1, <4>2 DEF RowsFirst
        <4>4. Alive' = Alive \cup {req[r].new}
          BY <3>2, <3>3, <4>1, <4>2
        <4>5. Lifecycle!Open(req[r].new)
          BY <3>2, <4>2, <4>3, <4>4 DEF Lifecycle!Open, Lifecycle!Fresh
        <4>6. QED BY <4>2, <4>5 DEF Lifecycle!Next
      <3>6. CASE req[r].op = "refresh"
        <4>1. /\ Opened(r) = {req[r].new} /\ req[r].hits = {req[r].old}
              /\ req[r].old \in Sessions /\ HasRow(req[r].old)
          BY <3>1, <3>6
             DEF Opened, Opening, OpeningInStep, AfterRevoke, AfterInsert
        <4>2. /\ req[r].new \in Sessions /\ ~HasRow(req[r].new) /\ req[r].new \notin revoked
              /\ revoked' = revoked \cup {req[r].old}
          BY <1>2, <2>2, <4>1, CommitRows
        <4>3. parent' = [parent EXCEPT ![req[r].new] = req[r].old]
          BY <3>1, <3>4, <4>1, <4>2
        <4>4. Alive' = (Alive \ {req[r].old}) \cup {req[r].new}
          BY <3>2, <3>3, <4>1, <4>2
        <4>5. Lifecycle!Rotate(req[r].old, req[r].new)
          BY <3>2, <4>1, <4>2, <4>3, <4>4 DEF Lifecycle!Rotate, Lifecycle!Fresh
        <4>6. QED BY <4>1, <4>2, <4>5 DEF Lifecycle!Next
      <3>7. CASE req[r].op \notin Opening
        <4>1. Opened(r) = {} BY <3>7 DEF Opened
        <4>2. revoked' = revoked \cup req[r].hits /\ \A s \in req[r].hits : HasRow(s)
          BY <1>2, <2>2, CommitRows
        <4>3. parent' = parent BY <3>1, <3>4, <4>1
        <4>4. /\ Alive' = Alive \ (req[r].hits \ revoked)
              /\ revoked' = revoked \cup (req[r].hits \ revoked)
              /\ req[r].hits \ revoked \in SUBSET Alive
          BY <3>1, <3>2, <3>3, <4>1, <4>2
        <4>5. Lifecycle!End(req[r].hits \ revoked)
          BY <4>3, <4>4 DEF Lifecycle!End
        <4>6. QED BY <4>4, <4>5 DEF Lifecycle!Next
      <3>8. QED BY <3>5, <3>6, <3>7 DEF Opening
    <2>3. QED BY <1>2, <2>1, <2>2, OnlyCommitsWrite
  <1>3. QED
    BY <1>1, <1>2, Invariance, PTL DEF Spec, ImplementsLifecycle, Lifecycle!Spec

-----------------------------------------------------------------------------
(***************************************************************************)
(* What clients hold                                                       *)
(***************************************************************************)
\* Requests die, and do not come back.
LEMMA CrashesCount ==
  ASSUME IInv, [Next]_vars, crashes' = 0
  PROVE  crashes = 0 /\ \A r \in Requests : ~Crash(r)
  <1>1. crashes \in Nat BY BoundAssumption DEF IInv, TypeOK
  <1>2. \A r \in Requests : ~Crash(r) BY <1>1 DEF Crash
  <1>3. \A r \in Requests : Call(r) => crashes' = crashes
    BY DEF Call, Login, LoginWrongPassword, RevokeSessions, ChangePassword, ForgotPassword,
           Refresh, Logout, ResetPassword, history
  <1>4. \A r \in Requests : Step(r) => crashes' = crashes
    BY DEF Step, CountFailure, RecordFailure, Raise, TouchUser, ClearAttempts, InsertSession,
           CacheSession, IndexSession, RevokeOld, UncacheOld, UnindexOld, Blacklist,
           ConsumeReset, UpdatePassword, SelectSessions, ApplyRevocation, ReadIndex,
           DropCached, DropIndex, Respond, Commit, history
  <1>5. Time \/ UNCHANGED vars => crashes' = crashes
    BY DEF Time, SessionExpires, AttemptsExpire, ResetExpires, vars, history
  <1>6. QED BY <1>2, <1>3, <1>4, <1>5 DEF Next

\* A request ends with its commit, and tokens are handed out with the response before it.
LEMMA StepKeepsHandedOut ==
  ASSUME IInv, HandedOutHasRow, [Next]_vars
  PROVE  HandedOutHasRow'
  <1> DEFINE Held(s) == \/ owner[s] = issued[s]
                        \/ \E r \in Requests : At(r, "commit") /\ s \in Opened(r)
  <1> SUFFICES ASSUME crashes' = 0, NEW s \in Sessions, issued'[s] # None
               PROVE  Held(s)'
    BY DEF HandedOutHasRow
  <1>1. issued[s] # None => Held(s) BY CrashesCount DEF HandedOutHasRow
  <1>2. req \in [Requests -> RequestType] /\ issued \in [Sessions -> Users \cup {None}]
    BY DEF IInv, TypeOK
  <1>3. ASSUME NEW r \in Requests, \A q \in Requests \ {r} : req'[q] = req[q],
               req[r].pc # "commit", UNCHANGED <<owner, issued>>
        PROVE  Held(s)'
    BY <1>1, <1>3 DEF At, Opened
  <1>4. ASSUME UNCHANGED <<req, owner, issued>> PROVE Held(s)'
    BY <1>1, <1>4 DEF At, Opened
  <1>5. ASSUME NEW r \in Requests, Call(r) PROVE Held(s)'
    <2>1. UNCHANGED <<owner, issued>>
      BY <1>5 DEF Call, Login, LoginWrongPassword, RevokeSessions, ChangePassword,
         ForgotPassword, Refresh, Logout, ResetPassword, postgres, history
    <2>2. /\ \A q \in Requests \ {r} : req'[q] = req[q]
          /\ req[r].pc # "commit" \/ req' = req
      BY <1>2, <1>5 DEF Call, Login, LoginWrongPassword, RevokeSessions, ChangePassword,
         ForgotPassword, Refresh, Logout, ResetPassword, Begin, At
    <2>3. QED BY <1>3, <1>4, <2>1, <2>2
  <1>6. ASSUME NEW r \in Requests, Respond(r) PROVE Held(s)'
    <2>1. /\ \A q \in Requests \ {r} : req'[q] = req[q]
          /\ req'[r].pc = "commit" /\ req[r].pc = "respond" /\ Opened(r)' = Opened(r)
          /\ owner' = owner
      BY <1>2, <1>6 DEF Respond, Goto, At, Opened, RequestType, postgres
    <2>2. issued'[s] = IF s \in Opened(r) THEN req[r].user ELSE issued[s] BY <1>6 DEF Respond
    <2>3. CASE s \in Opened(r) BY <2>1, <2>3 DEF At
    <2>4. CASE s \notin Opened(r) BY <1>1, <2>1, <2>2, <2>4 DEF At, Opened
    <2>5. QED BY <2>3, <2>4
  <1>7. ASSUME NEW r \in Requests, LocalStep(r), ~Respond(r) PROVE Held(s)'
    <2>1. ~Crash(r) BY CrashesCount
    <2>2. req[r].pc # "commit" /\ UNCHANGED <<owner, issued>>
      BY <1>7, <2>1 DEF LocalStep, CountFailure, RecordFailure, Raise, TouchUser,
         ClearAttempts, CacheSession, IndexSession, RevokeOld, UncacheOld, UnindexOld,
         Blacklist, ConsumeReset, UpdatePassword, SelectSessions, ApplyRevocation,
         ReadIndex, DropCached, DropIndex, At, postgres
    <2>3. QED BY <1>3, <1>7, <2>2, LocalFrame DEF Frame
  <1>8. ASSUME NEW r \in Requests, InsertSession(r) PROVE Held(s)'
    <2>1. req[r].pc # "commit" /\ UNCHANGED <<owner, issued>>
      BY <1>8 DEF InsertSession, At, postgres
    <2>2. \A q \in Requests \ {r} : req'[q] = req[q] BY <1>2, <1>8 DEF InsertSession
    <2>3. QED BY <1>3, <2>1, <2>2
  <1>9. ASSUME NEW r \in Requests, Commit(r) PROVE Held(s)'
    <2>1. issued' = issued /\ \A q \in Requests \ {r} : req'[q] = req[q]
      BY <1>2, <1>9 DEF Commit
    <2>2. CASE s \in Opened(r)
      <3>1. issued[s] = req[r].user
        BY <1>9, <2>2, NoneAssumption DEF IInv, InStep, NewInStep, Commit
      <3>2. owner'[s] = req[r].user BY <1>9, <2>2, CommitRows
      <3>3. QED BY <2>1, <3>1, <3>2
    <2>3. CASE s \notin Opened(r)
      <3>1. owner'[s] = owner[s] BY <1>9, <2>3, CommitRows
      <3>2. QED BY <1>1, <2>1, <2>3, <3>1 DEF At, Opened
    <2>4. QED BY <2>2, <2>3
  <1>10. CASE Time \/ UNCHANGED vars
    BY <1>4, <1>10 DEF Time, SessionExpires, AttemptsExpire, ResetExpires, vars, postgres,
       history
  <1>11. QED
    BY <1>5, <1>6, <1>7, <1>8, <1>9, <1>10 DEF Next, Step, LocalStep

\* While no request has died, a token that a client holds belongs to a row of the user it
\* names, or its transaction is about to commit one: the response goes out before the commit.
THEOREM HandedOutTokens == Spec => []HandedOutHasRow
  <1>1. Init => HandedOutHasRow BY DEF Init, HandedOutHasRow
  <1>2. QED BY <1>1, StepKeepsHandedOut, Invariance, PTL DEF Spec

-----------------------------------------------------------------------------
(***************************************************************************)
(* The keys of sessions in Redis, where sessions are opened and ended one  *)
(* at a time and none expires                                              *)
(***************************************************************************)
OneByOneRoutes == {"login", "failed_login", "refresh", "logout"}

\* Where a request has stored the key of its new session.
Stored == {"index", "respond", "commit"}

\* The key of the row that request r is about to commit is there, those of the rows that it has
\* revoked are not.
KeysInStep(r) ==
    /\ req[r].op \in OneByOneRoutes \cup {None}
    /\ req[r].op \in {"failed_login", None} \/ req[r].pc = "revoke" => req[r].hits = {}
    /\ req[r].pc = "uncache" => req[r].hits = {req[r].old}
    /\ req[r].pc # "uncache" => req[r].hits \cap cached = {}
    /\ req[r].pc \in Stored => Opened(r) \subseteq cached

\* A live session has a key, unless a request that revokes it has removed that; a key is of a
\* live session or of one that will be committed.
KeyOfSession(s) ==
    /\ Live(s) => s \in cached \/ \E r \in Requests : s \in req[r].hits
    /\ s \in cached => Live(s) \/ \E r \in Requests : req[r].pc \in Stored /\ s \in Opened(r)

KeysFit == (\A r \in Requests : KeysInStep(r)) /\ \A s \in Sessions : KeyOfSession(s)

KeysFollowRows == expired = {} /\ (crashes = 0 => KeysFit)

\* A step that leaves the rows and the keys alone.
LEMMA QuietKeepsKeys ==
  ASSUME KeysFit, NEW r \in Requests, \A q \in Requests \ {r} : req'[q] = req[q],
         UNCHANGED <<owner, revoked, cached>>, KeysInStep(r)', req[r].hits \subseteq req'[r].hits,
         req[r].pc \in Stored => req'[r].pc \in Stored /\ Opened(r)' = Opened(r)
  PROVE  KeysFit'
  <1>1. ASSUME NEW q \in Requests \ {r} PROVE KeysInStep(q)' /\ Opened(q)' = Opened(q)
    BY <1>1 DEF KeysFit, KeysInStep, Opened, At
  <1>2. ASSUME NEW s \in Sessions PROVE KeyOfSession(s)'
    <2>1. KeyOfSession(s) /\ (Live(s)' <=> Live(s)) BY DEF KeysFit, Live
    <2>2. (\E q \in Requests : s \in req[q].hits) => \E q \in Requests : s \in req'[q].hits
      OBVIOUS
    <2>3. (\E q \in Requests : req[q].pc \in Stored /\ s \in Opened(q))
          => \E q \in Requests : req'[q].pc \in Stored /\ s \in Opened(q)'
      BY <1>1
    <2>4. QED BY <2>1, <2>2, <2>3 DEF KeyOfSession
  <1>3. QED BY <1>1, <1>2 DEF KeysFit

\* A route that is called has written nothing.
LEMMA CallKeepsKeys ==
  ASSUME IInv, KeysFit, Operations \subseteq OneByOneRoutes, NEW r \in Requests, Call(r)
  PROVE  KeysFit'
  <1>1. req \in [Requests -> RequestType] BY DEF IInv, TypeOK
  <1>2. UNCHANGED <<owner, revoked, cached>>
    BY DEF Call, Login, LoginWrongPassword, RevokeSessions, ChangePassword, ForgotPassword,
           Refresh, Logout, ResetPassword, postgres, redis, history
  <1> DEFINE Called == /\ req[r].pc = "idle" /\ \A q \in Requests \ {r} : req'[q] = req[q]
                       /\ req'[r].hits = {} /\ req'[r].pc \notin Stored \cup {"uncache"}
                       /\ req'[r].op \in Operations
  <1>3. Called
    <2> USE <1>1 DEF Begin, At, Idle, Stored
    <2>1. "forgot_password" \notin Operations BY DEF OneByOneRoutes
    <2>2. ASSUME NEW u \in Users, Login(r, u) PROVE Called BY <2>2 DEF Login
    <2>3. ASSUME NEW u \in Users, LoginWrongPassword(r, u) PROVE Called
      BY <2>3 DEF LoginWrongPassword
    <2>4. ASSUME NEW u \in Users, RevokeSessions(r, u) PROVE Called BY <2>4 DEF RevokeSessions
    <2>5. ASSUME NEW u \in Users, ChangePassword(r, u) PROVE Called BY <2>5 DEF ChangePassword
    <2>6. ASSUME NEW s \in Sessions, Refresh(r, s) PROVE Called BY <2>6 DEF Refresh
    <2>7. ASSUME NEW s \in Sessions, NEW a \in Sessions, Logout(r, s, a) PROVE Called
      BY <2>7 DEF Logout
    <2>8. ASSUME NEW t \in ResetTokens, ResetPassword(r, t) PROVE Called
      BY <2>8 DEF ResetPassword
    <2>9. \A u \in Users, t \in ResetTokens : ~ForgotPassword(r, u, t)
      BY <2>1 DEF ForgotPassword
    <2> HIDE DEF Called
    <2>10. QED BY <2>2, <2>3, <2>4, <2>5, <2>6, <2>7, <2>8, <2>9 DEF Call
  <1>4. req[r].pc = "idle" /\ req'[r].op \in OneByOneRoutes BY <1>3
  <1>5. KeysInStep(r)' BY <1>3, <1>4 DEF KeysInStep, Stored
  <1>6. req[r].hits = {}
    <2>1. req[r].op = None
      BY <1>1, <1>4 DEF IInv, InStep, InProgram, RequestType, Routes, Revoking, AfterInsert,
         AfterRevoke, AfterSelect
    <2>2. QED BY <2>1 DEF KeysFit, KeysInStep
  <1>7. req[r].pc \notin Stored BY <1>4 DEF Stored
  <1>8. QED BY <1>2, <1>3, <1>5, <1>6, <1>7, QuietKeepsKeys

\* The steps that write no key.
LEMMA LocalKeepsKeys ==
  ASSUME IInv, KeysFit, NEW r \in Requests, LocalStep(r), ~Crash(r), ~CacheSession(r),
         ~UncacheOld(r)
  PROVE  KeysFit'
  <1> DEFINE Kept == /\ UNCHANGED <<owner, revoked, cached>>
                     /\ KeysInStep(r)' /\ req[r].hits \subseteq req'[r].hits
                     /\ req[r].pc \in Stored => req'[r].pc \in Stored /\ Opened(r)' = Opened(r)
  <1>1. Kept
    <2> USE NoneAssumption
        DEF Goto, At, RequestType, InStep, InProgram, OpeningInStep, KeysInStep, Opened, Opening,
            Revoking, Routes, OneByOneRoutes, Stored, AfterSelect, AfterApply, AfterInsert,
            AfterRevoke, postgres, redis, history
    <2>1. TypeOK /\ InStep(r) /\ KeysInStep(r) BY DEF IInv, KeysFit
    <2>2. CASE CountFailure(r) BY <2>1, <2>2 DEF CountFailure, TypeOK
    <2>3. CASE RecordFailure(r) BY <2>1, <2>3 DEF RecordFailure, TypeOK
    <2>4. CASE Raise(r) BY <2>1, <2>4 DEF Raise, TypeOK, Idle
    <2>5. CASE TouchUser(r) BY <2>1, <2>5 DEF TouchUser, TypeOK
    <2>6. CASE ClearAttempts(r) BY <2>1, <2>6 DEF ClearAttempts, TypeOK
    <2>7. CASE IndexSession(r) BY <2>1, <2>7 DEF IndexSession, TypeOK
    <2>8. CASE RevokeOld(r) BY <2>1, <2>8 DEF RevokeOld, TypeOK
    <2>9. CASE UnindexOld(r) BY <2>1, <2>9 DEF UnindexOld, TypeOK
    <2>10. CASE Blacklist(r) BY <2>1, <2>10 DEF Blacklist, TypeOK
    <2>11. CASE Respond(r) BY <2>1, <2>11 DEF Respond, TypeOK
    <2>12. CASE \/ ConsumeReset(r) \/ UpdatePassword(r) \/ SelectSessions(r)
                \/ ApplyRevocation(r) \/ ReadIndex(r) \/ DropCached(r) \/ DropIndex(r)
      BY <2>1, <2>12 DEF ConsumeReset, UpdatePassword, SelectSessions, ApplyRevocation,
         ReadIndex, DropCached, DropIndex
    <2> HIDE DEF Kept
    <2>13. QED
      BY <2>2, <2>3, <2>4, <2>5, <2>6, <2>7, <2>8, <2>9, <2>10, <2>11, <2>12 DEF LocalStep
  <1>2. \A q \in Requests \ {r} : req'[q] = req[q] BY LocalFrame DEF Frame
  <1>3. QED BY <1>1, <1>2, QuietKeepsKeys

\* The id of a new session is taken before its key is written.
LEMMA InsertKeepsKeys ==
  ASSUME IInv, KeysFit, NEW r \in Requests, InsertSession(r)
  PROVE  KeysFit'
  <1>1. TypeOK /\ KeysInStep(r) BY DEF IInv, KeysFit
  <1>2. /\ \A q \in Requests \ {r} : req'[q] = req[q]
        /\ req[r].pc = "insert" /\ req'[r].pc = "cache"
        /\ req'[r].hits = req[r].hits /\ req'[r].op = req[r].op
        /\ UNCHANGED <<owner, revoked, cached>>
    BY <1>1 DEF InsertSession, TypeOK, RequestType, At, postgres, redis
  <1>3. KeysInStep(r)' BY <1>1, <1>2 DEF KeysInStep, Stored
  <1>4. QED BY <1>2, <1>3, QuietKeepsKeys DEF Stored

\* What SETEX and DEL of a session's key change.
LEMMA KeyCommandsKeepKeys ==
  ASSUME IInv, KeysFit, NEW r \in Requests, CacheSession(r) \/ UncacheOld(r)
  PROVE  KeysFit'
  <1> USE NoneAssumption
  <1>1. TypeOK /\ InStep(r) /\ KeysInStep(r) /\ req \in [Requests -> RequestType]
    BY DEF IInv, KeysFit, TypeOK
  <1>2. /\ \A q \in Requests \ {r} : req'[q] = req[q]
        /\ req'[r].hits = req[r].hits /\ req'[r].op = req[r].op /\ req'[r].new = req[r].new
        /\ req'[r].old = req[r].old
        /\ UNCHANGED <<owner, revoked>>
    BY <1>1 DEF CacheSession, UncacheOld, Goto, RequestType, postgres
  <1>3. \A q \in Requests : Opened(q)' = Opened(q) BY <1>2 DEF Opened
  <1>4. \A s \in Sessions : Live(s)' <=> Live(s) BY <1>2 DEF Live
  <1>5. \A q \in Requests : \A s \in req[q].hits : HasRow(s)
    BY DEF IInv, InStep, SweepInStep
  <1>6. \A q \in Requests : \A s \in Opened(q) \ {None} : ~HasRow(s)
    BY DEF IInv, InStep, NewInStep
  <1>7. ASSUME NEW q \in Requests, req[q].pc \in Stored \cup {"cache"}
        PROVE  None \notin Opened(q) /\ Opened(q) \subseteq Sessions
    BY <1>7 DEF IInv, InStep, OpeningInStep, Opened, Stored, AfterInsert
  <1>8. CASE CacheSession(r)
    <2>1. /\ req[r].pc = "cache" /\ req'[r].pc = "index" /\ cached' = cached \cup {req[r].new}
      BY <1>1, <1>8 DEF CacheSession, At, Goto
    <2>2. req[r].op \in {"login", "refresh"}
      BY <1>1, <2>1 DEF InStep, InProgram, KeysInStep, OneByOneRoutes
    <2>3. Opened(r) = {req[r].new} BY <2>2 DEF Opened, Opening
    <2>4. req[r].new \in Sessions /\ ~HasRow(req[r].new) BY <1>6, <1>7, <2>1, <2>3
    <2>5. ASSUME NEW q \in Requests PROVE KeysInStep(q)'
      <3>1. KeysInStep(q) /\ req[r].new \notin req[q].hits BY <1>5, <2>4 DEF KeysFit
      <3>2. CASE q = r BY <1>2, <1>3, <2>1, <2>2, <2>3, <3>1, <3>2 DEF KeysInStep, Stored
      <3>3. CASE q # r BY <1>2, <1>3, <2>1, <3>1, <3>3 DEF KeysInStep
      <3>4. QED BY <3>2, <3>3
    <2>6. ASSUME NEW s \in Sessions PROVE KeyOfSession(s)'
      <3>1. KeyOfSession(s) BY DEF KeysFit
      <3>2. Live(s)' => s \in cached' \/ \E q \in Requests : s \in req'[q].hits
        BY <1>2, <1>4, <2>1, <3>1 DEF KeyOfSession
      <3>3. CASE s = req[r].new
        <4>1. req'[r].pc \in Stored /\ s \in Opened(r)' BY <1>3, <2>1, <2>3, <3>3 DEF Stored
        <4>2. QED BY <3>2, <4>1 DEF KeyOfSession
      <3>4. CASE s # req[r].new
        <4>1. req[r].pc \notin Stored BY <2>1 DEF Stored
        <4>2. s \in cached' => s \in cached BY <2>1, <3>4
        <4>3. QED BY <1>2, <1>3, <1>4, <3>1, <3>2, <4>1, <4>2 DEF KeyOfSession
      <3>5. QED BY <3>3, <3>4
    <2>7. QED BY <2>5, <2>6 DEF KeysFit
  <1>9. CASE UncacheOld(r)
    <2>1. /\ req[r].pc = "uncache" /\ req'[r].pc = "unindex" /\ cached' = cached \ {req[r].old}
      BY <1>1, <1>9 DEF UncacheOld, At, Goto
    <2>2. req[r].hits = {req[r].old} /\ HasRow(req[r].old) BY <1>1, <1>5, <2>1 DEF KeysInStep
    <2>3. ASSUME NEW q \in Requests PROVE KeysInStep(q)'
      <3>1. KeysInStep(q) BY DEF KeysFit
      <3>2. CASE q = r BY <1>2, <2>1, <2>2, <3>1, <3>2 DEF KeysInStep, Stored
      <3>3. CASE q # r
        <4>1. req[q].pc \in Stored => req[r].old \notin Opened(q) BY <1>6, <1>7, <2>2
        <4>2. QED BY <1>2, <1>3, <2>1, <3>1, <3>3, <4>1 DEF KeysInStep
      <3>4. QED BY <3>2, <3>3
    <2>4. ASSUME NEW s \in Sessions PROVE KeyOfSession(s)'
      <3>1. KeyOfSession(s) BY DEF KeysFit
      <3>2. Live(s)' => s \in cached' \/ \E q \in Requests : s \in req'[q].hits
        BY <1>2, <1>4, <2>1, <2>2, <3>1 DEF KeyOfSession
      <3>3. req[r].pc \notin Stored BY <2>1 DEF Stored
      <3>4. QED BY <1>2, <1>3, <1>4, <2>1, <3>1, <3>2, <3>3 DEF KeyOfSession
    <2>5. QED BY <2>3, <2>4 DEF KeysFit
  <1>10. QED BY <1>8, <1>9

\* The commit publishes the row of a key that is there and revokes rows whose keys are gone.
LEMMA CommitKeepsKeys ==
  ASSUME IInv, KeysFit, NEW r \in Requests, Commit(r)
  PROVE  KeysFit'
  <1>1. TypeOK /\ KeysInStep(r) /\ req \in [Requests -> RequestType]
    BY DEF IInv, KeysFit, TypeOK
  <1>2. /\ \A q \in Requests \ {r} : req'[q] = req[q]
        /\ req[r].pc = "commit" /\ req'[r] = Idle /\ cached' = cached
    BY <1>1 DEF Commit, At, redis
  <1>3. Opened(r) \subseteq cached /\ req[r].hits \cap cached = {}
    BY <1>1, <1>2 DEF KeysInStep, Stored
  <1>4. ASSUME NEW s \in Sessions
        PROVE  Live(s)' <=> (Live(s) /\ s \notin req[r].hits) \/ s \in Opened(r)
    BY CommitRows DEF Live, HasRow
  <1>5. ASSUME NEW q \in Requests PROVE KeysInStep(q)'
    <2>1. KeysInStep(q) BY DEF KeysFit
    <2>2. CASE q = r BY <1>2, <2>2 DEF KeysInStep, Idle, Stored
    <2>3. CASE q # r BY <1>2, <2>1, <2>3 DEF KeysInStep, Opened
    <2>4. QED BY <2>2, <2>3
  <1>6. ASSUME NEW s \in Sessions PROVE KeyOfSession(s)'
    <2>1. KeyOfSession(s) BY DEF KeysFit
    <2>2. \A q \in Requests \ {r} : Opened(q)' = Opened(q) BY <1>2 DEF Opened
    <2>3. Live(s)' => s \in cached' \/ \E q \in Requests : s \in req'[q].hits
      BY <1>2, <1>3, <1>4, <2>1 DEF KeyOfSession
    <2>4. s \in cached' =>
             Live(s)' \/ \E q \in Requests : req'[q].pc \in Stored /\ s \in Opened(q)'
      BY <1>2, <1>3, <1>4, <2>1, <2>2 DEF KeyOfSession
    <2>5. QED BY <2>3, <2>4 DEF KeyOfSession
  <1>7. QED BY <1>5, <1>6 DEF KeysFit

\* Nothing expires where time does not pass.
LEMMA ExpiredStays ==
  ASSUME Operations \subseteq OneByOneRoutes, [Next]_vars
  PROVE  UNCHANGED expired /\ (Time => FALSE)
  <1>1. "expiry" \notin Operations BY DEF OneByOneRoutes
  <1>2. ~Time BY <1>1 DEF Time, SessionExpires, AttemptsExpire, ResetExpires
  <1>3. \A r \in Requests : Call(r) => UNCHANGED expired
    BY DEF Call, Login, LoginWrongPassword, RevokeSessions, ChangePassword, ForgotPassword,
           Refresh, Logout, ResetPassword, postgres
  <1>4. \A r \in Requests : Step(r) \/ Crash(r) => UNCHANGED expired
    BY DEF Step, CountFailure, RecordFailure, Raise, TouchUser, ClearAttempts, InsertSession,
           CacheSession, IndexSession, RevokeOld, UncacheOld, UnindexOld, Blacklist,
           ConsumeReset, UpdatePassword, SelectSessions, ApplyRevocation, ReadIndex,
           DropCached, DropIndex, Respond, Commit, Crash, postgres
  <1>5. UNCHANGED vars => UNCHANGED expired BY DEF vars, postgres
  <1>6. QED BY <1>2, <1>3, <1>4, <1>5 DEF Next

\* Every step keeps the keys and the rows together.
LEMMA StepKeepsKeys ==
  ASSUME Operations \subseteq OneByOneRoutes, IInv, KeysFollowRows, [Next]_vars
  PROVE  KeysFollowRows'
  <1>1. expired' = {} BY ExpiredStays DEF KeysFollowRows
  <1>2. ASSUME crashes' = 0 PROVE KeysFit'
    <2>1. KeysFit /\ \A r \in Requests : ~Crash(r) BY <1>2, CrashesCount DEF KeysFollowRows
    <2>2. CASE \E r \in Requests : Call(r) BY <2>1, <2>2, CallKeepsKeys
    <2>3. CASE \E r \in Requests : Step(r)
      <3>1. PICK r \in Requests : Step(r) BY <2>3
      <3>2. \/ LocalStep(r) /\ ~CacheSession(r) /\ ~UncacheOld(r)
            \/ CacheSession(r) \/ UncacheOld(r) \/ InsertSession(r) \/ Commit(r)
        BY <3>1 DEF Step, LocalStep
      <3>3. QED
        BY <2>1, <3>2, LocalKeepsKeys, KeyCommandsKeepKeys, InsertKeepsKeys, CommitKeepsKeys
    <2>4. CASE UNCHANGED vars
      BY <2>1, <2>4 DEF vars, postgres, redis, KeysFit, KeysInStep, KeyOfSession, Live, Opened
    <2>5. QED BY <2>1, <2>2, <2>3, <2>4, ExpiredStays DEF Next
  <1>3. QED BY <1>1, <1>2 DEF KeysFollowRows

\* Where sessions are opened and ended one at a time and none expires, the sessions in Redis are
\* the active sessions in PostgreSQL, when nobody is at work and no request has died.
THEOREM KeysAreACopy ==
  ASSUME Operations \subseteq {"login", "failed_login", "refresh", "logout"}
  PROVE  Spec => []KeysMatchRows
  <1>1. Operations \subseteq OneByOneRoutes BY DEF OneByOneRoutes
  <1>2. Init => KeysFollowRows
    BY NoneAssumption
       DEF Init, KeysFollowRows, KeysFit, KeysInStep, KeyOfSession, Live, Opened, Opening, Idle,
           Stored, OneByOneRoutes, Routes
  <1>3. IInv /\ KeysFollowRows /\ [Next]_vars => KeysFollowRows' BY <1>1, StepKeepsKeys
  <1>4. IInv /\ KeysFollowRows => KeysMatchRows
    <2> SUFFICES ASSUME IInv, KeysFollowRows, crashes = 0, \A r \in Requests : At(r, "idle"),
                        NEW s \in Sessions
                 PROVE  s \in cached <=> IsActive(s)
      BY DEF KeysMatchRows, IInv, TypeOK
    <2>1. KeyOfSession(s) /\ expired = {} BY DEF KeysFollowRows, KeysFit
    <2>2. ASSUME NEW r \in Requests PROVE req[r].hits = {} /\ req[r].pc \notin Stored
      <3>1. req[r].op = None
        BY DEF IInv, TypeOK, At, InStep, InProgram, RequestType, Routes, Revoking, AfterInsert,
               AfterRevoke, AfterSelect
      <3>2. QED BY <3>1 DEF KeysFollowRows, KeysFit, KeysInStep, At, Stored
    <2>3. QED BY <2>1, <2>2 DEF KeyOfSession, IsActive
  <1>5. QED BY <1>2, <1>3, <1>4, Invariance, PTL DEF Spec
=============================================================================
