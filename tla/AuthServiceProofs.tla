-------------------------- MODULE AuthServiceProofs --------------------------
(***************************************************************************)
(* Proofs about AuthService for every set of requests and e-mails: type    *)
(* correctness, the safety invariants the runs check, that AuthService     *)
(* implements TokenLedger, RegistrationEvents and RemoteCall, and what it  *)
(* inherits from them.                                                     *)
(***************************************************************************)
EXTENDS AuthService, TLAPS

\* What each await of a handler knows: which route it belongs to and what the
\* handler's argument is by then.
Control ==
  \A r \in Req :
    /\ pc[r] = "idle" <=> op[r] = None
    /\ pc[r] = "done" <=> status[r] # None
    /\ pc[r] \in InTxn \cup {"begin", "committed"} => op[r] = "register"
    /\ pc[r] \in {"expire", "rotate"} => op[r] = "refresh"
    /\ pc[r] = "issue" => op[r] \in {"login", "refresh"}
    /\ op[r] = "register" => arg[r] \in Email
    /\ op[r] = "login" /\ pc[r] = "find" => arg[r] \in Email
    /\ op[r] = "login" /\ pc[r] = "issue" => arg[r] \in User /\ email[arg[r]] # None
    /\ op[r] = "refresh" => arg[r] \in Token /\ owner[arg[r]] # None

\* The identifiers named after a request do not exist before its handler made
\* them, and a credential is only ever made by a registration.
Fresh ==
  \A r \in Req :
    /\ pc[r] \notin {"committed", "done"} => email[r] = None /\ owner[r] = None
    /\ pc[r] = "committed" => email[r] # None /\ owner[r] # None

\* Rows and the tokens of clients have an owner, and owners are committed.
Backed ==
  /\ \A t \in Token : owner[t] # None => email[owner[t]] # None
  /\ \A t \in row \cup held : owner[t] # None

\* The unique index: a transaction that inserted an e-mail has it to itself.
Locks ==
  \A r \in Req : pc[r] \in HoldsEmail =>
    /\ ~Registered(arg[r])
    /\ \A q \in Req \ {r} : pc[q] \in HoldsEmail => arg[q] # arg[r]

\* A refresh past its destroy has consumed the presented row for good.
Consumed ==
  \A r \in Req :
    op[r] = "refresh" /\ (pc[r] = "issue" \/ owner[r] # None) => arg[r] \notin row

IndInv ==
  /\ TypeOK /\ Control /\ Fresh /\ Backed /\ Locks /\ Consumed
  /\ EmailUnique /\ UnauthorizedIsFinal
-----------------------------------------------------------------------------
\* The empty database and the idle handlers satisfy the invariant.
LEMMA InitInv == Init => IndInv
<1> SUFFICES ASSUME Init PROVE IndInv
  OBVIOUS
<1> USE NoneIsFresh DEF Init, User, Token, Op, Status
<1>1. TypeOK
  BY DEF TypeOK, Pc
<1>2. Control
  BY DEF Control, InTxn
<1>3. Fresh
  BY DEF Fresh
<1>4. Backed
  BY DEF Backed
<1>5. Locks
  BY DEF Locks, HoldsEmail
<1>6. Consumed
  BY DEF Consumed
<1>7. EmailUnique
  BY DEF EmailUnique
<1>8. UnauthorizedIsFinal
  BY DEF UnauthorizedIsFinal
<1> QED
  BY <1>1, <1>2, <1>3, <1>4, <1>5, <1>6, <1>7, <1>8 DEF IndInv

\* Every step of a handler, of the process or of its surroundings preserves it.
LEMMA NextInv == IndInv /\ [Next]_vars => IndInv'
<1> SUFFICES ASSUME IndInv, [Next]_vars PROVE IndInv'
  OBVIOUS
<1> USE NoneIsFresh, ReqIsNotEmail
    DEF IndInv, TypeOK, Control, Fresh, Backed, Locks, Consumed, EmailUnique,
        UnauthorizedIsFinal, Registered, Request,
        User, Token, Op, Pc, Status, InTxn, HoldsEmail, dbVars, procVars
<1>1. ASSUME NEW r \in Req, StatementFails(r) PROVE IndInv'
  BY <1>1 DEF StatementFails, Answer
<1>2. ASSUME NEW r \in Req, RegisterFind(r) PROVE IndInv'
  BY <1>2 DEF RegisterFind, Answer, Goto
<1>3. ASSUME NEW r \in Req, RegisterBegin(r) PROVE IndInv'
  BY <1>3 DEF RegisterBegin, Goto
<1>4. ASSUME NEW r \in Req, RegisterInsert(r) PROVE IndInv'
  BY <1>4 DEF RegisterInsert, Goto
<1>5. ASSUME NEW r \in Req, RegisterToken(r) PROVE IndInv'
  BY <1>5 DEF RegisterToken, Goto
<1>6. ASSUME NEW r \in Req, RegisterCommit(r) PROVE IndInv'
  <2>1. TypeOK'
    BY <1>6 DEF RegisterCommit, Goto, Answer
  <2>2. Control'
    BY <1>6 DEF RegisterCommit, Goto, Answer
  <2>3. Fresh'
    BY <1>6 DEF RegisterCommit, Goto, Answer
  <2>4. Backed'
    BY <1>6 DEF RegisterCommit, Goto, Answer
  <2>5. Locks'
    BY <1>6 DEF RegisterCommit, Goto, Answer
  <2>6. Consumed'
    BY <1>6 DEF RegisterCommit, Goto, Answer
  <2>7. EmailUnique'
    BY <1>6 DEF RegisterCommit, Goto, Answer
  <2>8. UnauthorizedIsFinal'
    BY <1>6 DEF RegisterCommit, Goto, Answer
  <2> QED
    BY <2>1, <2>2, <2>3, <2>4, <2>5, <2>6, <2>7, <2>8
<1>7. ASSUME NEW r \in Req, RegisterCommitFails(r) PROVE IndInv'
  BY <1>7 DEF RegisterCommitFails, Answer
<1>8. ASSUME NEW r \in Req, RegisterRollback(r) PROVE IndInv'
  BY <1>8 DEF RegisterRollback, Answer
<1>9. ASSUME NEW r \in Req, RegisterFinish(r) PROVE IndInv'
  <2>1. TypeOK'
    BY <1>9 DEF RegisterFinish, Answer, Grant
  <2>2. Control'
    BY <1>9 DEF RegisterFinish, Answer, Grant
  <2>3. Fresh'
    BY <1>9 DEF RegisterFinish, Answer, Grant
  <2>4. Backed'
    BY <1>9 DEF RegisterFinish, Answer, Grant
  <2>5. Locks'
    BY <1>9 DEF RegisterFinish, Answer, Grant
  <2>6. Consumed'
    BY <1>9 DEF RegisterFinish, Answer, Grant
  <2>7. EmailUnique'
    BY <1>9 DEF RegisterFinish, Answer, Grant
  <2>8. UnauthorizedIsFinal'
    BY <1>9 DEF RegisterFinish, Answer, Grant
  <2> QED
    BY <2>1, <2>2, <2>3, <2>4, <2>5, <2>6, <2>7, <2>8
<1>10. ASSUME NEW r \in Req, LoginCheck(r) PROVE IndInv'
  <2>1. TypeOK'
    BY <1>10 DEF LoginCheck, Answer
  <2>2. Control'
    BY <1>10 DEF LoginCheck, Answer
  <2>3. Fresh'
    BY <1>10 DEF LoginCheck, Answer
  <2>4. Backed'
    BY <1>10 DEF LoginCheck, Answer
  <2>5. Locks'
    BY <1>10 DEF LoginCheck, Answer
  <2>6. Consumed'
    BY <1>10 DEF LoginCheck, Answer
  <2>7. EmailUnique'
    BY <1>10 DEF LoginCheck, Answer
  <2>8. UnauthorizedIsFinal'
    BY <1>10 DEF LoginCheck, Answer
  <2> QED
    BY <2>1, <2>2, <2>3, <2>4, <2>5, <2>6, <2>7, <2>8
<1>11. ASSUME NEW r \in Req, IssueToken(r) PROVE IndInv'
  BY <1>11 DEF IssueToken, InsertRow, Beneficiary, Grant, Answer
<1>12. ASSUME NEW r \in Req, RefreshFind(r) PROVE IndInv'
  BY <1>12 DEF RefreshFind, Answer, Goto
<1>13. ASSUME NEW r \in Req, RefreshExpire(r) PROVE IndInv'
  BY <1>13 DEF RefreshExpire, DeleteRows, Answer
<1>14. ASSUME NEW r \in Req, RefreshDestroy(r) PROVE IndInv'
  BY <1>14 DEF RefreshDestroy, DeleteRows, Goto, Answer
<1>15. ASSUME NEW r \in Req, Revoke(r) PROVE IndInv'
  BY <1>15 DEF Revoke, DeleteRows, RowsOf, Answer
<1>16. ASSUME NEW r \in Req, Arrive(r) PROVE IndInv'
  <2>1. TypeOK'
    BY <1>16 DEF Arrive, Requests
  <2>2. Control'
    BY <1>16 DEF Arrive, Requests
  <2>3. Fresh'
    BY <1>16 DEF Arrive, Requests
  <2>4. Backed'
    BY <1>16 DEF Arrive, Requests
  <2>5. Locks'
    BY <1>16 DEF Arrive, Requests
  <2>6. Consumed'
    BY <1>16 DEF Arrive, Requests
  <2>7. EmailUnique'
    BY <1>16 DEF Arrive, Requests
  <2>8. UnauthorizedIsFinal'
    BY <1>16 DEF Arrive, Requests
  <2> QED
    BY <2>1, <2>2, <2>3, <2>4, <2>5, <2>6, <2>7, <2>8
<1>17. CASE Environment
  BY <1>17 DEF Environment, Expire, ConnectionLost, Shutdown, PublisherClosed,
     StopListening, Exit, Crash, Restart
<1>18. CASE UNCHANGED vars
  BY <1>18 DEF vars
<1> QED
  BY <1>1, <1>2, <1>3, <1>4, <1>5, <1>6, <1>7, <1>8, <1>9, <1>10,
     <1>11, <1>12, <1>13, <1>14, <1>15, <1>16, <1>17, <1>18 DEF Next, Handle

-----------------------------------------------------------------------------
\* The conjunction of the properties and what makes them inductive always holds.
THEOREM Invariance == Spec => []IndInv
BY InitInv, NextInv, PTL DEF Spec

\* The variables keep their types whatever requests arrive.
THEOREM TypeCorrect == Spec => []TypeOK
<1>1. IndInv => TypeOK
  BY DEF IndInv
<1> QED
  BY <1>1, Invariance, PTL

\* No interleaving of registrations commits two credentials with one e-mail.
THEOREM EmailsAreUnique == Spec => []EmailUnique
<1>1. IndInv => EmailUnique
  BY DEF IndInv
<1> QED
  BY <1>1, Invariance, PTL

\* No row and no token in a client's hands lacks a committed credential.
THEOREM TokensBacked == Spec => []TokensAreBacked
<1>1. IndInv => TokensAreBacked
  BY DEF IndInv, TokensAreBacked, Backed, TypeOK, User, Token
<1> QED
  BY <1>1, Invariance, PTL

\* A replacement token and its parent are never live together.
THEOREM NoParentAfterRotation == Spec => []RotationLeavesNoParent
<1>1. IndInv => RotationLeavesNoParent
  BY DEF IndInv, Consumed, RotationLeavesNoParent
<1> QED
  BY <1>1, Invariance, PTL

\* 401 to a refresh is only answered when the presented token is dead.
THEOREM Final401 == Spec => []UnauthorizedIsFinal
<1>1. IndInv => UnauthorizedIsFinal
  BY DEF IndInv
<1> QED
  BY <1>1, Invariance, PTL

-----------------------------------------------------------------------------
(* AuthService implements TokenLedger                                      *)

Killed(T) == Ledger!Kill(T) \/ UNCHANGED <<email, owner, row>>

\* Deleting rows of one user kills their tokens, or changes nothing.
LEMMA DeletesKill ==
  ASSUME IndInv, NEW u \in User, NEW T \in SUBSET Token,
         \A t \in T \cap row : owner[t] = u, DeleteRows(T)
  PROVE  \E K \in SUBSET row : Killed(K)
<1>1. CASE T \cap row = {}
  <2>1. row' = row
    BY <1>1 DEF DeleteRows
  <2> QED
    BY <2>1 DEF DeleteRows, Killed
<1>2. CASE T \cap row # {}
  <2>1. row' = row \ (T \cap row)
    BY DEF DeleteRows
  <2>2. Ledger!Kill(T \cap row)
    BY <1>2, <2>1 DEF Ledger!Kill, DeleteRows
  <2> QED
    BY <2>2 DEF Killed
<1> QED
  BY <1>1, <1>2

\* The commit of a registration opens the account and its first token at once.
LEMMA CommitOpens ==
  ASSUME IndInv, NEW r \in Req, RegisterCommit(r)
  PROVE  Ledger!Open(r, arg[r], r) /\ arg[r] \in Email
<1>1. op[r] = "register" /\ arg[r] \in Email /\ email[r] = None /\ owner[r] = None
  BY DEF RegisterCommit, IndInv, Control, Fresh, InTxn
<1>2. \A v \in User : email[v] # arg[r]
  BY DEF RegisterCommit, IndInv, Locks, HoldsEmail, Registered
<1> QED
  BY <1>1, <1>2 DEF RegisterCommit, Ledger!Open, Goto, Answer

\* createRefreshToken outside a registration issues to an existing account.
LEMMA InsertIssues ==
  ASSUME IndInv, NEW r \in Req, IssueToken(r)
  PROVE  \E u \in User : Ledger!Issue(u, r)
<1>1. owner[r] = None /\ op[r] \in {"login", "refresh"}
  BY DEF IssueToken, IndInv, Control, Fresh
<1>2. Beneficiary(r) \in User /\ email[Beneficiary(r)] # None
  BY <1>1 DEF IssueToken, Beneficiary, IndInv, TypeOK, Control, Backed, User, Token
<1> QED
  BY <1>1, <1>2 DEF IssueToken, InsertRow, Ledger!Issue

\* Every step of auth-service is a step of the ledger or leaves it alone.
LEMMA StepRefines == IndInv /\ [Next]_vars => [Ledger!Next]_(Ledger!vars)
<1> SUFFICES ASSUME IndInv, [Next]_vars PROVE [Ledger!Next]_(Ledger!vars)
  OBVIOUS
<1> USE DEF Ledger!vars, dbVars
<1>1. ASSUME NEW r \in Req, RegisterCommit(r) PROVE Ledger!Next
  BY <1>1, CommitOpens DEF Ledger!Next, User, Token
<1>2. ASSUME NEW r \in Req, IssueToken(r) PROVE Ledger!Next
  BY <1>2, InsertIssues DEF Ledger!Next, Token
<1>3. ASSUME NEW r \in Req, RefreshExpire(r) \/ RefreshDestroy(r)
      PROVE  \E K \in SUBSET row : Killed(K)
  <2>1. arg[r] \in Token /\ owner[arg[r]] \in User
    BY <1>3 DEF RefreshExpire, RefreshDestroy, IndInv, TypeOK, Control, User, Token
  <2> QED
    BY <1>3, <2>1, DeletesKill DEF RefreshExpire, RefreshDestroy
<1>4. ASSUME NEW r \in Req, Revoke(r) PROVE \E K \in SUBSET row : Killed(K)
  <2>1. RowsOf(arg[r]) \in SUBSET Token
    BY DEF RowsOf, IndInv, TypeOK
  <2>2. CASE \E u \in User : u = arg[r]
    BY <1>4, <2>1, <2>2, DeletesKill DEF Revoke, RowsOf
  <2>3. CASE arg[r] \notin User
    <3>1. RowsOf(arg[r]) = {}
      BY <2>3 DEF RowsOf, IndInv, TypeOK, Backed, Token
    <3> QED
      BY <1>4, <3>1 DEF Revoke, DeleteRows, Killed
  <2> QED
    BY <2>2, <2>3
<1>5. ASSUME NEW r \in Req,
             \/ Arrive(r) \/ StatementFails(r)
             \/ RegisterFind(r) \/ RegisterBegin(r) \/ RegisterInsert(r)
             \/ RegisterToken(r) \/ RegisterCommitFails(r) \/ RegisterRollback(r)
             \/ RegisterFinish(r) \/ LoginCheck(r) \/ RefreshFind(r)
      PROVE  UNCHANGED Ledger!vars
  BY <1>5 DEF Arrive, StatementFails, RegisterFind, RegisterBegin, RegisterInsert,
     RegisterToken, RegisterCommitFails, RegisterRollback, RegisterFinish, LoginCheck,
     RefreshFind
<1>6. CASE Environment
  BY <1>6 DEF Environment, Expire, ConnectionLost, Shutdown, PublisherClosed,
     StopListening, Exit, Crash, Restart
<1>7. CASE UNCHANGED vars
  BY <1>7 DEF vars
<1>8. ASSUME \E K \in SUBSET row : Killed(K) PROVE [Ledger!Next]_(Ledger!vars)
  BY <1>8 DEF Killed, Ledger!Next
<1> QED
  BY <1>1, <1>2, <1>3, <1>4, <1>5, <1>6, <1>7, <1>8 DEF Next, Handle

\* Everything auth-service does to credentials and tokens is a step of the
\* ledger: atomic registration, tokens used up for good.
THEOREM Refinement == Spec => ImplementsLedger
<1>1. Init => Ledger!Init
  BY DEF Init, Ledger!Init
<1> QED
  BY <1>1, StepRefines, Invariance, PTL DEF Spec, ImplementsLedger, Ledger!Spec

\* What the ledger promises holds of auth-service: a refresh-token row that was
\* destroyed never comes back, whoever rotates, revokes or retries.
THEOREM TokensStayDead == Spec => Ledger!DeadStaysDead
<1>1. [Ledger!Next]_(Ledger!vars) =>
        [\A t \in Token : owner[t] # None /\ t \notin row => t \notin row']_(Ledger!vars)
  <2>1. ASSUME NEW u \in User, NEW e \in Email, NEW t \in Token, Ledger!Open(u, e, t),
               NEW d \in Token, owner[d] # None, d \notin row
        PROVE  d \notin row'
    BY <2>1 DEF Ledger!Open
  <2>2. ASSUME NEW u \in User, NEW t \in Token, Ledger!Issue(u, t),
               NEW d \in Token, owner[d] # None, d \notin row
        PROVE  d \notin row'
    BY <2>2 DEF Ledger!Issue
  <2>3. ASSUME NEW T \in SUBSET row, Ledger!Kill(T), NEW d \in Token, d \notin row
        PROVE  d \notin row'
    BY <2>3 DEF Ledger!Kill
  <2> QED
    BY <2>1, <2>2, <2>3 DEF Ledger!Next
<1> QED
  BY <1>1, Refinement, PTL DEF ImplementsLedger, Ledger!Spec, Ledger!DeadStaysDead

\* A refresh that arrived with a dead token is still waiting for its lookup,
\* or it is over; it has minted nothing.
Refused(r) == owner[r] = None /\ (DeadOnArrival(r) \/ pc[r] = "done")

\* No step of this or another request makes a refused refresh mint a token.
LEMMA RefusedStays ==
  ASSUME NEW r \in Req, IndInv, Refused(r), [Next]_vars
  PROVE  Refused(r)'
<1> USE NoneIsFresh DEF Refused, DeadOnArrival, IndInv, TypeOK, Control, Fresh, User, Token,
        Op, Status, InTxn, procVars, dbVars, Request
<1>1. ASSUME NEW q \in Req, Arrive(q) PROVE Refused(r)'
  BY <1>1 DEF Arrive, Requests
<1>2. ASSUME NEW q \in Req,
             \/ StatementFails(q)
             \/ RegisterFind(q) \/ RegisterBegin(q) \/ RegisterInsert(q)
             \/ RegisterToken(q) \/ RegisterCommitFails(q) \/ RegisterRollback(q)
             \/ RegisterFinish(q) \/ LoginCheck(q) \/ RefreshFind(q)
      PROVE  Refused(r)'
  BY <1>2 DEF StatementFails, RegisterFind, RegisterBegin, RegisterInsert, RegisterToken,
     RegisterCommitFails, RegisterRollback, RegisterFinish, LoginCheck, RefreshFind,
     Goto, Answer, Grant
<1>3. ASSUME NEW q \in Req, RegisterCommit(q) \/ IssueToken(q) PROVE Refused(r)'
  <2>1. owner[q] = None /\ q # r
    BY <1>3 DEF RegisterCommit, IssueToken
  <2> QED
    BY <1>3, <2>1 DEF RegisterCommit, IssueToken, InsertRow, Goto, Answer, Grant
<1>4. ASSUME NEW q \in Req, RefreshExpire(q) \/ RefreshDestroy(q) \/ Revoke(q)
      PROVE  Refused(r)'
  BY <1>4 DEF RefreshExpire, RefreshDestroy, Revoke, DeleteRows, Goto, Answer
<1>5. CASE Environment
  BY <1>5 DEF Environment, Expire, ConnectionLost, Shutdown, PublisherClosed,
     StopListening, Exit, Crash, Restart
<1>6. CASE UNCHANGED vars
  BY <1>6 DEF vars
<1> QED
  BY <1>1, <1>2, <1>3, <1>4, <1>5, <1>6 DEF Next, Handle

\* A refresh that arrives after its token died never produces a token.
THEOREM DeadTokensRefused == Spec => DeadTokenIsRefused
<1>1. ASSUME NEW r \in Req
      PROVE  Spec => [](DeadOnArrival(r) => [](owner[r] = None))
  <2>1. IndInv /\ DeadOnArrival(r) => Refused(r)
    BY DEF IndInv, Fresh, DeadOnArrival, Refused
  <2>2. IndInv /\ Refused(r) /\ [Next]_vars => Refused(r)'
    BY RefusedStays
  <2>3. Refused(r) => owner[r] = None
    BY DEF Refused
  <2> QED
    BY <2>1, <2>2, <2>3, Invariance, PTL DEF Spec
<1> QED
  BY <1>1 DEF DeadTokenIsRefused

-----------------------------------------------------------------------------
(* AuthService implements RegistrationEvents                               *)

\* Registrations between their commit and publishUserRegistered.
Waiting == {r \in Req : pc[r] = "committed"}

\* The actions of RegistrationEvents, as its steps.
LEMMA OpenIsStep ==
  ASSUME NEW u \in User, NEW e \in Email, Events!Open(u, e)
  PROVE  Events!Next
BY DEF Events!Next

LEMMA ForgetIsStep ==
  ASSUME NEW U \in SUBSET Waiting, Events!Forget(U)
  PROVE  Events!Next
BY DEF Events!Next, Waiting

\* The commit of a registration opens the account, to be announced or not.
LEMMA CommitOpensAccount ==
  ASSUME IndInv, NEW r \in Req, RegisterCommit(r)
  PROVE  \E e \in Email : Events!Open(r, e)
<1>1. arg[r] \in Email /\ email[r] = None /\ \A v \in User : email[v] # arg[r]
  BY DEF RegisterCommit, IndInv, Control, Fresh, Locks, InTxn, HoldsEmail, Registered
<1>2. Waiting' = Waiting \/ Waiting' = Waiting \cup {r}
  BY DEF RegisterCommit, Goto, Answer, Waiting, IndInv, TypeOK
<1>3. PICK e \in Email : e = arg[r]
  BY <1>1
<1>4. Events!Open(r, e)
  BY <1>1, <1>2, <1>3 DEF RegisterCommit, Events!Open, Waiting
<1> QED
  BY <1>4

\* After the commit the event is announced on an open channel, else forgotten.
LEMMA FinishAnnounces ==
  ASSUME IndInv, NEW r \in Req, RegisterFinish(r)
  PROVE  Events!Announce(r) \/ Events!Forget({r})
<1>1. r \in Waiting /\ Waiting' = Waiting \ {r} /\ email' = email
  BY DEF RegisterFinish, Answer, Grant, Waiting, IndInv, TypeOK, dbVars
<1>2. CASE channel = "open"
  BY <1>1, <1>2 DEF RegisterFinish, Events!Announce, Waiting
<1>3. CASE channel # "open"
  BY <1>1, <1>3 DEF RegisterFinish, Events!Forget, Waiting
<1> QED
  BY <1>2, <1>3

\* A crash forgets every event that was still to come.
LEMMA CrashForgets ==
  ASSUME IndInv, Crash
  PROVE  [Events!Next]_(Events!vars)
<1>1. Waiting' = {} /\ UNCHANGED <<email, published>>
  BY DEF Crash, Waiting, dbVars
<1>2. CASE Waiting = {}
  BY <1>1, <1>2 DEF Events!vars, Waiting
<1>3. CASE Waiting # {}
  <2>1. PICK U \in SUBSET Waiting : U = Waiting
    OBVIOUS
  <2>2. Events!Forget(U)
    BY <1>1, <1>3, <2>1 DEF Events!Forget, Waiting
  <2> QED
    BY <2>2, ForgetIsStep
<1> QED
  BY <1>2, <1>3

\* Every step of auth-service is a step of RegistrationEvents or leaves it alone.
LEMMA StepAnnounces == IndInv /\ [Next]_vars => [Events!Next]_(Events!vars)
<1> SUFFICES ASSUME IndInv, [Next]_vars PROVE [Events!Next]_(Events!vars)
  OBVIOUS
<1>1. ASSUME NEW r \in Req, RegisterCommit(r) PROVE Events!Next
  BY <1>1, CommitOpensAccount, OpenIsStep DEF User
<1>2. ASSUME NEW r \in Req, RegisterFinish(r) PROVE Events!Next
  <2>1. {r} \in SUBSET Waiting
    BY <1>2 DEF RegisterFinish, Waiting
  <2> QED
    BY <1>2, <2>1, FinishAnnounces DEF Events!Next, Waiting, User
<1>3. ASSUME NEW r \in Req,
             \/ Arrive(r) \/ StatementFails(r)
             \/ RegisterFind(r) \/ RegisterBegin(r) \/ RegisterInsert(r)
             \/ RegisterToken(r) \/ RegisterCommitFails(r) \/ RegisterRollback(r)
             \/ LoginCheck(r) \/ IssueToken(r) \/ RefreshFind(r)
             \/ RefreshExpire(r) \/ RefreshDestroy(r) \/ Revoke(r)
      PROVE  UNCHANGED Events!vars
  <2>1. UNCHANGED <<email, published>>
    BY <1>3 DEF Arrive, StatementFails, RegisterFind, RegisterBegin, RegisterInsert,
       RegisterToken, RegisterCommitFails, RegisterRollback, LoginCheck, IssueToken,
       RefreshFind, RefreshExpire, RefreshDestroy, Revoke, InsertRow, DeleteRows, dbVars
  <2>2. \E label \in Pc \ {"committed"} :
          pc[r] # "committed" /\ pc' = [pc EXCEPT ![r] = label]
    BY <1>3 DEF Arrive, StatementFails, RegisterFind, RegisterBegin, RegisterInsert,
       RegisterToken, RegisterCommitFails, RegisterRollback, LoginCheck, IssueToken,
       RefreshFind, RefreshExpire, RefreshDestroy, Revoke, Goto, Request, Answer, Grant, Pc
  <2>3. Waiting' = Waiting
    BY <2>2 DEF Waiting, IndInv, TypeOK
  <2> QED
    BY <2>1, <2>3 DEF Events!vars, Waiting
<1>4. CASE Environment /\ ~Crash
  BY <1>4 DEF Environment, Expire, ConnectionLost, Shutdown, PublisherClosed,
     StopListening, Exit, Restart, Events!vars, dbVars
<1>5. CASE Crash
  BY <1>5, CrashForgets
<1>6. CASE UNCHANGED vars
  BY <1>6 DEF vars, Events!vars
<1> QED
  BY <1>1, <1>2, <1>3, <1>4, <1>5, <1>6 DEF Next, Handle

\* auth-service keeps what RegistrationEvents promises to user-service.
THEOREM EventsRefinement == Spec => ImplementsEvents
<1>1. Init => Events!Init
  BY DEF Init, Events!Init
<1> QED
  BY <1>1, StepAnnounces, Invariance, PTL DEF Spec, ImplementsEvents, Events!Spec

\* RegistrationEvents again, seen through the module of its proofs.
Announcer == INSTANCE RegistrationEventsProofs WITH
  account <- email,
  waiting <- {r \in Req : pc[r] = "committed"},
  announced <- published

LEMMA EventsAgain == ImplementsEvents => Announcer!Spec
<1>1. Events!Init => Announcer!Init
  BY DEF Events!Init, Announcer!Init
<1>2. [Events!Next]_(Events!vars) => [Announcer!Next]_(Announcer!vars)
  BY DEF Events!Next, Announcer!Next, Events!vars, Announcer!vars, Events!Open, Announcer!Open,
     Events!Announce, Announcer!Announce, Events!Forget, Announcer!Forget
<1> QED
  BY <1>1, <1>2, PTL DEF ImplementsEvents, Events!Spec, Announcer!Spec

\* What auth-service inherits: only committed accounts are announced, none of
\* them twice, ...
THEOREM AnnouncedAreCommitted == Spec => []Announcer!AnnouncedIsCommitted
<1>1. Spec => Announcer!Spec
  BY EventsRefinement, EventsAgain, PTL
<1>2. Announcer!NoneIsNoEmail
  BY NoneIsFresh DEF Announcer!NoneIsNoEmail
<1> QED
  BY <1>1, <1>2, Announcer!AnnouncementsFollow, PTL

\* ... and an account whose event a crash, a closing channel or a lost
\* acknowledgement has swallowed is never announced by anything later.
THEOREM NothingReplays == Spec => Announcer!ForgottenStays
<1>1. Spec => Announcer!Spec
  BY EventsRefinement, EventsAgain, PTL
<1>2. Announcer!NoneIsNoEmail
  BY NoneIsFresh DEF Announcer!NoneIsNoEmail
<1> QED
  BY <1>1, <1>2, Announcer!ForgottenForGood, PTL

-----------------------------------------------------------------------------
(* Signing out                                                             *)

\* The owner of an existing token never changes: rows are made under fresh ids.
LEMMA OwnersStay ==
  ASSUME IndInv, [Next]_vars, NEW t \in Token, owner[t] # None
  PROVE  owner'[t] = owner[t]
<1> USE DEF IndInv, TypeOK, Control, Fresh, User, Token, InTxn, dbVars
<1>1. ASSUME NEW r \in Req, RegisterCommit(r) \/ IssueToken(r) PROVE owner'[t] = owner[t]
  <2>1. owner[r] = None
    BY <1>1 DEF RegisterCommit, IssueToken
  <2> QED
    BY <1>1, <2>1 DEF RegisterCommit, IssueToken, InsertRow
<1>2. ASSUME NEW r \in Req,
             \/ Arrive(r) \/ StatementFails(r)
             \/ RegisterFind(r) \/ RegisterBegin(r) \/ RegisterInsert(r)
             \/ RegisterToken(r) \/ RegisterCommitFails(r) \/ RegisterRollback(r)
             \/ RegisterFinish(r) \/ LoginCheck(r) \/ RefreshFind(r)
             \/ RefreshExpire(r) \/ RefreshDestroy(r) \/ Revoke(r)
      PROVE  owner' = owner
  BY <1>2 DEF Arrive, StatementFails, RegisterFind, RegisterBegin, RegisterInsert,
     RegisterToken, RegisterCommitFails, RegisterRollback, RegisterFinish, LoginCheck,
     RefreshFind, RefreshExpire, RefreshDestroy, Revoke, DeleteRows
<1>3. CASE Environment
  BY <1>3 DEF Environment, Expire, ConnectionLost, Shutdown, PublisherClosed,
     StopListening, Exit, Crash, Restart
<1>4. CASE UNCHANGED vars
  BY <1>4 DEF vars
<1> QED
  BY <1>1, <1>2, <1>3, <1>4 DEF Next, Handle

\* The rows of a signed-out user only come from a login or a registration ...
LEMMA RowsNeedSignIn ==
  ASSUME IndInv, [Next]_vars, NEW u \in User, SignedOut(u),
         ~\E r \in Req : SignsIn(r, u)
  PROVE  \A t \in row' : owner'[t] # u
<1> USE DEF IndInv, TypeOK, Control, Fresh, Backed, User, Token, InTxn, SignedOut, SignsIn, dbVars
<1>1. ASSUME NEW r \in Req, RegisterCommit(r) PROVE \A t \in row' : owner'[t] # u
  BY <1>1 DEF RegisterCommit
<1>2. ASSUME NEW r \in Req, IssueToken(r) PROVE \A t \in row' : owner'[t] # u
  <2>1. owner[r] = None /\ op[r] \in {"login", "refresh"}
    BY <1>2 DEF IssueToken
  <2>2. Beneficiary(r) # u
    BY <1>2, <2>1 DEF IssueToken, InsertRow, Beneficiary
  <2> QED
    BY <1>2, <2>1, <2>2 DEF IssueToken, InsertRow
<1>3. ASSUME NEW r \in Req,
             \/ Arrive(r) \/ StatementFails(r)
             \/ RegisterFind(r) \/ RegisterBegin(r) \/ RegisterInsert(r)
             \/ RegisterToken(r) \/ RegisterCommitFails(r) \/ RegisterRollback(r)
             \/ RegisterFinish(r) \/ LoginCheck(r) \/ RefreshFind(r)
             \/ RefreshExpire(r) \/ RefreshDestroy(r) \/ Revoke(r)
      PROVE  row' \subseteq row /\ owner' = owner
  BY <1>3 DEF Arrive, StatementFails, RegisterFind, RegisterBegin, RegisterInsert,
     RegisterToken, RegisterCommitFails, RegisterRollback, RegisterFinish, LoginCheck,
     RefreshFind, RefreshExpire, RefreshDestroy, Revoke, DeleteRows
<1>4. CASE Environment \/ UNCHANGED vars
  BY <1>4 DEF Environment, Expire, ConnectionLost, Shutdown, PublisherClosed,
     StopListening, Exit, Crash, Restart, vars
<1> QED
  BY <1>1, <1>2, <1>3, <1>4 DEF Next, Handle

\* ... and no refresh gets past its lookup with one of their tokens.
LEMMA RefreshesNeedRow ==
  ASSUME IndInv, [Next]_vars, NEW u \in User, SignedOut(u), NEW q \in Req,
         pc'[q] \in {"rotate", "issue"}, op'[q] = "refresh"
  PROVE  owner'[arg'[q]] # u
<1> USE DEF IndInv, TypeOK, Control, User, Token, SignedOut
<1>1. op[q] = "refresh" /\ arg'[q] = arg[q] /\ owner[arg[q]] # u
  <2> USE DEF InTxn, Goto, Request, Answer, Grant, dbVars, procVars
  <2>1. ASSUME NEW r \in Req, RefreshFind(r)
        PROVE  op[q] = "refresh" /\ arg'[q] = arg[q] /\ owner[arg[q]] # u
    BY <2>1 DEF RefreshFind
  <2>2. ASSUME NEW r \in Req, LoginCheck(r) \/ Arrive(r)
        PROVE  op[q] = "refresh" /\ arg'[q] = arg[q] /\ owner[arg[q]] # u
    BY <2>2 DEF LoginCheck, Arrive
  <2>3. ASSUME NEW r \in Req,
               \/ StatementFails(r)
               \/ RegisterFind(r) \/ RegisterBegin(r) \/ RegisterInsert(r)
               \/ RegisterToken(r) \/ RegisterCommit(r)
               \/ RegisterCommitFails(r) \/ RegisterRollback(r)
               \/ RegisterFinish(r) \/ IssueToken(r)
               \/ RefreshExpire(r) \/ RefreshDestroy(r) \/ Revoke(r)
        PROVE  op[q] = "refresh" /\ arg'[q] = arg[q] /\ pc[q] \in {"rotate", "issue"}
    BY <2>3 DEF StatementFails, RegisterFind, RegisterBegin, RegisterInsert, RegisterToken,
       RegisterCommit, RegisterCommitFails, RegisterRollback, RegisterFinish, IssueToken,
       RefreshExpire, RefreshDestroy, Revoke
  <2>4. CASE Environment \/ UNCHANGED vars
    BY <2>4 DEF Environment, Expire, ConnectionLost, Shutdown, PublisherClosed,
       StopListening, Exit, Crash, Restart, vars
  <2> QED
    BY <2>1, <2>2, <2>3, <2>4 DEF Next, Handle
<1>2. arg[q] \in Token /\ owner[arg[q]] # None
  BY <1>1
<1> QED
  BY <1>1, <1>2, OwnersStay

\* Once a user has no row and no refresh past its lookup, only a login or a
\* registration gives them a token again.
THEOREM SignedOutForGood == Spec => SignedOutStays
<1>1. IndInv /\ [Next]_vars =>
        [\A u \in User : SignedOut(u) => SignedOut(u)' \/ \E r \in Req : SignsIn(r, u)]_vars
  <2> SUFFICES ASSUME IndInv, [Next]_vars, NEW u \in User, SignedOut(u),
                      ~\E r \in Req : SignsIn(r, u)
               PROVE  SignedOut(u)'
    OBVIOUS
  <2>1. \A t \in row' : owner'[t] # u
    BY RowsNeedSignIn
  <2>2. \A q \in Req :
          pc'[q] \in {"rotate", "issue"} /\ op'[q] = "refresh" => owner'[arg'[q]] # u
    BY RefreshesNeedRow
  <2> QED
    BY <2>1, <2>2 DEF SignedOut
<1> QED
  BY <1>1, Invariance, PTL DEF Spec, SignedOutStays

\* A revocation that is acknowledged has signed its user out, unless a refresh
\* of theirs was past its lookup at that moment (the case of RevokedHasNoHeir).
Revokes(r, u) ==
  op[r] = "revoke" /\ arg[r] = u /\ status[r] = None /\ status'[r] = "ok"
THEOREM RevocationSignsOut ==
  Spec => [][\A r \in Req, u \in User :
               /\ Revokes(r, u)
               /\ \A q \in Req : pc[q] \in {"rotate", "issue"} /\ op[q] = "refresh"
                                  => owner[arg[q]] # u
               => SignedOut(u)']_vars
<1>1. IndInv /\ [Next]_vars =>
        [\A r \in Req, u \in User :
           /\ Revokes(r, u)
           /\ \A q \in Req : pc[q] \in {"rotate", "issue"} /\ op[q] = "refresh"
                              => owner[arg[q]] # u
           => SignedOut(u)']_vars
  <2> SUFFICES ASSUME IndInv, [Next]_vars, NEW r \in Req, NEW u \in User, Revokes(r, u),
                      \A q \in Req : pc[q] \in {"rotate", "issue"} /\ op[q] = "refresh"
                                     => owner[arg[q]] # u
               PROVE  SignedOut(u)'
    OBVIOUS
  <2> USE NoneIsFresh DEF IndInv, TypeOK, Control, Fresh, InTxn, Op, Status, Revokes
  <2>1. ASSUME NEW q \in Req,
               \/ Arrive(q) \/ StatementFails(q)
               \/ RegisterFind(q) \/ RegisterBegin(q) \/ RegisterInsert(q)
               \/ RegisterToken(q) \/ RegisterCommit(q)
               \/ RegisterCommitFails(q) \/ RegisterRollback(q)
               \/ RegisterFinish(q) \/ LoginCheck(q) \/ IssueToken(q) \/ RefreshFind(q)
               \/ RefreshExpire(q) \/ RefreshDestroy(q)
        PROVE  FALSE
    BY <2>1 DEF Arrive, StatementFails, RegisterFind, RegisterBegin, RegisterInsert,
       RegisterToken, RegisterCommit, RegisterCommitFails, RegisterRollback,
       RegisterFinish, LoginCheck, IssueToken, RefreshFind, RefreshExpire, RefreshDestroy,
       Goto, Request, Answer, Grant
  <2>2. CASE Environment \/ UNCHANGED vars
    BY <2>2 DEF Environment, Expire, ConnectionLost, Shutdown, PublisherClosed,
       StopListening, Exit, Crash, Restart, vars
  <2>3. ASSUME NEW q \in Req, Revoke(q) PROVE SignedOut(u)'
    <3>1. q = r
      BY <2>3 DEF Revoke, Answer
    <3>2. row' = row \ RowsOf(u) /\ owner' = owner /\ arg' = arg /\ op' = op
      BY <2>3, <3>1 DEF Revoke, Answer, DeleteRows
    <3>3. \A p \in Req : pc'[p] \in {"rotate", "issue"} => pc'[p] = pc[p]
      BY <2>3 DEF Revoke, Answer
    <3> QED
      BY <3>2, <3>3 DEF SignedOut, RowsOf
  <2> QED
    BY <2>1, <2>2, <2>3 DEF Next, Handle
<1> QED
  BY <1>1, Invariance, PTL DEF Spec

-----------------------------------------------------------------------------
(* AuthService implements RemoteCall                                       *)

\* The call variables of RemoteCall, seen from auth-service.
Asked == {r \in Req : op[r] \in Makers}
Applied == {r \in Req : owner[r] # None}
Answers == [r \in Req |-> IF op[r] \in Makers THEN Outcome(status[r]) ELSE None]

\* An arriving request asks, and is told nothing yet.
LEMMA ArriveAsks ==
  ASSUME IndInv, NEW r \in Req, Arrive(r)
  PROVE  [Caller!Next]_(Caller!vars)
<1> USE NoneIsFresh DEF IndInv, TypeOK, Control, Makers, Outcome, Op, Status
<1>1. op[r] = None /\ status[r] = None /\ status' = status
  BY DEF Arrive
<1>2. \A q \in Req \ {r} : op'[q] = op[q]
  BY DEF Arrive
<1>3. Answers' = Answers /\ Applied' = Applied
  BY <1>1, <1>2 DEF Arrive, Answers, Applied, dbVars
<1>4. CASE op'[r] \notin Makers
  <2>1. Asked' = Asked
    BY <1>1, <1>2, <1>4 DEF Asked
  <2> QED
    BY <1>3, <2>1 DEF Caller!vars, Asked, Applied, Answers
<1>5. CASE op'[r] \in Makers
  <2>1. r \notin Asked /\ Asked' = Asked \cup {r}
    BY <1>1, <1>2, <1>5 DEF Asked
  <2>2. Caller!Ask(r)
    BY <1>3, <2>1 DEF Caller!Ask, Asked, Applied, Answers
  <2> QED
    BY <2>2 DEF Caller!Next
<1> QED
  BY <1>4, <1>5

\* A step of the handler of r that makes nothing and ends it with s.
Ends(r, s) ==
  /\ op' = op /\ Applied' = Applied
  /\ status' = [status EXCEPT ![r] = s]

\* Such an end is one of the three of RemoteCall, or no call at all.
LEMMA EndIsAnswer ==
  ASSUME IndInv, NEW r \in Req, NEW s \in Status, pc[r] \notin {"idle", "done"}, Ends(r, s),
         op[r] \in Makers /\ s = "ok" => r \in Applied,
         op[r] \in Makers /\ s \in {"401", "409"} => r \notin Applied
  PROVE  [Caller!Next]_(Caller!vars)
<1> USE NoneIsFresh DEF IndInv, TypeOK, Control, Asked, Answers, Makers, Outcome, Op, Status
<1>1. Asked' = Asked /\ status[r] = None
  BY DEF Ends
<1>2. CASE op[r] \notin Makers
  <2>1. Answers' = Answers
    BY <1>1, <1>2 DEF Ends
  <2> QED
    BY <1>1, <2>1 DEF Ends, Caller!vars, Applied
<1>3. CASE op[r] \in Makers
  <2>1. r \in Asked /\ Answers[r] = None
    BY <1>1, <1>3
  <2>2. Answers' = [Answers EXCEPT ![r] = Outcome(s)]
    BY <1>3 DEF Ends
  <2>3. CASE s = "ok"
    <3>1. Caller!Done(r)
      BY <1>1, <1>3, <2>1, <2>2, <2>3 DEF Ends, Caller!Done, Applied
    <3> QED
      BY <3>1 DEF Caller!Next
  <2>4. CASE s \in {"401", "409"}
    <3>1. Caller!Refuse(r)
      BY <1>1, <1>3, <2>1, <2>2, <2>4 DEF Ends, Caller!Refuse, Applied
    <3> QED
      BY <3>1 DEF Caller!Next
  <2>5. CASE s \in {"500", "lost"}
    <3>1. Answers' = [c \in Req |-> IF c \in {r} THEN "unknown" ELSE Answers[c]]
      BY <2>2, <2>5
    <3>2. Caller!GiveUp({r})
      BY <1>1, <2>1, <3>1 DEF Ends, Caller!GiveUp, Applied
    <3> QED
      BY <2>1, <3>2 DEF Caller!Next
  <2> QED
    BY <2>3, <2>4, <2>5
<1> QED
  BY <1>2, <1>3

\* A function that differs from f at r only.
LEMMA ChangedAt ==
  ASSUME NEW S, NEW f, NEW g, f = [x \in S |-> f[x]], g = [x \in S |-> g[x]],
         NEW r \in S, \A q \in S \ {r} : g[q] = f[q]
  PROVE  g = [f EXCEPT ![r] = g[r]]
OBVIOUS

\* The commit of a registration and createRefreshToken of the others make the
\* change, told or untold.
LEMMA TokenApplies ==
  ASSUME IndInv, NEW r \in Req, RegisterCommit(r) \/ IssueToken(r)
  PROVE  Caller!Apply(r)
<1> USE NoneIsFresh DEF IndInv, TypeOK, Control, Makers, Outcome, Op, Status, InTxn, User, Token
<1>1. op[r] \in Makers /\ status[r] = None /\ op' = op
  BY DEF RegisterCommit, IssueToken, Goto, Answer, Grant
<1>2. owner[r] = None
  BY DEF RegisterCommit, IssueToken, Fresh
<1>3. owner'[r] # None /\ \A q \in Req \ {r} : owner'[q] = owner[q]
  <2>1. CASE RegisterCommit(r)
    BY <2>1 DEF RegisterCommit
  <2>2. CASE IssueToken(r)
    <3>1. Beneficiary(r) # None
      BY <2>2 DEF IssueToken, Beneficiary, Backed
    <3> QED
      BY <2>2, <3>1 DEF IssueToken, InsertRow
  <2> QED
    BY <2>1, <2>2
<1>4. \A q \in Req \ {r} : status'[q] = status[q]
  BY DEF RegisterCommit, IssueToken, Goto, Answer, Grant
<1>5. status'[r] \in {None, "ok", "500"}
  BY <1>1 DEF RegisterCommit, IssueToken, Goto, Answer, Grant
<1>6. Answers[r] = None /\ Answers'[r] \in {None, "done", "unknown"}
  BY <1>1, <1>5 DEF Answers
<1>7. \A q \in Req \ {r} : Answers'[q] = Answers[q]
  BY <1>1, <1>4 DEF Answers
<1>8. Answers = [q \in Req |-> Answers[q]] /\ Answers' = [q \in Req |-> Answers'[q]]
  BY DEF Answers
<1>9. Answers' = [Answers EXCEPT ![r] = Answers'[r]]
  BY <1>7, <1>8, ChangedAt
<1>10. r \in Asked \ Applied /\ Applied' = Applied \cup {r} /\ Asked' = Asked
  BY <1>1, <1>2, <1>3 DEF Asked, Applied
<1>11. \/ Answers' = Answers
       \/ \E a \in {"done", "unknown"} : Answers' = [Answers EXCEPT ![r] = a]
  <2>1. CASE Answers'[r] = None
    BY <1>6, <1>8, <1>9, <2>1
  <2>2. CASE Answers'[r] # None
    BY <1>6, <1>9, <2>2
  <2> QED
    BY <2>1, <2>2
<1>12. r \in Asked /\ r \notin Applied /\ Applied' = Applied \cup {r} /\ Asked' = Asked
  BY <1>10
<1> QED
  BY <1>6, <1>11, <1>12 DEF Caller!Apply, Asked, Applied, Answers

LEMMA GiveUpIsStep ==
  ASSUME NEW C \in SUBSET Asked, Caller!GiveUp(C)
  PROVE  Caller!Next
BY DEF Caller!Next, Asked

\* A dying process leaves every waiting request in doubt, also one whose
\* account is already committed.
LEMMA CrashGivesUp ==
  ASSUME IndInv, Crash
  PROVE  [Caller!Next]_(Caller!vars)
<1> DEFINE C == {r \in Asked : pc[r] \notin {"idle", "done"}}
<1>1. Asked' = Asked /\ Applied' = Applied
  BY DEF Crash, Asked, Applied, dbVars
<1>2. Answers' = [c \in Req |-> IF c \in C THEN "unknown" ELSE Answers[c]]
  BY NoneIsFresh DEF Crash, Asked, Answers, Makers, Outcome, IndInv, TypeOK, Control, Op, Status
<1>3. C \in SUBSET Asked /\ \A c \in C : Answers[c] = None
  BY NoneIsFresh DEF Asked, Answers, Makers, Outcome, IndInv, TypeOK, Control, Op, Status
<1>4. Answers = [c \in Req |-> Answers[c]]
  BY DEF Answers
<1> HIDE DEF C
<1>5. CASE C = {}
  <2>1. Answers' = Answers
    BY <1>2, <1>4, <1>5
  <2> QED
    BY <1>1, <2>1 DEF Caller!vars, Asked, Applied, Answers
<1>6. CASE C # {}
  <2>1. PICK K \in SUBSET Asked : K = C
    BY <1>3
  <2>2. Caller!GiveUp(K)
    BY <1>1, <1>2, <1>3, <1>6, <2>1 DEF Caller!GiveUp, Asked, Applied, Answers
  <2> QED
    BY <2>2, GiveUpIsStep
<1> QED
  BY <1>5, <1>6

\* Every step of auth-service is a step of RemoteCall or leaves it alone.
LEMMA StepAnswers == IndInv /\ [Next]_vars => [Caller!Next]_(Caller!vars)
<1> SUFFICES ASSUME IndInv, [Next]_vars PROVE [Caller!Next]_(Caller!vars)
  OBVIOUS
<1>1. ASSUME NEW r \in Req, RegisterCommit(r) \/ IssueToken(r)
      PROVE  [Caller!Next]_(Caller!vars)
  BY <1>1, TokenApplies DEF Caller!Next
<1>2. ASSUME NEW r \in Req,
             \/ StatementFails(r)
             \/ RegisterFind(r) \/ RegisterBegin(r) \/ RegisterInsert(r)
             \/ RegisterToken(r) \/ RegisterCommitFails(r) \/ RegisterRollback(r)
             \/ RegisterFinish(r) \/ LoginCheck(r) \/ RefreshFind(r)
             \/ RefreshExpire(r) \/ RefreshDestroy(r) \/ Revoke(r)
      PROVE  [Caller!Next]_(Caller!vars)
  <2> USE DEF StatementFails, RegisterFind, RegisterBegin, RegisterInsert, RegisterToken,
          RegisterCommitFails, RegisterRollback, RegisterFinish, LoginCheck, RefreshFind,
          RefreshExpire, RefreshDestroy, Revoke, Request
  <2>1. pc[r] \notin {"idle", "done"} /\ op' = op
    BY <1>2 DEF Goto, Answer, Grant
  <2>2. Applied' = Applied
    BY <1>2 DEF Applied, dbVars, DeleteRows
  <2>3. CASE status' = status
    BY <2>1, <2>2, <2>3 DEF Caller!vars, Asked, Applied, Answers
  <2>4. \/ status' = status
        \/ \E s \in Status :
             /\ status' = [status EXCEPT ![r] = s]
             /\ s = "ok" => op[r] = "revoke" \/ pc[r] = "committed"
             /\ s \in {"401", "409"} => pc[r] \in {"find", "expire"}
    BY <1>2 DEF Goto, Answer, Grant, Status
  <2>5. pc[r] = "committed" => r \in Applied
    BY DEF Applied, IndInv, Fresh
  <2>6. pc[r] \in {"find", "expire"} => r \notin Applied
    BY DEF Applied, IndInv, Fresh
  <2> QED
    BY <2>1, <2>2, <2>3, <2>4, <2>5, <2>6, EndIsAnswer DEF Ends, Makers
<1>3. ASSUME NEW r \in Req, Arrive(r) PROVE [Caller!Next]_(Caller!vars)
  BY <1>3, ArriveAsks
<1>4. CASE Crash
  BY <1>4, CrashGivesUp
<1>5. CASE Environment /\ ~Crash
  BY <1>5 DEF Environment, Expire, ConnectionLost, Shutdown, PublisherClosed,
     StopListening, Exit, Restart, dbVars, Caller!vars, Asked, Applied, Answers
<1>6. CASE UNCHANGED vars
  BY <1>6 DEF vars, Caller!vars
<1> QED
  BY <1>1, <1>2, <1>3, <1>4, <1>5, <1>6 DEF Next, Handle

\* What auth-service answers to a register, login or refresh is what RemoteCall
\* says an answer means, with failures, shutdowns and crashes between the awaits.
THEOREM AnswersMean == Spec => ImplementsRemoteCall
<1>1. Init => Caller!Init
  BY NoneIsFresh DEF Init, Caller!Init, Makers, Op, Token
<1> QED
  BY <1>1, StepAnswers, Invariance, PTL DEF Spec, ImplementsRemoteCall, Caller!Spec

-----------------------------------------------------------------------------
(* What follows from RemoteCall                                            *)

\* RemoteCall again, seen through the module of its proofs.
Told == INSTANCE RemoteCallProofs WITH
  Call <- Req,
  asked <- {r \in Req : op[r] \in Makers},
  applied <- {r \in Req : owner[r] # None},
  answer <- [r \in Req |-> IF op[r] \in Makers THEN Outcome(status[r]) ELSE None]

LEMMA CallsAgain == ImplementsRemoteCall => Told!Spec
<1>1. Caller!Init => Told!Init
  BY DEF Caller!Init, Told!Init
<1>2. [Caller!Next]_(Caller!vars) => [Told!Next]_(Told!vars)
  BY DEF Caller!Next, Told!Next, Caller!vars, Told!vars, Caller!Ask, Told!Ask,
     Caller!Apply, Told!Apply, Caller!Done, Told!Done, Caller!Refuse, Told!Refuse,
     Caller!GiveUp, Told!GiveUp
<1> QED
  BY <1>1, <1>2, PTL DEF ImplementsRemoteCall, Caller!Spec, Told!Spec

\* What auth-service inherits: whoever is answered 2xx has a token row and whoever
\* is answered 401 or 409 has none, ...
THEOREM AnswersAreTrue == Spec => []Told!AnswersAreTrue
<1>1. Told!NoneIsNoAnswer
  BY NoneIsNoOutcome DEF Told!NoneIsNoAnswer, Told!Answers
<1> QED
  BY <1>1, AnswersMean, CallsAgain, Told!AnswersTrue, PTL

\* ... nor is one made after the refusal, whatever else is still running.
THEOREM RefusedForGood == Spec => Told!RefusedForGood
<1>1. Told!NoneIsNoAnswer
  BY NoneIsNoOutcome DEF Told!NoneIsNoAnswer, Told!Answers
<1> QED
  BY <1>1, AnswersMean, CallsAgain, Told!RefusalsLast, PTL
=============================================================================
