----------------------------- MODULE AuthService -----------------------------
(***************************************************************************)
(* auth-service: registration, login, refresh-token rotation and           *)
(* revocation over MySQL, the user.registered publisher, and the process   *)
(* that hosts them (start, crash, SIGTERM shutdown).                       *)
(*                                                                         *)
(* One action per await: between two of them any other request may run.    *)
(* The random identifiers a request generates (the credential id of a      *)
(* registration, the tokenId of a refresh-token row) are named after the   *)
(* request, which makes them unique exactly as UUIDs are: User and Token   *)
(* are both Req.                                                           *)
(***************************************************************************)
CONSTANTS
  Req,      \* HTTP requests, each handled once
  Email,    \* e-mail addresses
  None      \* "no value"; also a failed lookup


User == Req
Token == Req

VARIABLES
  mode,       \* the process: up, draining (SIGTERM), closed (not accepting), down
  channel,    \* the publisher's channel: open, closing, null; or leaving: null, and
              \* closePublisher still waits for an answer of the broker
  email,      \* user_credentials: email[u] of the committed row u, None if no row
  row,        \* refresh_tokens: the committed rows, by tokenId
  owner,      \* owner[t]: user_id of the row t, kept after the row is destroyed
  expired,    \* rows whose expires_at has passed
  op,         \* op[r]: the route of request r, None before it arrives
  arg,        \* arg[r]: the e-mail, token or user id the handler works with
  pc,         \* pc[r]: the await the handler is suspended at
  status,     \* status[r]: the answer auth-service gave
  held,       \* refresh tokens that reached a client
  published,  \* users whose user.registered was handed to an open channel
  revoked     \* history: rows that a revocation deleted

dbVars == <<email, row, owner, expired>>
procVars == <<mode, channel>>
vars == <<mode, channel, email, row, owner, expired, op, arg, pc, status,
          held, published, revoked>>

Op == {"register", "login", "refresh", "revoke"}
Pc == {"idle", "find", "begin", "insert", "token", "commit", "abort", "committed",
       "issue", "expire", "rotate", "refused", "done"}
Status == {"ok", "401", "409", "500", "lost"}

ASSUME NoneIsFresh == None \notin Req \cup Email \cup Op \cup Status
ASSUME ReqIsNotEmail == Req \cap Email = {}
ASSUME NoneIsNoOutcome == None \notin {"done", "refused", "unknown"}

\* The awaits at which register keeps a connection for its transaction, and
\* those at which the transaction surely holds the unique-index entry of its
\* e-mail (at "abort" the rollback is under way and may have released it).
InTxn == {"insert", "token", "commit", "abort"}
HoldsEmail == {"token", "commit"}

TypeOK ==
  /\ mode \in {"up", "draining", "closed", "down"}
  /\ channel \in {"open", "closing", "leaving", "null"}
  /\ email \in [User -> Email \cup {None}]
  /\ row \subseteq Token
  /\ owner \in [Token -> User \cup {None}]
  /\ expired \subseteq Token
  /\ op \in [Req -> Op \cup {None}]
  /\ arg \in [Req -> Req \cup Email \cup {None}]
  /\ pc \in [Req -> Pc]
  /\ status \in [Req -> Status \cup {None}]
  /\ held \subseteq Token
  /\ published \subseteq User
  /\ revoked \subseteq Token

Init ==
  /\ mode = "up" /\ channel = "open"
  /\ email = [u \in User |-> None]
  /\ row = {} /\ expired = {}
  /\ owner = [t \in Token |-> None]
  /\ op = [r \in Req |-> None]
  /\ arg = [r \in Req |-> None]
  /\ pc = [r \in Req |-> "idle"]
  /\ status = [r \in Req |-> None]
  /\ held = {} /\ published = {} /\ revoked = {}

-----------------------------------------------------------------------------
(* Steps shared by the handlers                                            *)

Registered(e) == \E u \in User : email[u] = e

Goto(r, label) ==
  /\ pc' = [pc EXCEPT ![r] = label]
  /\ UNCHANGED <<op, arg, status, held>>

\* The handler ends without issuing a token: HttpError, or 500 for any other error.
Answer(r, s) ==
  /\ pc' = [pc EXCEPT ![r] = "done"]
  /\ status' = [status EXCEPT ![r] = s]
  /\ UNCHANGED <<op, arg, held>>

\* The next statement of a handler needs a connection from the pool, which refuses
\* it as soon as closeDatabase has begun to drain: 500.  A statement that was under
\* way by then still completes, or fails.
PoolOpen == mode = "up"
Request(r, label) == IF PoolOpen THEN Goto(r, label) ELSE Answer(r, "500")

\* Mutant: the answer carries the request's argument instead of the new token.
GrantArgument(r) ==
  /\ pc' = [pc EXCEPT ![r] = "done"]
  /\ status' = [status EXCEPT ![r] = "ok"]
  /\ held' = held \cup {arg[r]}
  /\ UNCHANGED <<op, arg>>

\* The handler answers with the refresh token r.  The answer may be lost on
\* its way (the gateway gives up after 5 s), then no client holds the token.
Grant(r) ==
  /\ pc' = [pc EXCEPT ![r] = "done"]
  /\ status' = [status EXCEPT ![r] = "ok"]
  /\ held' \in {held, held \cup {r}}
  /\ UNCHANGED <<op, arg>>

\* createRefreshToken: a row for u under the new tokenId r.
InsertRow(r, u) ==
  /\ row' = row \cup {r}
  /\ owner' = [owner EXCEPT ![r] = u]
  /\ UNCHANGED <<email, expired>>

DeleteRows(T) ==
  /\ row' = row \ T
  /\ UNCHANGED <<email, owner, expired>>

\* The well-formed requests.  A client can only present a refresh token it was
\* given and revoke a user id it has seen.
Requests ==
  ({"register", "login"} \X Email) \cup ({"refresh"} \X held)
    \cup ({"revoke"} \X {u \in User : email[u] # None})

\* Every handler begins with a statement; a draining pool refuses it a connection.
Arrive(r) ==
  /\ mode \in {"up", "draining"}
  /\ pc[r] = "idle"
  /\ \E q \in Requests : /\ op' = [op EXCEPT ![r] = q[1]]
                         /\ arg' = [arg EXCEPT ![r] = q[2]]
  /\ pc' = [pc EXCEPT ![r] = IF PoolOpen THEN "find" ELSE "refused"]
  /\ UNCHANGED <<procVars, dbVars, status, held, published, revoked>>

\* The statement r is waiting for fails before it changes anything, or got no
\* connection.
StatementFails(r) ==
  /\ pc[r] \in {"find", "begin", "issue", "expire", "rotate", "refused"}
  /\ Answer(r, "500")
  /\ UNCHANGED <<procVars, dbVars, published, revoked>>

-----------------------------------------------------------------------------
(* register                                                                *)

RegisterFind(r) ==
  /\ op[r] = "register" /\ pc[r] = "find"
  /\ IF Registered(arg[r]) THEN Answer(r, "409") ELSE Request(r, "begin")
  /\ UNCHANGED <<procVars, dbVars, published, revoked>>

\* sequelize.transaction() takes a connection; then the password is hashed.
RegisterBegin(r) ==
  /\ pc[r] = "begin"
  /\ Goto(r, "insert")
  /\ UNCHANGED <<procVars, dbVars, published, revoked>>

\* Mutant: user_credentials.email without its unique index.
RegisterInsertUnindexed(r) ==
  /\ pc[r] = "insert"
  /\ Goto(r, "token") \/ Goto(r, "abort")
  /\ UNCHANGED <<procVars, dbVars, published, revoked>>

\* Mutant: each transaction locks its e-mail first, and waits without a timeout.
RegisterInsertLocked(r) ==
  /\ pc[r] = "insert"
  /\ \A q \in Req \ {r} : pc[q] \in InTxn => arg[q] # arg[r]
  /\ IF Registered(arg[r]) THEN Goto(r, "abort") ELSE Goto(r, "token")
  /\ UNCHANGED <<procVars, dbVars, published, revoked>>

\* UserCredentials.create.  InnoDB makes the insert wait while another
\* transaction holds the same e-mail and refuses a committed duplicate; that
\* error, or any other, leads to the catch block.
RegisterInsert(r) ==
  /\ pc[r] = "insert"
  /\ \/ /\ ~Registered(arg[r])
        /\ \A q \in Req : pc[q] \in HoldsEmail => arg[q] # arg[r]
        /\ Goto(r, "token")
     \/ Goto(r, "abort")
  /\ UNCHANGED <<procVars, dbVars, published, revoked>>

\* Mutant: createRefreshToken(user.id), the transaction not passed on.
RegisterTokenOutside(r) ==
  /\ pc[r] = "token"
  /\ \/ InsertRow(r, r) /\ Goto(r, "commit")
     \/ Goto(r, "abort") /\ UNCHANGED dbVars
  /\ UNCHANGED <<procVars, published, revoked>>

\* Mutant: publishUserRegistered before the commit.
RegisterTokenPublishes(r) ==
  /\ pc[r] = "token"
  /\ Goto(r, "commit") \/ Goto(r, "abort")
  /\ published' = IF channel = "open" THEN published \cup {r} ELSE published
  /\ UNCHANGED <<procVars, dbVars, revoked>>

\* createRefreshToken(user.id, transaction): uncommitted, so no shared state yet.
RegisterToken(r) ==
  /\ pc[r] = "token"
  /\ Goto(r, "commit") \/ Goto(r, "abort")
  /\ UNCHANGED <<procVars, dbVars, published, revoked>>

\* The commit makes the credential and its first token visible together.
RegisterCommit(r) ==
  /\ pc[r] = "commit"
  /\ email' = [email EXCEPT ![r] = arg[r]]
  /\ row' = row \cup {r}
  /\ owner' = [owner EXCEPT ![r] = r]
  /\ Goto(r, "committed") \/ Answer(r, "500")   \* committed, acknowledgement lost
  /\ UNCHANGED <<procVars, expired, published, revoked>>

\* The commit fails and the server discards the transaction; the catch block's
\* rollback then throws as well, the transaction being finished.
RegisterCommitFails(r) ==
  /\ pc[r] = "commit"
  /\ Answer(r, "500")
  /\ UNCHANGED <<procVars, dbVars, published, revoked>>

RegisterRollback(r) ==
  /\ pc[r] = "abort"
  /\ Answer(r, "500")
  /\ UNCHANGED <<procVars, dbVars, published, revoked>>

\* Mutant: the catch block takes every error for a duplicate e-mail.
RegisterFinishConflict(r) ==
  /\ pc[r] = "committed"
  /\ IF channel = "closing" THEN Answer(r, "409") ELSE Grant(r)
  /\ published' = IF channel = "open" THEN published \cup {r} ELSE published
  /\ UNCHANGED <<procVars, dbVars, revoked>>

\* Mutant: the publish waits until the channel is open again.
RegisterFinishWaits(r) ==
  /\ pc[r] = "committed" /\ channel = "open"
  /\ Grant(r)
  /\ published' = published \cup {r}
  /\ UNCHANGED <<procVars, dbVars, revoked>>

\* After the commit nothing awaits: sign, publishUserRegistered, answer.  A
\* null channel drops the event; a closing one throws, and the catch block's
\* rollback of a committed transaction throws too: 500 for an account that exists.
RegisterFinish(r) ==
  /\ pc[r] = "committed"
  /\ IF channel = "closing" THEN Answer(r, "500") ELSE Grant(r)
  /\ published' = IF channel = "open" THEN published \cup {r} ELSE published
  /\ UNCHANGED <<procVars, dbVars, revoked>>

-----------------------------------------------------------------------------
(* login                                                                   *)

\* findOne and bcrypt.compare: the credential row never changes, so reading it
\* and comparing are one step.  The handler goes on with credential.id; a pool
\* that drains by then refuses createRefreshToken.
LoginCheck(r) ==
  /\ op[r] = "login" /\ pc[r] = "find"
  /\ \/ Answer(r, "401")                        \* unknown e-mail or wrong password
     \/ Registered(arg[r]) /\ ~PoolOpen /\ Answer(r, "500")
     \/ \E u \in User :
          /\ email[u] = arg[r] /\ PoolOpen
          /\ arg' = [arg EXCEPT ![r] = u]
          /\ pc' = [pc EXCEPT ![r] = "issue"]
          /\ UNCHANGED <<op, status, held>>
  /\ UNCHANGED <<procVars, dbVars, published, revoked>>

\* createRefreshToken and the answer: login's and refresh's last await.
Beneficiary(r) == IF op[r] = "refresh" THEN owner[arg[r]] ELSE arg[r]

IssueToken(r) ==
  /\ pc[r] = "issue"
  /\ InsertRow(r, Beneficiary(r))
  /\ Grant(r) \/ Answer(r, "500")               \* inserted, acknowledgement lost
  /\ UNCHANGED <<procVars, published, revoked>>

-----------------------------------------------------------------------------
(* refreshTokens                                                           *)

\* Mutant: a valid signature is enough, no lookup of the row.
RefreshFindBySignature(r) ==
  /\ op[r] = "refresh" /\ pc[r] = "find"
  /\ IF arg[r] \in expired THEN Request(r, "expire")
     ELSE IF email[owner[arg[r]]] = None THEN Answer(r, "401")
     ELSE Request(r, "rotate")
  /\ UNCHANGED <<procVars, dbVars, published, revoked>>

\* verifyRefreshToken throws a plain error (500) when the JWT has expired, on
\* its own clock: that outcome is StatementFails.  Then the row is looked up,
\* its expiry compared and its credential fetched; nothing is locked.
\* Credentials never change, so fetching one is not a step of its own.  What
\* follows needs a connection again.
RefreshFind(r) ==
  /\ op[r] = "refresh" /\ pc[r] = "find"
  /\ IF arg[r] \notin row THEN Answer(r, "401")
     ELSE IF arg[r] \in expired THEN Request(r, "expire")
     ELSE IF email[owner[arg[r]]] = None THEN Answer(r, "401")
     ELSE Request(r, "rotate")
  /\ UNCHANGED <<procVars, dbVars, published, revoked>>

\* Mutant: an expired row is refused and left in place.
RefreshExpireKeeps(r) ==
  /\ pc[r] = "expire"
  /\ Answer(r, "401") \/ Answer(r, "500")
  /\ UNCHANGED <<procVars, dbVars, published, revoked>>

RefreshExpire(r) ==
  /\ pc[r] = "expire"
  /\ DeleteRows({arg[r]})
  /\ Answer(r, "401") \/ Answer(r, "500")       \* deleted, acknowledgement lost
  /\ UNCHANGED <<procVars, published, revoked>>

\* Mutant: the presented row survives the rotation.
RefreshDestroyNothing(r) ==
  /\ pc[r] = "rotate"
  /\ Request(r, "issue") \/ Answer(r, "500")
  /\ UNCHANGED <<procVars, dbVars, published, revoked>>

\* tokenRecord.destroy() deletes by primary key; deleting no row is no error.
RefreshDestroy(r) ==
  /\ pc[r] = "rotate"
  /\ DeleteRows({arg[r]})
  /\ Request(r, "issue") \/ Answer(r, "500")
  /\ UNCHANGED <<procVars, published, revoked>>

-----------------------------------------------------------------------------
(* revokeRefreshToken                                                      *)

\* Mutant: the DELETE without its WHERE.
RowsOfEverybody(u) == row

RowsOf(u) == {t \in row : owner[t] = u}

Revoke(r) ==
  /\ op[r] = "revoke" /\ pc[r] = "find"
  /\ DeleteRows(RowsOf(arg[r]))
  /\ revoked' = revoked \cup RowsOf(arg[r])
  /\ Answer(r, "ok") \/ Answer(r, "500")
  /\ UNCHANGED <<procVars, published>>

-----------------------------------------------------------------------------
(* The process and its surroundings                                        *)

\* Thirty days pass for the row t.
Expire(t) ==
  /\ t \in row \ expired
  /\ expired' = expired \cup {t}
  /\ UNCHANGED <<procVars, email, row, owner, op, arg, pc, status, held,
                 published, revoked>>

\* The broker connection drops; the close handler clears the channel and
\* nothing calls initPublisher again.  A close() under way goes on waiting for
\* its answer, perhaps for ever.
ConnectionLost ==
  /\ mode # "down" /\ channel \in {"open", "closing"}
  /\ channel' = IF channel = "open" THEN "null" ELSE "leaving"
  /\ UNCHANGED <<mode, dbVars, op, arg, pc, status, held, published, revoked>>

\* SIGTERM: closeDatabase and closePublisher start together; the server still
\* accepts requests until both are through.
Shutdown ==
  /\ mode = "up"
  /\ mode' = "draining"
  /\ channel' = IF channel = "open" THEN "closing" ELSE channel
  /\ UNCHANGED <<dbVars, op, arg, pc, status, held, published, revoked>>

\* closePublisher: the broker confirms the close of the channel, which clears the
\* variable, then that of the connection.  Neither wait has a timeout.
PublisherClosed ==
  /\ mode # "down" /\ channel \in {"closing", "leaving"}
  /\ channel' = IF channel = "closing" THEN "leaving" ELSE "null"
  /\ UNCHANGED <<mode, dbVars, op, arg, pc, status, held, published, revoked>>

\* The pool is drained once no statement and no transaction holds a connection;
\* when the publisher is closed too, server.close stops accepting.
StopListening ==
  /\ mode = "draining" /\ channel = "null"
  /\ \A r \in Req : pc[r] \in {"idle", "committed", "refused", "done"}
  /\ mode' = "closed"
  /\ UNCHANGED <<channel, dbVars, op, arg, pc, status, held, published, revoked>>

Exit ==
  /\ mode = "closed"
  /\ \A r \in Req : pc[r] \in {"idle", "done"}
  /\ mode' = "down"
  /\ UNCHANGED <<channel, dbVars, op, arg, pc, status, held, published, revoked>>

\* SIGKILL or a fatal error at any point: MySQL rolls the open transactions
\* back and every request in flight loses its answer.
Crash ==
  /\ mode # "down"
  /\ mode' = "down" /\ channel' = "null"
  /\ pc' = [r \in Req |-> IF pc[r] = "idle" THEN "idle" ELSE "done"]
  /\ status' = [r \in Req |-> IF pc[r] \in {"idle", "done"} THEN status[r] ELSE "lost"]
  /\ UNCHANGED <<dbVars, op, arg, held, published, revoked>>

\* main: database, tables, publisher, then listen; a failure exits again.
Restart ==
  /\ mode = "down"
  /\ mode' = "up" /\ channel' = "open"
  /\ UNCHANGED <<dbVars, op, arg, pc, status, held, published, revoked>>

-----------------------------------------------------------------------------
Handle(r) ==
  \/ StatementFails(r)
  \/ RegisterFind(r)   \/ RegisterBegin(r) \/ RegisterInsert(r) \/ RegisterToken(r)
  \/ RegisterCommit(r) \/ RegisterCommitFails(r) \/ RegisterRollback(r)
  \/ RegisterFinish(r)
  \/ LoginCheck(r)     \/ IssueToken(r)
  \/ RefreshFind(r)    \/ RefreshExpire(r) \/ RefreshDestroy(r)
  \/ Revoke(r)

Environment ==
  \/ \E t \in Token : Expire(t)
  \/ ConnectionLost \/ Shutdown \/ PublisherClosed \/ StopListening \/ Exit
  \/ Crash \/ Restart

Next ==
  \/ \E r \in Req : Arrive(r) \/ Handle(r)
  \/ Environment

Spec == Init /\ [][Next]_vars

\* Node's event loop resumes every handler whose statement has returned, and a
\* statement returns or fails; a drained pool and a server without requests call
\* back.  Nothing is assumed of the broker, which may never confirm a close, and
\* nothing forces a request, a crash, a restart or a SIGTERM to happen.
Fairness ==
  /\ \A r \in Req : WF_vars(Handle(r))
  /\ WF_vars(StopListening) /\ WF_vars(Exit)

FairSpec == Spec /\ Fairness
-----------------------------------------------------------------------------
(* Properties                                                              *)

\* What InnoDB's unique index on user_credentials.email leaves of the race
\* between findOne and create: two registrations that both saw "no such user"
\* never both commit.
EmailUnique ==
  \A u, v \in User : email[u] # None /\ email[u] = email[v] => u = v

\* Every refresh-token row, and every token a client was given, belongs to a
\* committed credential: a registration that rolls back leaves neither, and no
\* handler answers with a token before the account behind it is committed.
TokensAreBacked ==
  \A t \in row \cup held : owner[t] \in User /\ email[owner[t]] # None

\* refreshTokens destroys before it creates, with no transaction around the
\* two: once the replacement exists its parent is never live, whichever other
\* requests, failures or crashes fall between the statements.
RotationLeavesNoParent ==
  \A r \in Req : op[r] = "refresh" /\ owner[r] # None => arg[r] \notin row

\* A refresh answered 401 sends the person back to the login page, so it must
\* be final: the presented token is not live any more.  (The lookup, the expiry
\* test and the credential lookup are separate awaits, and an expired row is
\* deleted before the answer.)
UnauthorizedIsFinal ==
  \A r \in Req : op[r] = "refresh" /\ status[r] = "401" => arg[r] \notin row

\* A refresh that arrives after its token was rotated, expired or revoked never
\* produces a token, however the requests that killed it are interleaved with it.
DeadOnArrival(r) == op[r] = "refresh" /\ pc[r] = "find" /\ arg[r] \notin row
DeadTokenIsRefused ==
  \A r \in Req : [](DeadOnArrival(r) => [](owner[r] = None))

\* Where a revocation does end every session.  A user is signed out when no row
\* of theirs is left and no refresh stands between the lookup of a token and the
\* row that replaces it; from then on only a login or a registration makes a
\* token for them, whichever tokens clients still hold and present.
SignedOut(u) ==
  /\ \A t \in row : owner[t] # u
  /\ \A r \in Req : pc[r] \in {"rotate", "issue"} /\ op[r] = "refresh" => owner[arg[r]] # u
SignsIn(r, u) ==
  op[r] \in {"login", "register"} /\ owner[r] = None /\ owner'[r] = u
SignedOutStays ==
  [][\A u \in User : SignedOut(u) => SignedOut(u)' \/ \E r \in Req : SignsIn(r, u)]_vars

\* Every request that arrives is answered or loses its connection: the wait
\* for another transaction's e-mail ends because every transaction ends.
RequestsFinish ==
  \A r \in Req : pc[r] # "idle" ~> pc[r] = "done"

\* A shutdown closes pool and publisher under the requests in flight and still
\* waits for nothing of its own making: once the publisher is closed the process
\* ends, because every open transaction keeps its connection, no statement waits
\* for a new one and no answer waits for the channel.  (Until then the shutdown
\* depends on the broker and may hang, see PublisherClosed.)
ShutdownEnds ==
  mode \in {"draining", "closed"} /\ channel = "null" ~> mode = "down"

\* The implementation of TokenLedger: a token's whole life is unused, live,
\* dead, and an account and its first token appear in one step.
Ledger == INSTANCE TokenLedger WITH account <- email, holder <- owner, live <- row
ImplementsLedger == Ledger!Spec

\* The implementation of RegistrationEvents: whatever becomes of the transaction,
\* the channel or the process, user.registered is announced after its account is
\* committed, once or never, and no later request announces it again (register
\* publishes inside the same try block as the transaction).
Events == INSTANCE RegistrationEvents WITH
  account <- email,
  waiting <- {r \in Req : pc[r] = "committed"},
  announced <- published
ImplementsEvents == Events!Spec

\* What a client may conclude from the answer to a register, login or refresh:
\* 2xx means that its account or token was made, 401 and 409 that it was not and
\* never will be; only a 500 or a lost connection leaves it in doubt, and does
\* so even for a registration that is committed.
Outcome(s) ==
  CASE s = None -> None
    [] s = "ok" -> "done"
    [] s \in {"500", "lost"} -> "unknown"
    [] OTHER -> "refused"

Makers == {"register", "login", "refresh"}
Caller == INSTANCE RemoteCall WITH
  Call <- Req,
  asked <- {r \in Req : op[r] \in Makers},
  applied <- {r \in Req : owner[r] # None},
  answer <- [r \in Req |-> IF op[r] \in Makers THEN Outcome(status[r]) ELSE None]
ImplementsRemoteCall == Caller!Spec

\* "Token refresh with rotation" (README.md:47): one presented token is
\* replaced by one new token.
RotatedOnce ==
  \A r, q \in Req :
    /\ op[r] = "refresh" /\ owner[r] # None
    /\ op[q] = "refresh" /\ owner[q] # None
    /\ arg[r] = arg[q]
    => r = q

\* "Mark Token as Revoked", "Reject Future Use" (ARCHITECTURE.md:412-413): once
\* a revocation has deleted a row, no live row descends from it.
RevokedHasNoHeir ==
  \A r \in Req : op[r] = "refresh" /\ arg[r] \in revoked => r \notin row
=============================================================================
