------------------------------- MODULE Gateway -------------------------------
(***************************************************************************)
(* gateway-service in front of auth-, user- and chat-service: who may pass, *)
(* what is forwarded, and what a client is told when an answer comes, comes *)
(* too late or never comes.  A service is seen only at its edge: the shared *)
(* internal-token check, the user context and the answer; whether it made   *)
(* the change is kept, what the change is belongs to the other modules.     *)
(*                                                                          *)
(* pc[r] is the gateway's side of a request, at[r] the service's side.  The *)
(* two are apart as soon as the gateway gives up: the service goes on.      *)
(***************************************************************************)
CONSTANTS
  Req,      \* HTTP requests of clients, each handled once
  None      \* no value; as a bearer, no valid access token

AuthRoutes == {"register", "login", "refresh", "revoke"}
UserRoutes == {"getAllUsers", "getUser", "searchUsers", "createUser"}
ChatRoutes == {"createConversation", "listConversations", "getConversation",
               "createMessage", "listMessages"}
Route == AuthRoutes \cup UserRoutes \cup ChatRoutes

\* The account a registration creates is named after the request.
Account == Req

Service == {"auth", "user", "chat"}
ServiceOf(o) == IF o \in AuthRoutes THEN "auth" ELSE IF o \in UserRoutes THEN "user" ELSE "chat"

\* Routes behind requireAuth, and those that have a schema to satisfy.
Protected == (ChatRoutes \cup UserRoutes) \ {"createUser"}
Validated == Route \ {"getAllUsers", "listConversations"}

\* Routes that name a conversation.
OneConversation == {"getConversation", "createMessage", "listMessages"}

\* What a client may send: a well-formed request, one whose JSON body cannot be
\* parsed (express.json reads the body on every route), one its schema refuses, a
\* conversation with nobody but the caller, one that names a conversation of
\* others, a search with a limit, a refresh with an empty token.
FormsOf(o) ==
  {"good", "unparsable"}
           \cup (IF o \in Validated THEN {"bad"} ELSE {})
           \cup (IF o = "createConversation" THEN {"alone"} ELSE {})
           \cup (IF o \in OneConversation THEN {"foreign"} ELSE {})
           \cup (IF o = "searchUsers" THEN {"limit"} ELSE {})
           \cup (IF o = "refresh" THEN {"empty"} ELSE {})
Form == {"good", "unparsable", "bad", "alone", "foreign", "limit", "empty"}

Status == {"ok", "400", "401", "403", "404", "409", "422", "500", "lost"}

ASSUME NoneIsNew == None \notin Req \cup Route \cup Form \cup Status
ASSUME NoneIsNoOutcome == None \notin {"done", "refused", "unknown"}

VARIABLES
  mode,       \* the gateway: up, draining (SIGTERM), down
  trusted,    \* the services started with the gateway's INTERNAL_API_TOKEN
  route, form, \* what request r asks and how well-formed it is, None before it comes
  who,        \* the subject of its access token; of a login or refresh, the account
  pc,         \* pc[r]: idle, waiting (for the proxied call), done
  told,       \* what the client of r was told
  at,         \* r at its service: none, sent, inside, over
  applied,    \* the requests their service has carried out
  reply,      \* the service's answer to r
  known       \* the accounts of which a client holds an access token

request == <<route, form, who>>
remote == <<at, applied, reply>>
vars == <<mode, trusted, route, form, who, pc, told, at, applied, reply, known>>

TypeOK ==
  /\ mode \in {"up", "draining", "down"}
  /\ trusted \subseteq Service
  /\ route \in [Req -> Route \cup {None}]
  /\ form \in [Req -> Form \cup {None}]
  /\ who \in [Req -> Account \cup {None}]
  /\ pc \in [Req -> {"idle", "waiting", "done"}]
  /\ told \in [Req -> Status \cup {None}]
  /\ at \in [Req -> {"none", "sent", "inside", "over"}]
  /\ applied \subseteq Req
  /\ reply \in [Req -> Status \cup {None}]
  /\ known \subseteq Account

Init ==
  /\ mode = "up" /\ trusted \in SUBSET Service
  /\ route = [r \in Req |-> None] /\ form = [r \in Req |-> None] /\ who = [r \in Req |-> None]
  /\ pc = [r \in Req |-> "idle"] /\ told = [r \in Req |-> None]
  /\ at = [r \in Req |-> "none"] /\ reply = [r \in Req |-> None]
  /\ applied = {} /\ known = {}

\* The accounts auth-service has committed.
Accounts == {u \in applied : route[u] = "register"}

-----------------------------------------------------------------------------
(* The gateway                                                             *)

Tell(r, s) ==
  /\ pc' = [pc EXCEPT ![r] = "done"]
  /\ told' = [told EXCEPT ![r] = s]

Reject(r, s) == Tell(r, s) /\ UNCHANGED at

\* The proxied call leaves.
Forward(r) ==
  /\ pc' = [pc EXCEPT ![r] = "waiting"]
  /\ at' = [at EXCEPT ![r] = "sent"]
  /\ UNCHANGED told

\* validateRequest; any limit of a search becomes Number() = 0 and is refused.
Invalid(f) == f \in {"bad", "limit"}

\* Mutant: a router without requireAuth.
VerdictTolerant(o, f, w) ==
  CASE f = "unparsable" -> "500"
    [] Invalid(f) -> "422"
    [] OTHER -> None

\* express.json, whose error is no HttpError, then requireAuth and validateRequest
\* in the order of the routers; None when the request reaches its handler.
Verdict(o, f, w) ==
  CASE f = "unparsable" -> "500"
    [] o \in Protected /\ w = None -> "401"
    [] Invalid(f) -> "422"
    [] OTHER -> None

\* A connection that was busy at SIGTERM may carry requests until the process ends.
Enter(r, o, f, w) ==
  /\ mode \in {"up", "draining"} /\ pc[r] = "idle"
  /\ route' = [route EXCEPT ![r] = o]
  /\ form' = [form EXCEPT ![r] = f]
  /\ who' = [who EXCEPT ![r] = w]
  /\ UNCHANGED <<mode, trusted, applied, reply, known>>

\* The body of a login, refresh or revoke may name any account.
ReceiveAuth(r) ==
  \E o \in AuthRoutes : \E f \in FormsOf(o), w \in IF o = "register" THEN {r} ELSE Account :
    /\ Enter(r, o, f, w)
    /\ IF Verdict(o, f, w) # None THEN Reject(r, Verdict(o, f, w)) ELSE Forward(r)

\* Access tokens are signed for accounts that auth-service answered for.
ReceiveUser(r) ==
  \E o \in UserRoutes : \E f \in FormsOf(o), w \in known \cup {None} :
    /\ Enter(r, o, f, w)
    /\ IF Verdict(o, f, w) # None THEN Reject(r, Verdict(o, f, w)) ELSE Forward(r)

\* A conversation needs somebody else.
ReceiveChat(r) ==
  \E o \in ChatRoutes : \E f \in FormsOf(o), w \in known \cup {None} :
    /\ Enter(r, o, f, w)
    /\ CASE Verdict(o, f, w) # None -> Reject(r, Verdict(o, f, w))
         [] Verdict(o, f, w) = None /\ f = "alone" -> Reject(r, "400")
         [] OTHER -> Forward(r)

\* A response arrives in time; its status, success or error, becomes the answer.
Deliver(r, s) ==
  /\ pc[r] = "waiting" /\ reply[r] # None
  /\ Tell(r, s)
  /\ UNCHANGED <<mode, trusted, request, remote>>

\* The access token of a register, login or refresh reaches a client.
DeliverAuth(r) ==
  /\ route[r] \in AuthRoutes
  /\ Deliver(r, reply[r])
  /\ known' = IF reply[r] = "ok" /\ route[r] # "revoke" THEN known \cup {who[r]} ELSE known

\* Mutant: a created profile counts as a login.
DeliverUserGrants(r) ==
  /\ route[r] \in UserRoutes
  /\ Deliver(r, reply[r])
  /\ known' = IF reply[r] = "ok" THEN known \cup {who[r]} ELSE known

DeliverUser(r) ==
  /\ route[r] \in UserRoutes
  /\ Deliver(r, reply[r])
  /\ UNCHANGED known

\* The participants of a conversation are checked once more before it is shown.
DeliverChat(r) ==
  /\ route[r] \in ChatRoutes
  /\ Deliver(r, IF route[r] = "getConversation" /\ form[r] = "foreign" /\ reply[r] = "ok"
                THEN "403" ELSE reply[r])
  /\ UNCHANGED known

\* Mutant: handleAxiosError reads the status of the response it does not have.
GiveUpAsNotFound(r) ==
  /\ pc[r] = "waiting"
  /\ Tell(r, "404")
  /\ UNCHANGED <<mode, trusted, request, remote, known>>

\* Mutant: axios.create without a timeout; only a dead service breaks the wait.
GiveUpUntimed(r) ==
  /\ pc[r] = "waiting" /\ at[r] = "over"
  /\ Tell(r, "500")
  /\ UNCHANGED <<mode, trusted, request, remote, known>>

\* No response: the 5 s are over, or the connection was refused or reset.  An
\* answer may be on its way and the service may still be at work.
GiveUp(r) ==
  /\ pc[r] = "waiting"
  /\ Tell(r, "500")
  /\ UNCHANGED <<mode, trusted, request, remote, known>>

\* SIGTERM: server.close accepts no more connections, closes the idle ones and
\* waits for the requests of the others.
Shutdown ==
  /\ mode = "up"
  /\ mode' = "draining"
  /\ UNCHANGED <<trusted, request, pc, told, remote, known>>

\* Mutant: server.close waits until every service is done too.
ExitDrained ==
  /\ mode = "draining"
  /\ \A r \in Req : pc[r] # "waiting" /\ at[r] \notin {"sent", "inside"}
  /\ mode' = "down"
  /\ UNCHANGED <<trusted, request, pc, told, remote, known>>

Exit ==
  /\ mode = "draining"
  /\ \A r \in Req : pc[r] # "waiting"
  /\ mode' = "down"
  /\ UNCHANGED <<trusted, request, pc, told, remote, known>>

Crash ==
  /\ mode # "down"
  /\ mode' = "down"
  /\ pc' = [r \in Req |-> IF pc[r] = "waiting" THEN "done" ELSE pc[r]]
  /\ told' = [r \in Req |-> IF pc[r] = "waiting" THEN "lost" ELSE told[r]]
  /\ UNCHANGED <<trusted, request, remote, known>>

Start ==
  /\ mode = "down"
  /\ mode' = "up"
  /\ UNCHANGED <<trusted, request, pc, told, remote, known>>

-----------------------------------------------------------------------------
(* The edge of a service                                                   *)

Answer(r, s) ==
  /\ at' = [at EXCEPT ![r] = "over"]
  /\ reply' = [reply EXCEPT ![r] = s]

\* The services compare the internal token first.
Untrusted(r) == ServiceOf(route[r]) \notin trusted

\* Mutant: one call of chat-proxy without its x-user-id header.
InnerVerdictHeaderless(r) ==
  CASE Untrusted(r) -> "401"
    [] route[r] = "listConversations" -> "401"
    [] form[r] = "empty" -> "400"
    [] OTHER -> None

\* Then comes the user context of the chat routes.  An empty refresh token
\* passes both schemas and is refused by the controller; the schemas of gateway
\* and services are otherwise the same.
InnerVerdict(r) ==
  CASE Untrusted(r) -> "401"
    [] route[r] \in ChatRoutes /\ who[r] = None -> "401"
    [] form[r] = "empty" -> "400"
    [] OTHER -> None

Admit(r) ==
  /\ at[r] = "sent"
  /\ IF InnerVerdict(r) # None
     THEN Answer(r, InnerVerdict(r))
     ELSE at' = [at EXCEPT ![r] = "inside"] /\ UNCHANGED reply
  /\ UNCHANGED <<mode, trusted, request, pc, told, applied, known>>

\* The service carries the request out.
Perform(r) ==
  /\ at[r] = "inside" /\ r \notin applied
  /\ applied' = applied \cup {r}
  /\ UNCHANGED <<mode, trusted, request, pc, told, at, reply, known>>

\* Nobody logs in or refreshes for an account that is not there.
PerformAuth(r) ==
  /\ route[r] \in AuthRoutes
  /\ route[r] \in {"login", "refresh"} => who[r] \in Accounts
  /\ Perform(r)

\* The four queries of user-service.
PerformUser(r) == route[r] \in UserRoutes /\ Perform(r)

\* chat-service serves participants only.
PerformChat(r) == route[r] \in ChatRoutes /\ form[r] # "foreign" /\ Perform(r)

\* How a service may refuse a request of route o and form f.
AuthRefusals(o) == CASE o = "register" -> {"409"} [] o = "revoke" -> {} [] OTHER -> {"401"}
UserRefusals(o) == CASE o = "getUser" -> {"404"} [] o = "createUser" -> {"409"} [] OTHER -> {}
ChatRefusals(o, f) ==
  CASE f = "foreign" -> {"403"} [] f # "foreign" /\ o \in OneConversation -> {"404"} [] OTHER -> {}

Refusals(r) ==
  CASE route[r] \in AuthRoutes -> AuthRefusals(route[r])
    [] route[r] \in UserRoutes -> UserRefusals(route[r])
    [] OTHER -> ChatRefusals(route[r], form[r])

\* Its handler ends: done, refused, or failed before or after the change.
Finish(r) ==
  /\ at[r] = "inside"
  /\ \/ r \in applied /\ Answer(r, "ok")
     \/ r \notin applied /\ \E s \in Refusals(r) : Answer(r, s)
     \/ Answer(r, "500")
  /\ UNCHANGED <<mode, trusted, request, pc, told, applied, known>>

\* A service dies with all it was doing.
ServiceCrash(s) ==
  /\ \E r \in Req : at[r] = "inside" /\ ServiceOf(route[r]) = s
  /\ at' = [r \in Req |-> IF at[r] = "inside" /\ ServiceOf(route[r]) = s THEN "over" ELSE at[r]]
  /\ UNCHANGED <<mode, trusted, request, pc, told, applied, reply, known>>

Next ==
  \/ \E r \in Req : \/ ReceiveAuth(r) \/ ReceiveUser(r) \/ ReceiveChat(r)
                    \/ DeliverAuth(r) \/ DeliverUser(r) \/ DeliverChat(r) \/ GiveUp(r)
                    \/ Admit(r) \/ PerformAuth(r) \/ PerformUser(r) \/ PerformChat(r)
                    \/ Finish(r)
  \/ Shutdown \/ Exit \/ Crash \/ Start
  \/ \E s \in Service : ServiceCrash(s)

Spec == Init /\ [][Next]_vars

\* The timer of a proxied call fires and server.close calls back.  Nothing is
\* assumed of the services: they may hang for ever.
FairSpec == Spec /\ (\A r \in Req : WF_vars(GiveUp(r))) /\ WF_vars(Exit)
-----------------------------------------------------------------------------
(* Properties                                                              *)

\* What a client may conclude from its answer, however late the service acts
\* and whichever side dies: 2xx means carried out, 4xx means not carried out
\* and never to be, so only a 500 or a lost connection leaves it in doubt.
Outcome(s) ==
  CASE s = None -> None
    [] s = "ok" -> "done"
    [] s \in {"500", "lost"} -> "unknown"
    [] OTHER -> "refused"

Client == INSTANCE RemoteCall WITH
  Call <- Req,
  asked <- {r \in Req : pc[r] # "idle"},
  answer <- [r \in Req |-> Outcome(told[r])]
ImplementsRemoteCall == Client!Spec

\* Across the services: whatever user-service or chat-service carries out on a
\* protected route is done for an account that auth-service has committed, though
\* neither of them ever asks auth-service.
ActsForAccount ==
  \A r \in applied : route[r] \in Protected => who[r] \in Accounts

\* A client that holds a valid access token is told 401 only when gateway and
\* service were started with different internal tokens: refreshing or logging
\* in again is then no use.
UnauthorizedIsExplained ==
  \A r \in Req :
    /\ told[r] = "401" /\ route[r] \in Protected
    /\ who[r] # None
    => ServiceOf(route[r]) \notin trusted

\* A hanging service holds no client for ever.
EveryCallIsAnswered == \A r \in Req : pc[r] = "waiting" ~> pc[r] = "done"

\* A shutdown of the gateway ends although it waits for its proxied calls, also
\* for those that come in over busy connections meanwhile.
DrainEnds == mode = "draining" ~> mode = "down"
=============================================================================
