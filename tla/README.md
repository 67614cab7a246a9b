# TLA+ for the chat platform

Specifications, model-checking runs and machine-checked proofs for the four
services of this repository (gateway, auth, user, chat). Paths below are
relative to the repository; `auth-service/…` stands for
`services/auth-service/src/…`, and so on.

    tlc -workers 2 -config AuthSafety.cfg MCAuthService.tla     # a run
    tlapm AuthServiceProofs.tla                                  # a proof module

## 1. The system

| component | state it keeps | operations |
|---|---|---|
| gateway-service | none beyond its running requests | verifies the access token, validates, proxies to the others with a 5 s timeout, maps their answers; start, SIGTERM drain |
| auth-service | MySQL: `user_credentials` (unique e-mail), `refresh_tokens`; in memory: the AMQP channel, the connection pool | register, login, refresh, revoke; publish `user.registered`; start, SIGTERM shutdown |
| user-service | Postgres: `users` (unique e-mail); in memory: publisher channel, consumer connection | consume `user.registered` (upsert), POST /users, reads; publish `user.created`; start |
| chat-service | MongoDB: `users`, `conversations`, `messages`; Redis: `conversation:<id>` for 60 s | consume `user.created` (upsert); create/get/list conversations, send/list messages |
| RabbitMQ | durable queues `auth-service.auth-events`, `chat-service.user-events` | at-least-once delivery, no dead-letter exchange, no publisher confirms |
| packages/common | none | env, errors, validation, internal token |

How they interact: a client's request goes through the gateway to one service
over HTTP. A registration commits in MySQL, is announced on RabbitMQ, becomes a
profile in Postgres, is announced again and becomes a chat user in MongoDB.
Inside chat-service MongoDB and Redis are kept together by cache-aside (read:
cache, else MongoDB and fill; write: MongoDB, then delete the entry).

What is hard here:

- every `await` of a Node handler lets any other request run: find-then-insert in
  `register`, lookup-destroy-create in `refreshTokens`, update-then-delete in
  `touchConversation`;
- two stores or a store and a broker are written without a common transaction,
  so each crash and failed statement between the two shows;
- events are acknowledged, redelivered, rejected without requeue, published
  without being awaited, and lost when a channel is null;
- a shutdown closes the pool and the publisher under running requests, and waits
  for a broker that need not answer;
- connections break, and some close handlers only forget the connection;
- the gateway stops waiting after 5 s while the service goes on, so an answer may
  come too late and a change may be made after its client was told 500;
- a message is stamped before it is stored and its conversation touched after
  that, so overlapping sends have three different orders.

What makes each part correct (in the names of section 4): accounts and first
tokens appear together and e-mails are unique (`ImplementsLedger`,
`EmailUnique`, `TokensAreBacked`); a token is used up once it is dead
(`RotationLeavesNoParent`, `UnauthorizedIsFinal`, `DeadTokenIsRefused`); who is
signed out stays so until the next sign-in (`SignedOutStays`); an account is
announced after its commit, once or never (`ImplementsEvents`); what is committed
travels on, what is acknowledged is stored, and the three databases only ever
follow each other (`RegisteredIsOnItsWay`, `AckedIsStored`, `AckedIsOnItsWay`,
`SyncedIsReplicated`, `ImplementsDirectory`); only participants see a conversation (`MembersOnly`); the
two chat stores agree, and the cache lags for named reasons only (`StoresAgree`,
`StaleHasCause`); what a reader's cursor skips has a cause and nothing comes
twice (`SkippedHasCause`, `NeverTwice`); an answer means the same to a client
everywhere: 2xx made, 4xx not made and never to be, anything else unknown
(`ImplementsRemoteCall`), nobody waits for ever (`EveryCallIsAnswered`), and what
is done on a protected route is done for a committed account (`ActsForAccount`).

`PROJECT.json` lists every component, the hazards at their lines, and which
property covers which hazard.

## 2. The modules

| module | models | proofs |
|---|---|---|
| `TokenLedger` | abstract: accounts and the life of refresh tokens, no requests, no database | used by `AuthServiceProofs` |
| `RegistrationEvents` | abstract: accounts and the announcement each gets once or never; implemented by `AuthService` | `RegistrationEventsProofs` |
| `Directory` | abstract: `RegistrationEvents` with profiles and chat users, no queue, process or fault; implemented by `UserSync` | `DirectoryProofs` |
| `RemoteCall` | abstract: what an answer to a call means, at most once; implemented by `AuthService`, `ChatService` and `Gateway` | `RemoteCallProofs` |
| `AuthService` | auth-service: its four handlers, the process and the publisher's channel | `AuthServiceProofs` |
| `UserSync` | registration event → profile → user event → chat user, over three processes and two queues | `UserSyncProofs` |
| `ChatService` | chat-service's HTTP side over MongoDB and Redis | `ChatServiceProofs` |
| `MessageFeed` | the messages of one conversation: order of sends, pages, cursor, what the conversation shows | `MessageFeedProofs` |
| `Gateway` | gateway-service and the edges of the services behind it | `GatewayProofs` |
| `MCAuthService`, `MCUserSync`, `MCChatService`, `MCMessageFeed`, `MCGateway` | symmetry sets for TLC (`MCGateway` needs none) | |

Each component module ends with its properties. The operators marked "Mutant" are
plausible mistakes in the code (a dropped guard, a missing await, a swapped
order); putting one in place of the definition it stands before must break the
property named in `PROJECT.json`. They are not part of any `Next`.

### AuthService

One action per `await`; what runs between two awaits is part of the action
before it. `pc[r]` says which await request `r` is suspended at, `arg[r]` the
value it works with (an e-mail; after a login's password check the credential's
id; a token; a user id). Random identifiers are named after the request that
generates them: registration `r` creates user `r` and token `r`.

| action | code (`auth-service/services/auth.service.ts` unless named) |
|---|---|
| `Arrive`, `PoolOpen`, `Request` | the handlers of `controllers/auth.controller.ts`; `closeDatabase` in `db/sequelize.ts` |
| `RegisterFind/Begin/Insert/Token/Commit` | 20-26, 28-30, 31-38, 40, 42 |
| `RegisterCommitFails`, `RegisterRollback` | catch block 64-67 |
| `RegisterFinish` | 44-63 with `publishUserRegistered` (`messaging/event-publishing.ts` 41-64) |
| `LoginCheck`, `IssueToken` | 70-81, `createRefreshToken` 131-147 |
| `RefreshFind/Expire/Destroy`, `IssueToken` | 95-116, 106-109, 118, 119 |
| `Revoke` | 127-129 |
| `StatementFails` | any rejected await outside the transaction |
| `Shutdown`, `PublisherClosed`, `StopListening`, `Exit`, `Restart` | `index.ts` 9-42, `closePublisher` 66-81, `db/sequelize.ts` |
| `ConnectionLost`, `Crash`, `Expire` | broker, container runtime, 30 days |

An uncommitted transaction is visible to others only through InnoDB's unique
index: `RegisterInsert` waits while another open transaction holds the e-mail.
A statement may fail before its effect (`StatementFails`), or after it with the
acknowledgement lost (the `Answer(r, "500")` alternatives). Once a shutdown has
begun, a statement that is under way keeps its connection and completes or fails;
the next one of the handler, or the first one of a new request (`"refused"`), gets
none and the handler answers 500 (`Request`). A transaction keeps the connection
it has.

The publisher's `channel` is `"open"`; `"closing"` while `ch.close()` is awaited;
`"leaving"` while `closePublisher` waits for something else, the connection's
close or an answer that a dropped connection will not bring any more; `"null"`
when nothing is left to close. `PublisherClosed` may happen at either wait and
need not: neither has a timeout, so the shutdown may hang there. Access tokens,
password hashes and display names are left out: nothing branches on them once
the check has been made. An answer may not reach the client (`Grant`): that is
the gateway's timeout. `SignedOut(u)` says that user `u` has no row and no
refresh between its lookup and its insert; `SignedOutStays` is the strongest form
of "log out" that holds, `auth_revoked_has_no_heir` shows what is missing.

### UserSync

Messages are named after their user, since no service changes a user's e-mail or
name: all copies of an event are equal. Neither consumer sets a prefetch, so
handlers overlap and a queue is a bag: `evt[u]` is the one `user.registered` of
`u`, `ready[u]`/`unacked[u]` count the copies of `user.created`. Taking a message
and running its upsert are one step. An upsert or insert that fails may still have
been applied, its acknowledgement lost (`SyncFails`, `StoreFails`, `CreateUser`).
A service that lost its consumer connection is `"deaf"`: up, but consuming
nothing, until it dies of a message it was handling or of a crash. `Fault(kind)` bounds how often the
surroundings misbehave and which kinds an instance allows.

| action | code |
|---|---|
| `Commit`, `CommitUnheard`, `Publish` | auth-service, as above; `CommitUnheard` is a commit whose acknowledgement is lost (`auth.service.ts` 42, 64-67) |
| `AuthConnectionLost` | the publisher's close handler, `event-publishing.ts` 29-36 |
| `Sync`, `SyncConflict`, `SyncFails` | `user-service/messaging/auth-consumer.ts` 35-72, `repositories/user.repositories.ts` 60-73 |
| `Finish`, `FinishUnheard`, `FinishDeaf` | `services/user.service.ts` 62-73, ack/nack in the consumer |
| `CreateUser` | `services/user.service.ts` 25-44 |
| `PublishCreated`, `ReconnectFails`, `UserPublisherLost` | `messaging/event-publisher.ts` 17-46, 77-106 |
| `UserConsumerLost` | close handler, `auth-consumer.ts` 77-83 |
| `Store`, `StoreFails`, `Ack`, `AckDeaf`, `ChatConsumerLost` | `chat-service/messaging/rabbitmq.consumer.ts` 28-66, `repositories/user.repository.ts` 22-37 |
| `AuthCrash`, `UserCrash`, `ChatCrash`, `UserStart`, `ChatStart` | the three `index.ts` |

### ChatService

`pc[r]` as above; `copy[r]` is the conversation object `getConversationById`
holds between reading and caching it. Conversation and message ids are named
after the creating request. Of a document only what changes is kept: the
message its `lastMessageAt` comes from (`Empty` before the first). `raced` is a
history variable: the conversations whose cache entry may be outdated because a
fill overlapped a touch or a delete never happened. Deleting the entry, or its
expiry, ends that (`Uncache`), unless a handler is still about to write an outdated
copy (`StaleFillPending`).

| action | code (`chat-service/…`) |
|---|---|
| `ArriveCreate`, `InsertConversation`, `Fill` | `conversation.controller.ts` 18-32, `conversation.service.ts` 13-17 |
| `Lookup`, `Find`, `Fill`, then `Proceed` | `conversation.service.ts` 19-32, the participant checks of `message.service.ts` and the controller |
| `InsertMessage`, `Touch`, `Drop`/`DropFails` | `message.service.ts` 21-22, `touchConversation` 38-41 |
| `ReadMessages` | `message.repository.ts` 45-66 (the page's contents are in `MessageFeed`) |
| `StatementFails`, `Crash`, `Expire` | a rejected await, the process, the 60 s |

### MessageFeed

One conversation, seen by a reader at chat-service (`"chat"`) and one behind the
gateway (`"gateway"`). Authorization, cache and answers are `ChatService`'s. Time
is a clock that may stand still, so messages may share a millisecond. `before` is
a history variable: which sends were over, answered or failed, when one began. The
conversation keeps the message it was last touched for (`last`), not the stamps
of its `lastMessageAt`.

| action | code |
|---|---|
| `Begin`, `Stamp`, `Insert`, `Touch`, `Fails` | `chat-service/services/message.service.ts` 13-25, `repositories/message.repository.ts` 27-43, `repositories/conversation.repository.ts` 67-77 |
| `List` (`LaterThan`, `NewestOf`) | `message.repository.ts` 45-66: `$gt`, newest first, `limit`; equal stamps in any order |
| `ListViaGateway` | `gateway-service/controllers/conversation.controller.ts` 60-66, which forwards `{}` |
| `Show` | `gateway-service/services/chat-proxy.service.ts` 149-166, and the client that follows its cursor |

### Gateway

`pc[r]`/`told[r]` are a request at the gateway, `at[r]`/`reply[r]` the same request
at its service; the two go separate ways when the gateway gives up. A request is
its route, its form (well-formed, refused by its schema, unparsable, ...) and the
account it acts for (`who`). An unparsable body is answered 500 by the body parser
(`app.ts` 18), before the token is looked at. After SIGTERM requests still come in
over busy keep-alive connections (`Enter`). `trusted` is chosen once: which services were started with the
gateway's internal token. What a service does inside is one step, `Perform`,
before or without the answer; what that step is belongs to the other modules.

| action | code (`gateway-service/…`) |
|---|---|
| `ReceiveAuth/User/Chat` (`Verdict`, `Invalid`, `FormsOf`) | the routers, `middleware/require-auth.ts`, `packages/common/…/validate-request.ts`, the handlers up to their proxied call |
| `DeliverAuth/User/Chat` | `services/*-proxy.service.ts`: a response; its error status is passed on |
| `GiveUp` | `handleAxiosError` without a response: 5 s, refused, reset |
| `Shutdown`, `Exit`, `Crash`, `Start` | `index.ts` 6-34 |
| `Admit` (`InnerVerdict`) | `packages/common/…/internal-auth.ts`, `chat-service/middleware/authenticated-user.ts`, the empty-token check of auth-service |
| `PerformAuth/User/Chat`, `Finish`, `Refusals` | the services' controllers and their refusals |
| `ServiceCrash` | a service dies with what it was doing |

### RemoteCall and how the modules fit together

`RemoteCall` has calls, which of them have been carried out, and what each caller
was told (some on the spot, with the call: a refusal, or a 500). `Gateway` implements it for its clients (`Client`), whatever the
services do as long as they answer truthfully: `Finish` answers `ok` only after
`Perform` and refuses only without it. That assumption is what `AuthService` and
`ChatService` discharge for the requests that make something (`Caller` there:
a token row for register, login and refresh; a message or a conversation for the
writes of chat-service). So the three refinements together say that an answer
keeps its meaning from MySQL or MongoDB to the client. Revocations only remove
and user-service's POST is one statement; `UserSync` covers what follows from it.

`RegistrationEvents` is the interface between `AuthService` and `UserSync`: an
account is opened under an e-mail of its own, and announced afterwards once or
never. `AuthService` implements it with all its requests, transactions and
shutdowns (`ImplementsEvents`: accounts are the committed e-mails, waiting are the
handlers past their commit). `UserSync` has only the outcome of that, `Commit`,
`CommitUnheard`, `Publish` and two ways to lose an event, and implements
`Directory` (`ImplementsDirectory`), which extends `RegistrationEvents` with the
profiles that follow announcements and the chat users that follow profiles. So
the part of auth-service that `UserSync` plays permits nothing but what
`RegistrationEvents` says, and everything in `Directory` that follows from that
(what is lost is lost for good, nothing stored is taken back) holds of the three
services together.

What an abstract specification promises is proved once, in its own proof module,
and inherited: a proof module of an implementing component instantiates that
module under its refinement mapping (`Told`, `Announcer`, `Promise`) and cites its
theorems, whose hypothesis is the refinement just proved.

## 3. What the models assume of the libraries

- MySQL: a commit is atomic, the unique index blocks and refuses duplicates, the
  server discards the transaction of a lost connection.
- Sequelize 6: `close()` lets statements under way and open transactions keep the
  connection they have, refuses new acquisitions, and ends when all have been given
  back; `rollback()` of a finished transaction throws;
  `upsert` on Postgres is `ON CONFLICT (id)`, so another row's e-mail still
  raises a unique violation.
- amqplib: `publish`, `ack` and `nack` on a closing or closed channel throw; what
  was written to a socket that breaks is lost; `close()` waits for the broker's
  answer without a timeout, and may wait for ever when the connection drops first.
- MongoDB, Postgres: a statement whose acknowledgement is lost was applied before
  its handler learns of the failure, or never is.
- Node: an unhandled rejection ends the process; `server.close` also closes idle
  keep-alive connections, so only running requests, and those that follow on their
  connections, hold it up.
- Deployment: one replica of each service, restarted when it dies; the gateway is
  started when the services are healthy, so both queues are bound before the
  first registration.

## 4. The runs

| run | instance | shows |
|---|---|---|
| `auth_safety` | 4 requests, 2 e-mails | type, four invariants, that signed out stays signed out, and that `AuthService` implements `TokenLedger` and `RegistrationEvents` |
| `auth_liveness` | 3 requests, 1 e-mail, `FairSpec` | every request is answered, a shutdown ends once the publisher is closed, dead tokens are refused, `RemoteCall` |
| `sync_safety` | 3 users, 2 e-mails, any 4 faults of 12 kinds | acknowledged means stored, chat never leads user-service, and that `UserSync` implements `Directory` |
| `sync_liveness` | 2 users, any 4 of: a crash or a lost consumer of either service, POST /users; `FairSpec` | redelivery forgets, loses and drops nothing; everyone is settled and replicated unless a service stays deaf |
| `chat_safety` | 3 requests, 3 users | authorization, agreement of the stores, why the cache may lag, `RemoteCall` |
| `feed_safety` | 4 messages, pages of 2, 2 clock values | sends in sequence are shown in sequence, no message twice, why one may be skipped |
| `gateway_safety` | 2 requests on any of 13 routes, 3 services, `FairSpec` | who is acted for, what a 401 and any other answer means, every call is answered, a drain ends |
| `auth_rotated_once` | violated | two overlapping refreshes of one token both get a new one |
| `auth_revoked_has_no_heir` | violated | a refresh that overlaps a revocation survives it |
| `sync_auth_crash` | violated | a crash between commit and publish loses the registration's event |
| `sync_deaf_consumer` | violated | after its connection closes the consumer stays up and deaf |
| `feed_cursor` | violated | through the gateway the second page is the first one again |

The five violated runs state what the README or ARCHITECTURE.md says and what the
code does not do; `PROJECT.json` quotes the sentences.

Bounds and why they are enough. The races of auth-service involve a token's
origin (a registration or login) and at most two requests that compete for it,
with a third party that revokes: four requests contain every such pattern, and
two e-mails let registrations collide or not. Liveness needs two competing
registrations and one that follows; symmetry is not sound there and is not used
(in `auth_safety`, `sync_safety`, `chat_safety` and `feed_safety` it is: none of the abstract specifications has
a liveness part, and each treats all users and e-mails alike).
In `UserSync` three users and two e-mails give a conflict and an unaffected
user; four faults allow a crash, its repetition during recovery, and a fault of
another service. In `sync_liveness` four faults lose both consumers and end both
processes, or give an e-mail away between crashes; the properties exclude a
service that is deaf from some moment on, and nothing else. In `ChatService` three requests are the creator and two that
race, or the creator, a sender and a reader; three users are two participants
and an outsider. In `MessageFeed` four messages fill two pages of two, or overflow
one; with two clock values they are stamped apart or together. In `Gateway` two
requests are a registration and what its account does next, or two calls that
cross at services that die; services meet only through accounts, so a third
request adds no new pattern. Deadlock checking is off in the sync, chat and feed
runs, where nothing is left to do once all requests, registrations or sends are
over; it stays on for the gateway, which can always be stopped and started.

## 5. Fairness

- `AuthService!FairSpec`: weak fairness of each handler (a statement returns or
  fails, the event loop resumes the handler) and of the two ends of a shutdown,
  `StopListening` and `Exit` (the pool is drained, `server.close` calls back). Nothing is
  assumed of the broker: `PublisherClosed` may never happen, which is why
  `ShutdownEnds` begins once the publisher is closed. Requests, crashes, restarts
  and SIGTERM are never forced. (A busy keep-alive connection to auth-service that carries
  further requests after `server.close` is left out: pool and publisher are
  closed by then, such a request ends with 500.)
- `UserSync!FairSpec`: weak fairness of each delivery and each handler, and of
  the restart of a dead process (`restart: unless-stopped`). Registrations and
  faults are never forced; faults are finite (`MaxFaults`).
- `Gateway!FairSpec`: weak fairness of `GiveUp` (axios' timer fires) and of `Exit`
  (`server.close` calls back once no request runs). Nothing is assumed of the
  services: they may hang for ever. The requests of an instance are finite:
  `DrainEnds` does not speak of a connection that keeps sending for ever.
- `ChatService` and `MessageFeed` state safety only and assume none.

## 6. What is proved

All theorems hold for every value of the constants. Assumptions: distinct kinds
of values do not overlap (`NoneIsFresh`, `ReqIsNotEmail`, `NoneNotEmail`,
`FreshValues`, `NoneIsNew`, `NoneIsNoOutcome`), `MaxFaults` is a natural number, `Faults` are known
kinds, a conversation has finitely many messages and a page at least one. Each
module follows one argument: an inductive invariant `IndInv`, `Init => IndInv`,
`IndInv /\ [Next]_vars => IndInv'` with one step per action, and the properties
as conjuncts of `IndInv`.

- `AuthServiceProofs`. The five invariants of `auth_safety` are not inductive:
  `IndInv` adds which route a handler is on at each await (`Control`), that an
  identifier is unused until its request mints it (`Fresh`), that a transaction
  past its insert owns its e-mail (`Locks`), that every row and held token has a
  committed owner (`Backed`), and that a refresh that has destroyed its row
  finds it gone for ever (`Consumed`). From it follow the refinement of
  `TokenLedger` (`Refinement`), what the ledger promises (`TokensStayDead`) and
  `DeadTokensRefused`.
  - `EventsRefinement`: every step is a step of `RegistrationEvents` or none; the
    commit opens the account and makes its handler the one that may announce it, a
    closing or null channel and a crash only forget. Hence `AnnouncedAreCommitted` and
    `NothingReplays`.
  - `SignedOutForGood` (an action property) rests on three lemmas about one step:
    owners never change (`OwnersStay`), only a sign-in or a refresh of the same
    user adds a row (`RowsNeedSignIn`), and a refresh gets past its lookup only
    with a row (`RefreshesNeedRow`). `RevocationSignsOut` says when a revocation
    reaches that state: when no refresh of its user is between lookup and insert.
- `UserSyncProofs`. `IndInv` joins the safety properties with what links an
  event's place to the stores and, for each way an event can be lost, the fault
  that must have been allowed (`LossHasCause`); all faults are covered, with no
  bound on how many. `AtLeastOnce`, `DropsHaveACause` and `NothingIsForgotten`
  name the faults they exclude. `NothingIsLostOnTheWay` joins the three hops: with
  the faults of `Survivable` only, a registration is a chat user, on its way, or
  has lost its e-mail to another profile, at any moment. (Excluding fewer faults
  makes it false: TLC finds the lost event when `userPublisher` is added.)
  `Refinement` maps each step to one of `Directory`: an upsert, however often
  delivered, to `SyncProfile`, a loss before the queue to `Forget`, everything
  else about queues, channels and processes to a stutter. `EmailsAgree`,
  `StoresOnlyGrow` and `LostForGood` are inherited through it.
- `RegistrationEventsProofs`, `DirectoryProofs`. The promises of the two abstract
  specifications. Their hypothesis `NoneIsNoEmail` (None is no e-mail) is discharged
  where they are inherited, from `NoneIsFresh` and `NoneNotEmail`.
  `DirectoryIsEvents` proves that `Directory` adds nothing to auth-service's part.
- `ChatServiceProofs`. `IndInv` adds, besides control and identity, that a
  handler past the participant check acts for a participant on an existing
  conversation (`Handlers`), when a message is stored (`Stored`), and that a
  pending fill holds the current document unless a touch overtook it
  (`FillFresh`), which is what makes `StaleHasCause` inductive, also over the steps
  that clear `raced`.
- `RemoteCallProofs`. What the abstract specification promises: answers are true
  (`AnswersTrue`) and refusals last (`RefusalsLast`). Through the refinements of
  `AuthService` (`AnswersMean`), `ChatService` and `Gateway` (`Refinement`) each of
  the three inherits both, as `AnswersAreTrue` and `RefusedForGood`. In each, `IndInv` says which handlers have already made
  their change at each await and what may still answer; a step then maps to one
  action of `RemoteCall` or to none, a crash to `GiveUp` of all its callers.
- `GatewayProofs`. `IndInv` says how far the two sides of a request may be apart,
  that a reply agrees with `applied`, that a held access token belongs to a
  committed account, and why a request was refused with 401.
- `MessageFeedProofs`. `IndInv` adds that a send's predecessors are over
  (`BeforeIsOver`), that what the reader has got is stored and behind its cursor
  (`SeenIsPassed`) and that a cursor comes from a message it has got
  (`CursorIsSeen`): a message inserted behind the cursor then overlaps that one,
  and a full page provides `Limit` newer ones. `NoRepeats` is an action property. `SkippedForGood` follows from a
  cursor that never goes back: a stamped message behind it, stored since or only
  later, is never shown to that reader.

Every invariant, action property and refinement of a passing run is stated by a
theorem. Only model-checked are the liveness properties (`RequestsFinish`,
`ShutdownEnds`, `RegisteredIsSettled`, `SyncedIsReplicated`, `EveryCallIsAnswered`,
`DrainEnds`), since fairness and ENABLED are outside what the prover handles, and
the five violations. `NothingIsLostOnTheWay` is the safety half of
`RegisteredIsSettled` and `SyncedIsReplicated`: it leaves to TLC that an event on
its way arrives.

## 7. Not modelled, and the plan

Not modelled:

- JWT contents and expiry, password hashing, titles and bodies: nothing that
  matters here branches on them beyond "valid or not".
- Which users a search returns, and the order of the conversation list: pure
  reads of one request.
- The stamps of `lastMessageAt` and `updatedAt`.
- Two `ensureChannel` calls of user-service that reconnect at once. The leaked
  connection's close handler clears the live channel; for the events that is
  what `UserPublisherLost` does at any time, and the next publish reconnects.
  A leaked connection is a resource no modelled behaviour depends on.
- Clients that retry: a retried request is another request, and `RemoteCall` says
  what the first answer tells the client about it. The code has no idempotency
  key, so nothing relates the two.
- `/health`, unknown paths, CORS, logging, environment parsing, Compose,
  Kubernetes and CI files.

Built in this order, each with its proofs: `TokenLedger` and `AuthService`,
`UserSync`, `ChatService`, `RemoteCall`, `Gateway`, `MessageFeed`,
`RegistrationEvents` and `Directory`. Still open: user-service's publisher with its
two variables, `connection` and `channel`, as a module refined by the single
`pubOpen` of `UserSync`, which would show rather than argue that a stale close
handler does nothing that `UserPublisherLost` does not.
