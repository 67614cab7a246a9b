------------------------------- MODULE UserSync -------------------------------
(***************************************************************************)
(* How a registered account becomes a profile and then a chat user:        *)
(*                                                                         *)
(*   auth-service --user.registered--> queue auth-service.auth-events      *)
(*     --> user-service (Postgres) --user.created-->                       *)
(*     queue chat-service.user-events --> chat-service (MongoDB)           *)
(*                                                                         *)
(* Messages are named after the user they are about: neither service ever  *)
(* changes the e-mail or the name of a user, so all copies of an event are *)
(* equal.  Neither consumer sets a prefetch, so the broker hands a message *)
(* out as soon as it is queued and handlers run side by side: a queue is a *)
(* bag, and taking a message and running its database statement are one    *)
(* step (a message taken but not yet applied is redelivered after a crash, *)
(* like a message not taken).  Every service has started once before the   *)
(* gateway accepts a registration, so both durable queues are bound.       *)
(***************************************************************************)
EXTENDS Naturals

CONSTANTS
  User,       \* user ids, generated by auth-service or by POST /users
  Email,
  None,
  Faults,     \* the kinds of fault that may occur
  MaxFaults   \* how many may occur

FaultKinds == {"authCrash", "authConnection", "authDb", "userCrash", "userConsumer",
               "userPublisher", "userDb", "broker", "chatCrash", "chatConsumer",
               "chatDb", "directCreate"}

ASSUME FaultsKnown == Faults \subseteq FaultKinds
ASSUME MaxFaultsNat == MaxFaults \in Nat
ASSUME NoneNotEmail == None \notin Email

VARIABLES
  cred,        \* auth-service: e-mail of the committed credential, or None
  pending,     \* auth-service: committed, publishUserRegistered not yet reached
  authOpen,    \* auth-service: the publisher's channel is not null
  evt,         \* user.registered of each user: where it is
  profile,     \* user-service: e-mail of the profile row, or None
  announcing,  \* user-service: publishUserCreatedEvent called, not yet published
  pubOpen,     \* user-service: the publisher's channel is not null
  userSvc,     \* user-service: down, consuming, or deaf (consumer connection gone)
  ready,       \* ready[u]: copies of user.created in the queue
  unacked,     \* unacked[u]: copies chat-service has applied and not acknowledged
  replica,     \* chat-service: users in MongoDB
  chatSvc,     \* chat-service: down, consuming or deaf
  faults       \* faults so far

authVars == <<cred, pending, authOpen>>
userVars == <<profile, announcing, pubOpen, userSvc>>
chatVars == <<unacked, replica, chatSvc>>
vars == <<cred, pending, authOpen, evt, profile, announcing, pubOpen, userSvc,
          ready, unacked, replica, chatSvc, faults>>

Service == {"down", "consuming", "deaf"}
EventState == {"none", "ready", "stored", "acked", "dropped", "lost"}

TypeOK ==
  /\ cred \in [User -> Email \cup {None}]
  /\ pending \subseteq User
  /\ authOpen \in BOOLEAN
  /\ evt \in [User -> EventState]
  /\ profile \in [User -> Email \cup {None}]
  /\ announcing \subseteq User
  /\ pubOpen \in BOOLEAN
  /\ userSvc \in Service
  /\ ready \in [User -> Nat]
  /\ unacked \in [User -> Nat]
  /\ replica \subseteq User
  /\ chatSvc \in Service
  /\ faults \in Nat

Init ==
  /\ cred = [u \in User |-> None] /\ pending = {} /\ authOpen = TRUE
  /\ evt = [u \in User |-> "none"]
  /\ profile = [u \in User |-> None] /\ announcing = {} /\ pubOpen = TRUE
  /\ userSvc = "consuming"
  /\ ready = [u \in User |-> 0]
  /\ unacked = [u \in User |-> 0] /\ replica = {}
  /\ chatSvc = "consuming"
  /\ faults = 0

\* One of the faults the instance allows.
Fault(kind) ==
  /\ kind \in Faults /\ faults < MaxFaults
  /\ faults' = faults + 1

-----------------------------------------------------------------------------
(* auth-service                                                            *)

\* A credential under a new id: AuthService shows that ids and e-mails are unique.
Register(u, e) ==
  /\ cred[u] = None /\ profile[u] = None
  /\ \A v \in User : cred[v] # e
  /\ cred' = [cred EXCEPT ![u] = e]

\* register up to its commit.
Commit(u, e) ==
  /\ Register(u, e)
  /\ pending' = pending \cup {u}
  /\ UNCHANGED <<authOpen, evt, userVars, ready, chatVars, faults>>

\* The commit is carried out and its acknowledgement lost: the catch block
\* answers 500 and publishUserRegistered is never reached.
CommitUnheard(u, e) ==
  /\ Fault("authDb")
  /\ Register(u, e)
  /\ evt' = [evt EXCEPT ![u] = "lost"]
  /\ UNCHANGED <<pending, authOpen, userVars, ready, chatVars>>

\* publishUserRegistered: a null channel drops the event.
Publish(u) ==
  /\ u \in pending
  /\ pending' = pending \ {u}
  /\ evt' = [evt EXCEPT ![u] = IF authOpen THEN "ready" ELSE "lost"]
  /\ UNCHANGED <<cred, authOpen, userVars, ready, chatVars, faults>>

\* The connection breaks; what had just been written to it is gone, there being
\* no publisher confirms.  The close handler clears the channel for good.
AuthConnectionLost ==
  /\ Fault("authConnection")
  /\ authOpen /\ authOpen' = FALSE
  /\ \E lost \in {{}} \cup {{u} : u \in pending} :
       /\ pending' = pending \ lost
       /\ evt' = [u \in User |-> IF u \in lost THEN "lost" ELSE evt[u]]
  /\ UNCHANGED <<cred, userVars, ready, chatVars>>

\* A crash between commit and publish forgets the event; the restarted process
\* opens a new channel before it serves anyone.
AuthCrash ==
  /\ Fault("authCrash")
  /\ pending' = {}
  /\ evt' = [u \in User |-> IF u \in pending THEN "lost" ELSE evt[u]]
  /\ authOpen' = TRUE
  /\ UNCHANGED <<cred, userVars, ready, chatVars>>

-----------------------------------------------------------------------------
(* user-service                                                            *)

EmailTaken(u, e) == \E v \in User \ {u} : profile[v] = e

\* Mutant: ON CONFLICT (email), so a registration takes over an older profile.
SyncByEmail(u) ==
  /\ userSvc = "consuming" /\ evt[u] = "ready"
  /\ profile' = [v \in User |-> IF v = u THEN cred[u]
                                ELSE IF profile[v] = cred[u] THEN None ELSE profile[v]]
  /\ evt' = [evt EXCEPT ![u] = "stored"]
  /\ UNCHANGED <<authVars, announcing, pubOpen, userSvc, ready, chatVars, faults>>

\* upsertFromAuthEvent: INSERT .. ON CONFLICT (id) DO UPDATE.
Sync(u) ==
  /\ userSvc = "consuming" /\ evt[u] = "ready"
  /\ ~EmailTaken(u, cred[u])
  /\ profile' = [profile EXCEPT ![u] = cred[u]]
  /\ evt' = [evt EXCEPT ![u] = "stored"]
  /\ UNCHANGED <<authVars, announcing, pubOpen, userSvc, ready, chatVars, faults>>

\* Any error is logged and the message rejected without requeue; the queue has
\* no dead-letter exchange.
Reject(u) ==
  /\ userSvc = "consuming" /\ evt[u] = "ready"
  /\ evt' = [evt EXCEPT ![u] = "dropped"]
  /\ UNCHANGED <<authVars, announcing, pubOpen, userSvc, ready, chatVars>>

\* Mutant: INSERT instead of an upsert, so a redelivery is a conflict.
SyncConflictInsert(u) ==
  /\ EmailTaken(u, cred[u]) \/ profile[u] # None
  /\ Reject(u) /\ UNCHANGED <<profile, faults>>

\* Another profile has the e-mail: the unique index refuses the upsert.
SyncConflict(u) ==
  /\ EmailTaken(u, cred[u])
  /\ Reject(u) /\ UNCHANGED <<profile, faults>>

\* The upsert fails, or is carried out and its acknowledgement lost: the consumer
\* throws the message away in either case and user.created is not published.
SyncFails(u) ==
  /\ Fault("userDb")
  /\ Reject(u)
  /\ \/ UNCHANGED profile
     \/ ~EmailTaken(u, cred[u]) /\ profile' = [profile EXCEPT ![u] = cred[u]]

\* publishUserCreatedEvent, called without await: with an open channel it
\* publishes in the same turn of the event loop, else it reconnects first.
Announce(u) ==
  IF pubOpen THEN ready' = [ready EXCEPT ![u] = @ + 1] /\ UNCHANGED announcing
             ELSE announcing' = announcing \cup {u} /\ UNCHANGED ready

\* Mutant: syncFromAuthUser is not awaited.
FinishUnawaited(u) ==
  /\ userSvc = "consuming" /\ evt[u] \in {"ready", "stored"}
  /\ Announce(u)
  /\ evt' = [evt EXCEPT ![u] = "acked"]
  /\ UNCHANGED <<authVars, profile, pubOpen, userSvc, chatVars, faults>>

\* The upsert has returned: announce, acknowledge.
Finish(u) ==
  /\ userSvc = "consuming" /\ evt[u] = "stored"
  /\ Announce(u)
  /\ evt' = [evt EXCEPT ![u] = "acked"]
  /\ UNCHANGED <<authVars, profile, pubOpen, userSvc, chatVars, faults>>

\* The same while the publisher's connection breaks under the event just written.
FinishUnheard(u) ==
  /\ Fault("userPublisher")
  /\ userSvc = "consuming" /\ evt[u] = "stored" /\ pubOpen
  /\ pubOpen' = FALSE
  /\ evt' = [evt EXCEPT ![u] = "acked"]
  /\ UNCHANGED <<authVars, profile, announcing, userSvc, ready, chatVars>>

\* Mutant: consuming with noAck, so the broker has nothing to redeliver.
UserDiesNoAck ==
  /\ userSvc' = "down"
  /\ evt' = [u \in User |-> IF evt[u] = "stored" THEN "acked" ELSE evt[u]]
  /\ announcing' = {}

\* Mutant: an exclusive queue, which is gone with its consumer.
UserDiesExclusive ==
  /\ userSvc' = "down"
  /\ evt' = [u \in User |-> IF evt[u] \in {"ready", "stored"} THEN "dropped" ELSE evt[u]]
  /\ announcing' = {}

\* What a dying user-service leaves: the broker requeues what it had not seen
\* acknowledged, publishes still waiting for a connection are forgotten.
UserDies ==
  /\ userSvc' = "down"
  /\ evt' = [u \in User |-> IF evt[u] = "stored" THEN "ready" ELSE evt[u]]
  /\ announcing' = {}

\* With the consumer's connection gone ack throws, so does the nack of the
\* catch block, and the unhandled rejection ends the process.
FinishDeaf(u) ==
  /\ userSvc = "deaf" /\ evt[u] = "stored"
  /\ UserDies
  /\ ready' \in IF pubOpen THEN {ready, [ready EXCEPT ![u] = @ + 1]} ELSE {ready}
  /\ UNCHANGED <<authVars, profile, pubOpen, chatVars, faults>>

\* Mutant: the event is published whether or not the insert succeeded.
CreateUserAlwaysHeard(u, e) ==
  /\ Fault("directCreate")
  /\ userSvc # "down"
  /\ cred[u] = None /\ profile[u] = None
  /\ profile' = IF EmailTaken(u, e) THEN profile ELSE [profile EXCEPT ![u] = e]
  /\ announcing' = announcing \cup {u}
  /\ UNCHANGED <<authVars, evt, pubOpen, userSvc, ready, chatVars>>

\* POST /users: a profile nobody registered; a taken e-mail is answered 409.  An
\* insert whose acknowledgement is lost is answered 500 and never announced.
CreateUser(u, e) ==
  /\ Fault("directCreate")
  /\ userSvc # "down"
  /\ cred[u] = None /\ profile[u] = None /\ ~EmailTaken(u, e)
  /\ profile' = [profile EXCEPT ![u] = e]
  /\ \/ announcing' = announcing \cup {u}
     \/ "userDb" \in Faults /\ UNCHANGED announcing
  /\ UNCHANGED <<authVars, evt, pubOpen, userSvc, ready, chatVars>>

\* A publish that was waiting gets its channel (ensureChannel reconnects) ...
PublishCreated(u) ==
  /\ u \in announcing
  /\ announcing' = announcing \ {u}
  /\ pubOpen' = TRUE
  /\ ready' = [ready EXCEPT ![u] = @ + 1]
  /\ UNCHANGED <<authVars, evt, profile, userSvc, chatVars, faults>>

\* ... or connect rejects, outside any try block, which ends the process.
ReconnectFails ==
  /\ Fault("broker")
  /\ announcing # {} /\ ~pubOpen
  /\ UserDies
  /\ UNCHANGED <<authVars, profile, pubOpen, ready, chatVars>>

\* The publisher's connection breaks, perhaps under the event of a POST /users.
UserPublisherLost ==
  /\ Fault("userPublisher")
  /\ userSvc # "down" /\ pubOpen
  /\ pubOpen' = FALSE
  /\ announcing' \in {announcing} \cup {announcing \ {u} : u \in announcing}
  /\ UNCHANGED <<authVars, evt, profile, userSvc, ready, chatVars>>

\* The consumer's connection breaks; the close handler only forgets it.
UserConsumerLost ==
  /\ Fault("userConsumer")
  /\ userSvc = "consuming" /\ userSvc' = "deaf"
  /\ UNCHANGED <<authVars, evt, profile, announcing, pubOpen, ready, chatVars>>

\* A crash, or SIGTERM: the shutdown closes neither consumer nor publisher.
UserCrash ==
  /\ Fault("userCrash")
  /\ userSvc # "down"
  /\ UserDies
  /\ UNCHANGED <<authVars, profile, pubOpen, ready, chatVars>>

\* main: database, publisher, consumer.
UserStart ==
  /\ userSvc = "down"
  /\ userSvc' = "consuming" /\ pubOpen' = TRUE
  /\ UNCHANGED <<authVars, evt, profile, announcing, ready, chatVars, faults>>

-----------------------------------------------------------------------------
(* chat-service                                                            *)

\* upsertUser: updateOne with upsert on the user's id.
Store(u) ==
  /\ chatSvc = "consuming" /\ ready[u] > 0
  /\ ready' = [ready EXCEPT ![u] = @ - 1]
  /\ unacked' = [unacked EXCEPT ![u] = @ + 1]
  /\ replica' = replica \cup {u}
  /\ UNCHANGED <<authVars, evt, userVars, chatSvc, faults>>

\* The upsert fails, perhaps after MongoDB has carried it out: rejected without
\* requeue, no dead-letter exchange.
StoreFails(u) ==
  /\ Fault("chatDb")
  /\ chatSvc = "consuming" /\ ready[u] > 0
  /\ ready' = [ready EXCEPT ![u] = @ - 1]
  /\ replica' \in {replica, replica \cup {u}}
  /\ UNCHANGED <<authVars, evt, userVars, unacked, chatSvc>>

\* Mutant: a message is acknowledged twice.
AckAgain(u) ==
  /\ chatSvc = "consuming" /\ u \in replica
  /\ unacked' = [unacked EXCEPT ![u] = @ - 1]
  /\ UNCHANGED <<authVars, evt, userVars, ready, replica, chatSvc, faults>>

Ack(u) ==
  /\ chatSvc = "consuming" /\ unacked[u] > 0
  /\ unacked' = [unacked EXCEPT ![u] = @ - 1]
  /\ UNCHANGED <<authVars, evt, userVars, ready, replica, chatSvc, faults>>

\* Mutant: the queue is deleted with its last consumer.
ChatDiesAutoDelete ==
  /\ chatSvc' = "down"
  /\ ready' = [u \in User |-> 0]
  /\ unacked' = [u \in User |-> 0]

ChatDies ==
  /\ chatSvc' = "down"
  /\ ready' = [u \in User |-> ready[u] + unacked[u]]
  /\ unacked' = [u \in User |-> 0]

AckDeaf(u) ==
  /\ chatSvc = "deaf" /\ unacked[u] > 0
  /\ ChatDies
  /\ UNCHANGED <<authVars, evt, userVars, replica, faults>>

\* The connection is closed in an orderly way: nothing listens, the consumer is
\* gone.  A socket error instead is an unhandled 'error' event: ChatCrash.
ChatConsumerLost ==
  /\ Fault("chatConsumer")
  /\ chatSvc = "consuming" /\ chatSvc' = "deaf"
  /\ UNCHANGED <<authVars, evt, userVars, ready, unacked, replica>>

ChatCrash ==
  /\ Fault("chatCrash")
  /\ chatSvc # "down"
  /\ ChatDies
  /\ UNCHANGED <<authVars, evt, userVars, replica>>

ChatStart ==
  /\ chatSvc = "down" /\ chatSvc' = "consuming"
  /\ UNCHANGED <<authVars, evt, userVars, ready, unacked, replica, faults>>

-----------------------------------------------------------------------------
\* What the event loops and the broker do by themselves for the user u.
Progress(u) ==
  \/ Publish(u)
  \/ Sync(u) \/ SyncConflict(u) \/ Finish(u) \/ FinishDeaf(u) \/ PublishCreated(u)
  \/ Store(u) \/ Ack(u) \/ AckDeaf(u)

FaultOccurs ==
  \/ AuthConnectionLost \/ AuthCrash
  \/ \E u \in User : SyncFails(u) \/ FinishUnheard(u) \/ StoreFails(u)
  \/ \E u \in User, e \in Email : CommitUnheard(u, e) \/ CreateUser(u, e)
  \/ ReconnectFails \/ UserPublisherLost \/ UserConsumerLost \/ UserCrash
  \/ ChatConsumerLost \/ ChatCrash

Next ==
  \/ \E u \in User, e \in Email : Commit(u, e)
  \/ \E u \in User : Progress(u)
  \/ UserStart \/ ChatStart
  \/ FaultOccurs

Spec == Init /\ [][Next]_vars

\* Delivered messages are handled, handlers resume, and the container runtime
\* restarts a dead process (restart: unless-stopped).  No registration and no
\* fault has to happen.
FairSpec ==
  /\ Spec
  /\ \A u \in User : /\ WF_vars(Publish(u))
                     /\ WF_vars(Sync(u) \/ SyncConflict(u))
                     /\ WF_vars(Finish(u) \/ FinishDeaf(u))
                     /\ WF_vars(PublishCreated(u))
                     /\ WF_vars(Store(u)) /\ WF_vars(Ack(u) \/ AckDeaf(u))
  /\ WF_vars(UserStart) /\ WF_vars(ChatStart)

-----------------------------------------------------------------------------
(* Properties                                                              *)

\* user-service acknowledges only what it has stored: redelivery, crashes and
\* lost connections never leave an acknowledged registration without the
\* profile that carries its credential's e-mail.
AckedIsStored ==
  \A u \in User : evt[u] \in {"stored", "acked"} => profile[u] = cred[u] /\ cred[u] # None

\* Chat users are profiles: whatever is in MongoDB, queued for it, or about to
\* be announced has a row in Postgres (events follow the insert, never lead it).
ReplicaIsProfile ==
  \A u \in User :
    u \in replica \cup announcing \/ ready[u] + unacked[u] > 0 => profile[u] # None

\* A registration's event is thrown away only when a profile with another id
\* holds the e-mail, unless the database itself failed: above all, not because
\* it was delivered twice.
DropHasCause ==
  "userDb" \notin Faults =>
    \A u \in User : evt[u] = "dropped" => EmailTaken(u, cred[u])

\* The first hop: a committed registration is never forgotten.  Until its profile
\* is there, or its e-mail is another profile's, the event is still to be
\* published or in the queue, through crashes of user-service and redelivery.
\* The faults left out are the ways to lose it: auth-service's process, channel or
\* commit acknowledgement between commit and publish, and a failing upsert.
RegisteredIsOnItsWay ==
  Faults \cap {"authCrash", "authConnection", "authDb", "userDb"} = {} =>
    \A u \in User : cred[u] # None =>
      u \in pending \/ evt[u] = "ready" \/ profile[u] = cred[u] \/ EmailTaken(u, cred[u])

\* At-least-once across the two queues: user-service acknowledges without
\* waiting for its publish, and still an acknowledged registration is in MongoDB
\* or on its way there, through crashes of both services, as long as the
\* publisher keeps its connection and MongoDB takes the write.
AckedIsOnItsWay ==
  Faults \cap {"userPublisher", "broker", "chatDb"} = {} =>
    \A u \in User : evt[u] = "acked" => u \in replica \/ ready[u] + unacked[u] > 0

\* The implementation of Directory: through faults, redelivery and restarts every
\* step changes accounts, profiles and chat users only as Directory says; nothing
\* stored is taken back and no lost event is replayed.
People == INSTANCE Directory WITH
  account <- cred,
  waiting <- pending,
  announced <- {u \in User : evt[u] \notin {"none", "lost"}}
ImplementsDirectory == People!DirSpec

\* With services that crash but are restarted, every registered account gets its
\* profile, unless POST /users has given its e-mail away before, or user-service
\* stays up for ever without its consumer.  (A consumer lost while a message is
\* being handled ends the process at the ack, and the restart heals it.)
RegisteredIsSettled ==
  \A u \in User :
    cred[u] # None ~> \/ profile[u] = cred[u] \/ EmailTaken(u, cred[u])
                      \/ [](userSvc = "deaf")

\* Every such profile reaches chat-service, unless one of the two services stays
\* deaf: no crash, lost consumer or redelivery in between costs the chat user.
SyncedIsReplicated ==
  \A u \in User :
    cred[u] # None /\ profile[u] = cred[u] ~>
      u \in replica \/ [](userSvc = "deaf") \/ [](chatSvc = "deaf")

\* "user registration events are published by Auth Service and consumed by User
\* Service to sync profile data" (README.md:27).
RegisteredIsSynced ==
  \A u \in User : cred[u] # None ~> profile[u] = cred[u]

\* "RabbitMQ for loose coupling and eventual consistency" (README.md:24).
RegisteredIsReplicated ==
  \A u \in User : cred[u] # None ~> u \in replica
=============================================================================
