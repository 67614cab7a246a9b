--------------------------- MODULE UserSyncProofs ---------------------------
(***************************************************************************)
(* Proofs about UserSync for every set of users and e-mails, every choice  *)
(* of faults and any number of them.                                       *)
(***************************************************************************)
EXTENDS UserSync, TLAPS

\* An event exists once the credential is committed and publish was reached.
Provenance ==
  \A u \in User :
    /\ u \in pending => cred[u] # None /\ evt[u] = "none"
    /\ evt[u] # "none" => cred[u] # None
    /\ evt[u] = "none" /\ cred[u] # None => u \in pending

\* A profile row that has a credential carries its e-mail, and never another.
SameEmail ==
  \A u \in User : profile[u] # None /\ cred[u] # None => profile[u] = cred[u]

\* What chat-service has to acknowledge it has stored.
UnackedIsStored == \A u \in User : unacked[u] > 0 => u \in replica

\* Only the fault of its connection closes user-service's publisher.
PublisherKept == "userPublisher" \notin Faults => pubOpen

\* Only auth-service's process, channel or commit acknowledgement loses an event
\* before it is queued.
LossHasCause ==
  Faults \cap {"authCrash", "authConnection", "authDb"} = {} =>
    authOpen = TRUE /\ \A u \in User : evt[u] # "lost"

IndInv ==
  /\ TypeOK /\ Provenance /\ SameEmail /\ UnackedIsStored /\ PublisherKept
  /\ AckedIsStored /\ ReplicaIsProfile
  /\ DropHasCause /\ AckedIsOnItsWay /\ LossHasCause

-----------------------------------------------------------------------------
\* At start nothing is registered, stored or queued.
LEMMA InitInv == Init => IndInv
BY DEF Init, IndInv, TypeOK, Service, EventState, Provenance, SameEmail, UnackedIsStored, PublisherKept,
   AckedIsStored, ReplicaIsProfile, DropHasCause, AckedIsOnItsWay,
   LossHasCause

\* Every step of a service, and every fault, preserves the invariant.
LEMMA NextInv == IndInv /\ [Next]_vars => IndInv'
<1> SUFFICES ASSUME IndInv, [Next]_vars PROVE IndInv'
  OBVIOUS
<1> USE FaultsKnown, MaxFaultsNat, NoneNotEmail
    DEF IndInv, TypeOK, Service, EventState, Provenance, SameEmail, UnackedIsStored, PublisherKept,
        AckedIsStored, ReplicaIsProfile, DropHasCause, AckedIsOnItsWay,
        LossHasCause, EmailTaken, Fault, FaultKinds, authVars, userVars, chatVars
<1>1. ASSUME NEW u \in User, NEW e \in Email, Commit(u, e) PROVE IndInv'
  BY <1>1 DEF Commit, Register
<1>2. ASSUME NEW u \in User, Publish(u) PROVE IndInv'
  BY <1>2 DEF Publish
<1>3. ASSUME NEW u \in User, Sync(u) PROVE IndInv'
  BY <1>3 DEF Sync
<1>4. ASSUME NEW u \in User, SyncConflict(u) PROVE IndInv'
  BY <1>4 DEF SyncConflict, Reject
<1>5. ASSUME NEW u \in User, SyncFails(u) PROVE IndInv'
  BY <1>5 DEF SyncFails, Reject
<1>6. ASSUME NEW u \in User, Finish(u) PROVE IndInv'
  BY <1>6 DEF Finish, Announce
<1>7. ASSUME NEW u \in User, FinishUnheard(u) PROVE IndInv'
  <2>1. TypeOK'
    <3>1. faults' \in Nat
      BY <1>7 DEF FinishUnheard
    <3>2. pubOpen' = FALSE
      BY <1>7 DEF FinishUnheard
    <3> QED
      BY <1>7, <3>1, <3>2, Zenon DEF FinishUnheard
  <2>2. Provenance'
    BY <1>7 DEF FinishUnheard
  <2>3. SameEmail'
    BY <1>7 DEF FinishUnheard
  <2>4. UnackedIsStored'
    BY <1>7 DEF FinishUnheard
  <2>5. PublisherKept'
    BY <1>7 DEF FinishUnheard
  <2>6. AckedIsStored'
    BY <1>7 DEF FinishUnheard
  <2>7. ReplicaIsProfile'
    BY <1>7 DEF FinishUnheard
  <2>8. DropHasCause'
    BY <1>7 DEF FinishUnheard
  <2>9. AckedIsOnItsWay'
    BY <1>7 DEF FinishUnheard
  <2>10. LossHasCause'
    BY <1>7 DEF FinishUnheard
  <2> QED
    BY <2>1, <2>2, <2>3, <2>4, <2>5, <2>6, <2>7, <2>8, <2>9, <2>10
<1>8. ASSUME NEW u \in User, FinishDeaf(u) PROVE IndInv'
  BY <1>8 DEF FinishDeaf, UserDies
<1>9. ASSUME NEW u \in User, PublishCreated(u) PROVE IndInv'
  BY <1>9 DEF PublishCreated
<1>10. ASSUME NEW u \in User, Store(u) PROVE IndInv'
  BY <1>10 DEF Store
<1>11. ASSUME NEW u \in User, StoreFails(u) PROVE IndInv'
  BY <1>11 DEF StoreFails
<1>12. ASSUME NEW u \in User, Ack(u) PROVE IndInv'
  BY <1>12 DEF Ack
<1>13. ASSUME NEW u \in User, AckDeaf(u) PROVE IndInv'
  BY <1>13 DEF AckDeaf, ChatDies
<1>14. ASSUME NEW u \in User, NEW e \in Email, CreateUser(u, e) PROVE IndInv'
  BY <1>14 DEF CreateUser
<1>15. CASE AuthConnectionLost
  <2>1. TypeOK'
    <3>1. faults' \in Nat
      BY <1>15 DEF AuthConnectionLost
    <3>2. authOpen' \in BOOLEAN
      BY <1>15 DEF AuthConnectionLost
    <3>3. pending' \subseteq User
      BY <1>15 DEF AuthConnectionLost
    <3>4. evt' \in [User -> EventState]
      BY <1>15 DEF AuthConnectionLost
    <3> QED
      BY <1>15, <3>1, <3>2, <3>3, <3>4, Zenon DEF AuthConnectionLost
  <2>2. Provenance'
    BY <1>15 DEF AuthConnectionLost
  <2>3. SameEmail'
    BY <1>15 DEF AuthConnectionLost
  <2>4. UnackedIsStored'
    BY <1>15 DEF AuthConnectionLost
  <2>5. PublisherKept'
    BY <1>15 DEF AuthConnectionLost
  <2>6. AckedIsStored'
    BY <1>15 DEF AuthConnectionLost
  <2>7. ReplicaIsProfile'
    BY <1>15 DEF AuthConnectionLost
  <2>8. DropHasCause'
    BY <1>15 DEF AuthConnectionLost
  <2>9. AckedIsOnItsWay'
    BY <1>15 DEF AuthConnectionLost
  <2>10. LossHasCause'
    BY <1>15 DEF AuthConnectionLost
  <2> QED
    BY <2>1, <2>2, <2>3, <2>4, <2>5, <2>6, <2>7, <2>8, <2>9, <2>10
<1>16. CASE AuthCrash
  BY <1>16 DEF AuthCrash
<1>17. CASE ReconnectFails
  BY <1>17 DEF ReconnectFails, UserDies
<1>18. CASE UserPublisherLost
  <2>1. TypeOK'
    <3>1. faults' \in Nat
      BY <1>18 DEF UserPublisherLost
    <3>2. pubOpen' \in BOOLEAN
      BY <1>18 DEF UserPublisherLost
    <3>3. announcing' \subseteq User
      BY <1>18 DEF UserPublisherLost
    <3> QED
      BY <1>18, <3>1, <3>2, <3>3, Zenon DEF UserPublisherLost
  <2>2. Provenance'
    BY <1>18 DEF UserPublisherLost
  <2>3. SameEmail'
    BY <1>18 DEF UserPublisherLost
  <2>4. UnackedIsStored'
    BY <1>18 DEF UserPublisherLost
  <2>5. PublisherKept'
    BY <1>18 DEF UserPublisherLost
  <2>6. AckedIsStored'
    BY <1>18 DEF UserPublisherLost
  <2>7. ReplicaIsProfile'
    BY <1>18 DEF UserPublisherLost
  <2>8. DropHasCause'
    BY <1>18 DEF UserPublisherLost
  <2>9. AckedIsOnItsWay'
    BY <1>18 DEF UserPublisherLost
  <2>10. LossHasCause'
    BY <1>18 DEF UserPublisherLost
  <2> QED
    BY <2>1, <2>2, <2>3, <2>4, <2>5, <2>6, <2>7, <2>8, <2>9, <2>10
<1>19. CASE UserConsumerLost
  BY <1>19 DEF UserConsumerLost
<1>20. CASE UserCrash
  BY <1>20 DEF UserCrash, UserDies
<1>21. CASE UserStart
  BY <1>21 DEF UserStart
<1>22. CASE ChatConsumerLost
  BY <1>22 DEF ChatConsumerLost
<1>23. CASE ChatCrash
  BY <1>23 DEF ChatCrash, ChatDies
<1>24. CASE ChatStart
  BY <1>24 DEF ChatStart
<1>25. ASSUME NEW u \in User, NEW e \in Email, CommitUnheard(u, e) PROVE IndInv'
  BY <1>25 DEF CommitUnheard, Register
<1>26. CASE UNCHANGED vars
  BY <1>26 DEF vars
<1> QED
  BY <1>1, <1>2, <1>3, <1>4, <1>5, <1>6, <1>7, <1>8, <1>9,
     <1>10, <1>11, <1>12, <1>13, <1>14, <1>15, <1>16, <1>17, <1>18,
     <1>19, <1>20, <1>21, <1>22, <1>23, <1>24, <1>25, <1>26
     DEF Next, Progress, FaultOccurs

-----------------------------------------------------------------------------
\* The conjunction of the properties and what makes them inductive always holds.
THEOREM Invariance == Spec => []IndInv
BY InitInv, NextInv, PTL DEF Spec

\* The variables keep their types, under any faults.
THEOREM TypeCorrect == Spec => []TypeOK
<1>1. IndInv => TypeOK
  BY DEF IndInv
<1> QED
  BY <1>1, Invariance, PTL

\* user-service acknowledges a registration only with its profile stored.
THEOREM AckAfterStore == Spec => []AckedIsStored
<1>1. IndInv => AckedIsStored
  BY DEF IndInv
<1> QED
  BY <1>1, Invariance, PTL

\* chat-service knows nobody user-service does not know.
THEOREM ReplicaFollows == Spec => []ReplicaIsProfile
<1>1. IndInv => ReplicaIsProfile
  BY DEF IndInv
<1> QED
  BY <1>1, Invariance, PTL

\* Redelivery alone never makes user-service throw a registration away.
THEOREM DropsHaveACause == Spec => []DropHasCause
<1>1. IndInv => DropHasCause
  BY DEF IndInv
<1> QED
  BY <1>1, Invariance, PTL

\* No crash of user-service and no redelivery makes a registration disappear
\* between auth-service's commit and the profile.
THEOREM NothingIsForgotten == Spec => []RegisteredIsOnItsWay
<1>1. IndInv => RegisteredIsOnItsWay
  <2> SUFFICES ASSUME IndInv, Faults \cap {"authCrash", "authConnection", "authDb", "userDb"} = {},
                      NEW u \in User, cred[u] # None, u \notin pending, evt[u] # "ready"
               PROVE  profile[u] = cred[u] \/ EmailTaken(u, cred[u])
    BY DEF RegisteredIsOnItsWay
  <2>1. evt[u] \in {"stored", "acked", "dropped"}
    BY DEF IndInv, TypeOK, EventState, Provenance, LossHasCause
  <2> QED
    BY <2>1 DEF IndInv, AckedIsStored, DropHasCause
<1> QED
  BY <1>1, Invariance, PTL

\* No crash of either consumer loses a registration user-service acknowledged.
THEOREM AtLeastOnce == Spec => []AckedIsOnItsWay
<1>1. IndInv => AckedIsOnItsWay
  BY DEF IndInv
<1> QED
  BY <1>1, Invariance, PTL

-----------------------------------------------------------------------------
(* UserSync implements Directory                                           *)

\* The accounts whose user.registered reached the broker, delivered or not.
Announced == {u \in User : evt[u] \notin {"none", "lost"}}

\* A registration's commit opens the account, to be announced or not.
LEMMA RegisterOpens ==
  ASSUME IndInv, NEW u \in User, NEW e \in Email, Commit(u, e) \/ CommitUnheard(u, e)
  PROVE  People!Auth
<1>1. evt[u] = "none" /\ profile[u] = None
  BY DEF Commit, CommitUnheard, Register, IndInv, Provenance
<1>2. Announced' = Announced
  BY <1>1 DEF Commit, CommitUnheard, Announced, IndInv, TypeOK
<1>3. People!Open(u, e)
  BY <1>2 DEF Commit, CommitUnheard, Register, People!Open, Announced
<1> QED
  BY <1>1, <1>3 DEF Commit, CommitUnheard, Register, People!Auth, userVars, chatVars

\* Events that are lost before they reach the broker are forgotten.
LEMMA LossForgets ==
  ASSUME IndInv, NEW U \in SUBSET pending, UNCHANGED <<cred, profile, replica>>,
         pending' = pending \ U,
         evt' = [u \in User |-> IF u \in U THEN "lost" ELSE evt[u]]
  PROVE  [People!DirNext]_(People!dirVars)
<1>1. Announced' = Announced
  BY DEF Announced, IndInv, TypeOK, Provenance
<1>2. CASE U = {}
  <2>1. pending' = pending
    BY <1>2
  <2> QED
    BY <1>1, <2>1 DEF People!dirVars, Announced
<1>3. CASE U # {}
  <2>1. People!Forget(U)
    BY <1>1, <1>3 DEF People!Forget, Announced
  <2> QED
    BY <2>1 DEF People!DirNext, People!Auth
<1> QED
  BY <1>2, <1>3

\* publishUserRegistered announces the account, or drops its event.
LEMMA PublishAnnounces ==
  ASSUME IndInv, NEW u \in User, Publish(u)
  PROVE  [People!DirNext]_(People!dirVars)
<1>1. CASE authOpen
  <2>1. Announced' = Announced \cup {u}
    BY <1>1 DEF Publish, Announced, IndInv, TypeOK
  <2>2. People!Announce(u)
    BY <2>1 DEF Publish, People!Announce, Announced
  <2> QED
    BY <2>2 DEF Publish, People!DirNext, People!Auth, userVars, chatVars
<1>2. CASE ~authOpen
  <2>1. evt' = [v \in User |-> IF v \in {u} THEN "lost" ELSE evt[v]]
    BY <1>2 DEF Publish, IndInv, TypeOK
  <2> QED
    BY <2>1, LossForgets DEF Publish, userVars, chatVars
<1> QED
  BY <1>1, <1>2

\* Once announced an event never becomes lost or unannounced: whatever happens
\* to it in the queue or in user-service, the Directory does not notice.
LEMMA QueueIsHidden ==
  ASSUME IndInv, evt' \in [User -> EventState],
         \A u \in User : evt'[u] = evt[u]
                        \/ {evt[u], evt'[u]} \cap {"none", "lost"} = {}
  PROVE  Announced' = Announced
BY DEF Announced, IndInv, TypeOK

\* Every step of the three services, and every fault, is a step of the Directory
\* or leaves it alone.
LEMMA StepRefines == IndInv /\ [Next]_vars => [People!DirNext]_(People!dirVars)
<1> SUFFICES ASSUME IndInv, [Next]_vars PROVE [People!DirNext]_(People!dirVars)
  OBVIOUS
<1>0. IndInv'
  BY NextInv
<1>1. ASSUME NEW u \in User, NEW e \in Email, Commit(u, e) \/ CommitUnheard(u, e)
      PROVE  [People!DirNext]_(People!dirVars)
  BY <1>1, RegisterOpens DEF People!DirNext
<1>2. ASSUME NEW u \in User, Publish(u) PROVE [People!DirNext]_(People!dirVars)
  BY <1>2, PublishAnnounces
<1>3. CASE AuthConnectionLost
  BY <1>3, LossForgets DEF AuthConnectionLost, userVars, chatVars
<1>4. CASE AuthCrash
  <2>1. pending' = pending \ pending
    BY <1>4 DEF AuthCrash
  <2> QED
    BY <1>4, <2>1, LossForgets DEF AuthCrash, userVars, chatVars
<1>5. ASSUME NEW u \in User, Sync(u) PROVE People!DirNext
  <2>1. Announced' = Announced
    BY <1>0, <1>5, QueueIsHidden DEF Sync, IndInv, TypeOK
  <2>2. People!SyncProfile(u)
    BY <1>5, <2>1 DEF Sync, EmailTaken, People!SyncProfile, People!Free, People!vars,
       Announced, authVars, chatVars
  <2> QED
    BY <2>2 DEF People!DirNext
<1>6. ASSUME NEW u \in User, NEW e \in Email, CreateUser(u, e) PROVE People!DirNext
  <2>1. People!CreateProfile(u, e)
    BY <1>6 DEF CreateUser, EmailTaken, People!CreateProfile, People!Free, People!vars,
       authVars, chatVars
  <2> QED
    BY <2>1 DEF People!DirNext
<1>7. ASSUME NEW u \in User, Store(u) PROVE People!DirNext
  <2>1. profile[u] # None
    BY <1>7 DEF Store, IndInv, TypeOK, ReplicaIsProfile
  <2>2. People!Replicate(u)
    BY <1>7, <2>1 DEF Store, People!Replicate, People!vars, authVars, userVars
  <2> QED
    BY <2>2 DEF People!DirNext
<1>8. ASSUME NEW u \in User,
             \/ SyncConflict(u) \/ Finish(u) \/ FinishUnheard(u) \/ FinishDeaf(u)
             \/ (SyncFails(u) /\ profile' = profile)
      PROVE  UNCHANGED People!dirVars
  <2>1. Announced' = Announced
    BY <1>0, <1>8, QueueIsHidden DEF SyncConflict, SyncFails, Reject, Finish, FinishUnheard,
       FinishDeaf, UserDies, IndInv, TypeOK, Fault
  <2> QED
    BY <1>8, <2>1 DEF SyncConflict, SyncFails, Reject, Finish, FinishUnheard, FinishDeaf,
       authVars, userVars, chatVars, People!dirVars, Announced
<1>9. ASSUME NEW u \in User,
             \/ PublishCreated(u) \/ Ack(u) \/ AckDeaf(u)
      PROVE  UNCHANGED People!dirVars
  BY <1>9 DEF PublishCreated, Ack, AckDeaf, authVars, userVars, chatVars,
     People!dirVars
<1>10. CASE \/ UserPublisherLost \/ UserConsumerLost \/ UserStart
            \/ ChatConsumerLost \/ ChatCrash \/ ChatStart \/ UNCHANGED vars
  BY <1>10 DEF UserPublisherLost, UserConsumerLost, UserStart, ChatConsumerLost, ChatCrash,
     ChatStart, vars, authVars, userVars, chatVars, People!dirVars
<1>11. CASE ReconnectFails \/ UserCrash
  <2>1. Announced' = Announced
    BY <1>0, <1>11, QueueIsHidden DEF ReconnectFails, UserCrash, UserDies, IndInv, TypeOK
  <2> QED
    BY <1>11, <2>1 DEF ReconnectFails, UserCrash, authVars, userVars, chatVars,
       People!dirVars, Announced
<1>12. ASSUME NEW u \in User, SyncFails(u), profile' # profile PROVE People!DirNext
  <2>1. Announced' = Announced
    BY <1>0, <1>12, QueueIsHidden DEF SyncFails, Reject, IndInv, TypeOK
  <2>2. People!SyncProfile(u)
    BY <1>12, <2>1 DEF SyncFails, Reject, EmailTaken, People!SyncProfile, People!Free,
       People!vars, Announced, authVars, chatVars
  <2> QED
    BY <2>2 DEF People!DirNext
<1>13. ASSUME NEW u \in User, StoreFails(u) PROVE [People!DirNext]_(People!dirVars)
  <2>1. profile[u] # None
    BY <1>13 DEF StoreFails, IndInv, TypeOK, ReplicaIsProfile
  <2>2. CASE replica' = replica \cup {u}
    <3>1. People!Replicate(u)
      BY <1>13, <2>1, <2>2 DEF StoreFails, People!Replicate, People!vars, authVars, userVars
    <3> QED
      BY <3>1 DEF People!DirNext
  <2>3. CASE replica' = replica
    BY <1>13, <2>3 DEF StoreFails, authVars, userVars, People!dirVars
  <2> QED
    BY <1>13, <2>2, <2>3 DEF StoreFails
<1> QED
  BY <1>1, <1>2, <1>3, <1>4, <1>5, <1>6, <1>7, <1>8, <1>9, <1>10, <1>11, <1>12, <1>13
     DEF Next, Progress, FaultOccurs

\* The three services with their queues and faults implement the Directory.
THEOREM Refinement == Spec => ImplementsDirectory
<1>1. Init => People!DirInit
  BY DEF Init, People!DirInit, People!Init
<1> QED
  BY <1>1, StepRefines, Invariance, PTL DEF Spec, ImplementsDirectory, People!DirSpec

\* What the Directory promises, for UserSync's variables.
Promise == INSTANCE DirectoryProofs WITH
  account <- cred,
  waiting <- pending,
  announced <- {u \in User : evt[u] \notin {"none", "lost"}}

\* Promise is the same Directory, seen through the module of its proofs.
LEMMA PromiseHolds == Spec => Promise!DirSpec
<1>1. People!DirInit => Promise!DirInit
  BY DEF People!DirInit, Promise!DirInit, People!Init, Promise!Init
<1>2. [People!DirNext]_(People!dirVars) => [Promise!DirNext]_(Promise!dirVars)
  BY DEF People!DirNext, Promise!DirNext, People!dirVars, Promise!dirVars,
     People!vars, Promise!vars, People!Free, Promise!Free,
     People!Auth, Promise!Auth, People!Open, Promise!Open,
     People!Announce, Promise!Announce, People!Forget, Promise!Forget,
     People!SyncProfile, Promise!SyncProfile, People!Replicate, Promise!Replicate,
     People!CreateProfile, Promise!CreateProfile
<1> QED
  BY <1>1, <1>2, Refinement, PTL DEF ImplementsDirectory, People!DirSpec, Promise!DirSpec

LEMMA NoneIsNew == Promise!NoneIsNoEmail
BY NoneNotEmail DEF Promise!NoneIsNoEmail

\* What UserSync inherits from the Directory: the databases of auth-service and
\* user-service give a person one e-mail and an e-mail to one person, ...
THEOREM EmailsAgree == Spec => []Promise!OneEmailEach
BY PromiseHolds, NoneIsNew, Promise!EmailsAgree, PTL

\* ... no fault, redelivery or restart changes or takes back what was stored, ...
THEOREM StoresOnlyGrow == Spec => Promise!StoredStays
BY PromiseHolds, NoneIsNew, Promise!NothingIsTakenBack, PTL

\* ... and a registration whose event was lost is unknown to user-service and
\* chat-service for ever.
THEOREM LostForGood == Spec => Promise!PassedOverForGood
BY PromiseHolds, NoneIsNew, Promise!LostIsLost, PTL

-----------------------------------------------------------------------------
(* The whole way                                                           *)

\* A registration on its way to chat-service: to be published, in the first
\* queue, being handled by user-service, or in the second queue.
Travels(u) == u \in pending \/ evt[u] \in {"ready", "stored"} \/ ready[u] + unacked[u] > 0

\* Faults that stop and restart the consumers, or give e-mails away.
Survivable == {"userCrash", "userConsumer", "chatCrash", "chatConsumer", "directCreate"}

RegisteredArrives ==
  Faults \subseteq Survivable =>
    \A u \in User : cred[u] # None => u \in replica \/ Travels(u) \/ EmailTaken(u, cred[u])

\* From auth-service's commit to MongoDB nothing is lost: however often the two
\* consumers crash, are redelivered to or lose their connections, a registration
\* whose e-mail is its own is a chat user or on its way there.  So when nothing is
\* on its way any more every such registration has arrived.
THEOREM NothingIsLostOnTheWay == Spec => []RegisteredArrives
<1>1. IndInv /\ RegisteredIsOnItsWay /\ Promise!EachFollows => RegisteredArrives
  <2> SUFFICES ASSUME IndInv, RegisteredIsOnItsWay, Promise!EachFollows,
                      Faults \subseteq Survivable, NEW u \in User, cred[u] # None,
                      ~EmailTaken(u, cred[u]), ~Travels(u)
               PROVE  u \in replica
    BY DEF RegisteredArrives
  <2>1. /\ Faults \cap {"authCrash", "authConnection", "authDb", "userDb"} = {}
        /\ Faults \cap {"userPublisher", "broker", "chatDb"} = {}
        /\ "userDb" \notin Faults
    BY DEF Survivable
  <2>2. profile[u] = cred[u]
    BY <2>1 DEF RegisteredIsOnItsWay, Travels
  <2>3. evt[u] \notin {"none", "lost"}
    BY <2>2 DEF Promise!EachFollows
  <2>4. evt[u] # "dropped"
    BY <2>1 DEF IndInv, DropHasCause
  <2>5. evt[u] = "acked"
    BY <2>3, <2>4 DEF IndInv, TypeOK, EventState, Travels
  <2> QED
    BY <2>1, <2>5 DEF IndInv, AckedIsOnItsWay, Travels
<1>2. Spec => []Promise!EachFollows
  BY PromiseHolds, NoneIsNew, Promise!StoresFollow, PTL
<1> QED
  BY <1>1, <1>2, Invariance, NothingIsForgotten, PTL
=============================================================================
