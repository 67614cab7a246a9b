--------------------------- MODULE DirectoryProofs ---------------------------
(***************************************************************************)
(* What every implementation of Directory inherits, for any sets of users  *)
(* and e-mails.                                                            *)
(***************************************************************************)
EXTENDS Directory, RegistrationEventsProofs

DirInv == DirTypeOK /\ AnnouncedIsCommitted /\ OneEmailEach /\ EachFollows

\* In the Directory auth-service's part is RegistrationEvents.
LEMMA AuthIsEvents == [DirNext]_dirVars => [Next]_vars
BY DEF DirNext, Auth, SyncProfile, CreateProfile, Replicate, Next, dirVars, vars

\* The Directory implements RegistrationEvents.
THEOREM DirectoryIsEvents == DirSpec => Spec
<1>1. DirInit => Init
  BY DEF DirInit
<1> QED
  BY <1>1, AuthIsEvents, PTL DEF DirSpec, Spec

\* At the start nobody is known anywhere.
LEMMA DirInitInv == DirInit => DirInv
BY DEF DirInit, Init, DirInv, DirTypeOK, TypeOK, AnnouncedIsCommitted, OneEmailEach, EachFollows

\* Every step of the three services keeps their stores in agreement.
LEMMA DirNextInv ==
  ASSUME NoneIsNoEmail PROVE DirInv /\ [DirNext]_dirVars => DirInv'
<1> SUFFICES ASSUME DirInv, [DirNext]_dirVars PROVE DirInv'
  OBVIOUS
<1>1. EventsInv'
  BY EventsNext, AuthIsEvents DEF DirInv, DirTypeOK, EventsInv
<1> USE DEF NoneIsNoEmail, DirInv, DirTypeOK, TypeOK, AnnouncedIsCommitted, EventsInv,
        OneEmailEach, EachFollows, Free, vars
<1>2. ASSUME NEW u \in User, NEW e \in Email, profile[u] = None, Open(u, e),
             UNCHANGED <<profile, replica>>
      PROVE  DirInv'
  BY <1>1, <1>2 DEF Open
<1>3. ASSUME NEW u \in User, Announce(u), UNCHANGED <<profile, replica>> PROVE DirInv'
  BY <1>1, <1>3 DEF Announce
<1>4. ASSUME NEW U \in SUBSET waiting, Forget(U), UNCHANGED <<profile, replica>> PROVE DirInv'
  BY <1>1, <1>4 DEF Forget
<1>5. ASSUME NEW u \in User, SyncProfile(u) PROVE DirInv'
  BY <1>1, <1>5 DEF SyncProfile
<1>6. ASSUME NEW u \in User, NEW e \in Email, CreateProfile(u, e) PROVE DirInv'
  BY <1>1, <1>6 DEF CreateProfile
<1>7. ASSUME NEW u \in User, Replicate(u) PROVE DirInv'
  BY <1>1, <1>7 DEF Replicate
<1>8. CASE UNCHANGED dirVars
  BY <1>1, <1>8 DEF dirVars
<1> QED
  BY <1>2, <1>3, <1>4, <1>5, <1>6, <1>7, <1>8 DEF DirNext, Auth

\* The inductive invariant of the Directory holds in every reachable state.
THEOREM DirInvariance ==
  ASSUME NoneIsNoEmail PROVE DirSpec => []DirInv
BY DirInitInv, DirNextInv, PTL DEF DirSpec

\* One person, one e-mail, the same in both databases.
THEOREM EmailsAgree ==
  ASSUME NoneIsNoEmail PROVE DirSpec => []OneEmailEach
<1>1. DirInv => OneEmailEach
  BY DEF DirInv
<1> QED
  BY <1>1, DirInvariance, PTL

\* Profiles of accounts follow announcements, chat users follow profiles.
THEOREM StoresFollow ==
  ASSUME NoneIsNoEmail PROVE DirSpec => []EachFollows
<1>1. DirInv => EachFollows
  BY DEF DirInv
<1> QED
  BY <1>1, DirInvariance, PTL

\* What one step of the Directory may do to what is stored.
LEMMA StoredStep ==
  ASSUME NoneIsNoEmail, DirInv, [DirNext]_dirVars, NEW u \in User
  PROVE  /\ account[u] # None => account'[u] = account[u]
         /\ profile[u] # None => profile'[u] = profile[u]
         /\ u \in replica => u \in replica'
         /\ u \in announced => u \in announced'
<1> USE DEF NoneIsNoEmail, DirInv, DirTypeOK, TypeOK, AnnouncedIsCommitted, OneEmailEach, vars
<1>1. CASE Auth
  BY <1>1 DEF Auth, Open, Announce, Forget
<1>2. ASSUME NEW v \in User, SyncProfile(v)
      PROVE  /\ profile[u] # None => profile'[u] = profile[u]
             /\ UNCHANGED <<account, announced, replica>>
  BY <1>2 DEF SyncProfile
<1>3. ASSUME NEW v \in User, NEW e \in Email, CreateProfile(v, e)
      PROVE  /\ profile[u] # None => profile'[u] = profile[u]
             /\ UNCHANGED <<account, announced, replica>>
  BY <1>3 DEF CreateProfile
<1>4. ASSUME NEW v \in User, Replicate(v)
      PROVE  UNCHANGED <<account, announced, profile>> /\ replica \subseteq replica'
  BY <1>4 DEF Replicate
<1>5. CASE UNCHANGED dirVars
  BY <1>5 DEF dirVars
<1> QED
  BY <1>1, <1>2, <1>3, <1>4, <1>5 DEF DirNext

\* Accounts, profiles, chat users and announcements only ever become more.
THEOREM NothingIsTakenBack ==
  ASSUME NoneIsNoEmail PROVE DirSpec => StoredStays
<1>1. DirInv /\ [DirNext]_dirVars =>
        [\A u \in User : /\ account[u] # None => account'[u] = account[u]
                         /\ profile[u] # None => profile'[u] = profile[u]
                         /\ u \in replica => u \in replica'
                         /\ u \in announced => u \in announced']_dirVars
  BY StoredStep
<1> QED
  BY <1>1, DirInvariance, PTL DEF DirSpec, StoredStays

\* An account that was passed over is unknown to user-service and to
\* chat-service for ever.
THEOREM LostIsLost ==
  ASSUME NoneIsNoEmail PROVE DirSpec => PassedOverForGood
<1>1. ASSUME NEW u \in User
      PROVE  DirSpec => [](PassedOver(u) => [](profile[u] = None /\ u \notin replica))
  <2>1. DirInv /\ PassedOver(u) => profile[u] = None /\ u \notin replica
    BY DEF DirInv, EachFollows, PassedOver
  <2>2. PassedOver(u) /\ [DirNext]_dirVars => PassedOver(u)'
    BY AuthIsEvents, ForgottenStep DEF Forgotten, PassedOver
  <2> QED
    BY <2>1, <2>2, DirInvariance, PTL DEF DirSpec
<1> QED
  BY <1>1 DEF PassedOverForGood
=============================================================================
