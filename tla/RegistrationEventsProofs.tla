----------------------- MODULE RegistrationEventsProofs -----------------------
(***************************************************************************)
(* What every implementation of RegistrationEvents inherits, for any sets  *)
(* of users and e-mails.                                                   *)
(***************************************************************************)
EXTENDS RegistrationEvents, TLAPS

\* What the theorems assume of None: a value of its own.
NoneIsNoEmail == None \notin Email

EventsInv == TypeOK /\ AnnouncedIsCommitted

\* At the start there is no account and no event.
LEMMA EventsInit == Init => EventsInv
BY DEF Init, EventsInv, TypeOK, AnnouncedIsCommitted

\* Committing, announcing and forgetting keep announcements behind accounts.
LEMMA EventsNext ==
  ASSUME NoneIsNoEmail PROVE EventsInv /\ [Next]_vars => EventsInv'
<1> SUFFICES ASSUME EventsInv, [Next]_vars PROVE EventsInv'
  OBVIOUS
<1> USE DEF NoneIsNoEmail, EventsInv, TypeOK, AnnouncedIsCommitted
<1>1. ASSUME NEW u \in User, NEW e \in Email, Open(u, e) PROVE EventsInv'
  BY <1>1 DEF Open
<1>2. ASSUME NEW u \in User, Announce(u) PROVE EventsInv'
  BY <1>2 DEF Announce
<1>3. ASSUME NEW U \in SUBSET waiting, Forget(U) PROVE EventsInv'
  BY <1>3 DEF Forget
<1>4. CASE UNCHANGED vars
  BY <1>4 DEF vars
<1> QED
  BY <1>1, <1>2, <1>3, <1>4 DEF Next

\* Only committed accounts are announced, none of them twice.
THEOREM AnnouncementsFollow ==
  ASSUME NoneIsNoEmail PROVE Spec => []AnnouncedIsCommitted
<1>1. EventsInv => AnnouncedIsCommitted
  BY DEF EventsInv
<1> QED
  BY <1>1, EventsInit, EventsNext, PTL DEF Spec

\* A committed account was announced, may still be, or never will be.
Forgotten(u) == account[u] # None /\ u \notin waiting \cup announced

\* No step brings an account of the last kind back.
LEMMA ForgottenStep ==
  ASSUME [Next]_vars, NEW u \in User, Forgotten(u)
  PROVE  Forgotten(u)'
<1> USE DEF Forgotten
<1>1. ASSUME NEW v \in User, NEW e \in Email, Open(v, e) PROVE Forgotten(u)'
  <2>1. u # v /\ account'[u] = account[u]
    BY <1>1 DEF Open
  <2> QED
    BY <1>1, <2>1 DEF Open
<1>2. ASSUME NEW v \in User, Announce(v) PROVE Forgotten(u)'
  BY <1>2 DEF Announce
<1>3. ASSUME NEW U \in SUBSET waiting, Forget(U) PROVE Forgotten(u)'
  BY <1>3 DEF Forget
<1>4. CASE UNCHANGED vars
  BY <1>4 DEF vars
<1> QED
  BY <1>1, <1>2, <1>3, <1>4 DEF Next

\* Nothing replays the event of an account that was passed over.
THEOREM ForgottenForGood ==
  ASSUME NoneIsNoEmail PROVE Spec => ForgottenStays
<1>1. EventsInv /\ [Next]_vars =>
        [\A u \in User : account[u] # None /\ u \notin waiting \cup announced
           => u \notin waiting' \cup announced']_vars
  BY ForgottenStep DEF Forgotten
<1> QED
  BY <1>1, EventsInit, EventsNext, PTL DEF Spec, ForgottenStays
=============================================================================
