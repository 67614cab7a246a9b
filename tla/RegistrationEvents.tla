-------------------------- MODULE RegistrationEvents --------------------------
(***************************************************************************)
(* What auth-service promises the rest of the system about registrations,  *)
(* with no request, transaction, channel or queue in sight: an account is  *)
(* committed for good under an e-mail of its own, and its user.registered  *)
(* is announced after that, at most once, or never.  AuthService and the   *)
(* auth side of UserSync both implement this.                              *)
(***************************************************************************)
CONSTANTS User, Email, None

VARIABLES
  account,    \* account[u]: the e-mail of the committed account u, None before
  waiting,    \* committed accounts whose announcement may still come
  announced   \* accounts whose user.registered reached the broker

vars == <<account, waiting, announced>>

TypeOK ==
  /\ account \in [User -> Email \cup {None}]
  /\ waiting \subseteq User
  /\ announced \subseteq User

Init ==
  /\ account = [u \in User |-> None]
  /\ waiting = {} /\ announced = {}

\* register's commit.  When its acknowledgement is lost nobody is left to
\* announce the account.
Open(u, e) ==
  /\ account[u] = None
  /\ \A v \in User : account[v] # e
  /\ account' = [account EXCEPT ![u] = e]
  /\ waiting' \in {waiting, waiting \cup {u}}
  /\ UNCHANGED announced

\* publishUserRegistered on an open channel.
Announce(u) ==
  /\ u \in waiting
  /\ waiting' = waiting \ {u}
  /\ announced' = announced \cup {u}
  /\ UNCHANGED account

\* A channel that is null or closing drops one event, a crash all of them.
Forget(U) ==
  /\ U # {} /\ U \subseteq waiting
  /\ waiting' = waiting \ U
  /\ UNCHANGED <<account, announced>>

Next ==
  \/ \E u \in User, e \in Email : Open(u, e)
  \/ \E u \in User : Announce(u)
  \/ \E U \in SUBSET waiting : Forget(U)

Spec == Init /\ [][Next]_vars

-----------------------------------------------------------------------------
\* Whatever was announced, or may still be, is a committed account, and no
\* account is announced again.
AnnouncedIsCommitted ==
  /\ \A u \in waiting \cup announced : account[u] # None
  /\ waiting \cap announced = {}

\* An account that was passed over stays so: nothing replays its event.
ForgottenStays ==
  [][\A u \in User : account[u] # None /\ u \notin waiting \cup announced
       => u \notin waiting' \cup announced']_vars
=============================================================================
