------------------------------- MODULE Directory -------------------------------
(***************************************************************************)
(* What the three services together promise about people: an account of    *)
(* auth-service becomes a profile of user-service, and a profile becomes a *)
(* chat user, with no process, queue, acknowledgement or fault in sight.   *)
(* RegistrationEvents is the part auth-service plays; UserSync implements  *)
(* the whole.                                                              *)
(***************************************************************************)
EXTENDS RegistrationEvents

VARIABLES
  profile,    \* profile[u]: the e-mail of the profile u, None before it exists
  replica     \* the users chat-service knows

dirVars == <<account, waiting, announced, profile, replica>>

DirTypeOK ==
  /\ TypeOK
  /\ profile \in [User -> Email \cup {None}]
  /\ replica \subseteq User

DirInit ==
  /\ Init
  /\ profile = [u \in User |-> None]
  /\ replica = {}

\* auth-service and POST /users both generate the ids they use, so neither
\* ever meets an id of the other.
Auth ==
  /\ \/ \E u \in User, e \in Email : profile[u] = None /\ Open(u, e)
     \/ \E u \in User : Announce(u)
     \/ \E U \in SUBSET waiting : Forget(U)
  /\ UNCHANGED <<profile, replica>>

Free(u, e) == \A v \in User \ {u} : profile[v] # e

\* The upsert of an announced account, however often it is delivered.
SyncProfile(u) ==
  /\ u \in announced /\ Free(u, account[u])
  /\ profile' = [profile EXCEPT ![u] = account[u]]
  /\ UNCHANGED <<vars, replica>>

\* POST /users: a profile without an account.
CreateProfile(u, e) ==
  /\ account[u] = None /\ profile[u] = None /\ Free(u, e)
  /\ profile' = [profile EXCEPT ![u] = e]
  /\ UNCHANGED <<vars, replica>>

\* The upsert of chat-service.
Replicate(u) ==
  /\ profile[u] # None
  /\ replica' = replica \cup {u}
  /\ UNCHANGED <<vars, profile>>

DirNext ==
  \/ Auth
  \/ \E u \in User : SyncProfile(u) \/ Replicate(u)
  \/ \E u \in User, e \in Email : CreateProfile(u, e)

DirSpec == DirInit /\ [][DirNext]_dirVars

-----------------------------------------------------------------------------
\* The two databases never disagree about a person: who has an account and a
\* profile has the same e-mail in both, and neither database gives an e-mail to
\* two people.
OneEmailEach ==
  /\ \A u \in User : account[u] # None /\ profile[u] # None => account[u] = profile[u]
  /\ \A u, v \in User : account[u] # None /\ account[u] = account[v] => u = v
  /\ \A u, v \in User : profile[u] # None /\ profile[u] = profile[v] => u = v

\* chat-service knows only profiles, and an account gets its profile only
\* through its announcement.
EachFollows ==
  /\ \A u \in replica : profile[u] # None
  /\ \A u \in User : account[u] # None /\ profile[u] # None => u \in announced

\* Nothing that was stored is changed or taken back.
StoredStays ==
  [][\A u \in User : /\ account[u] # None => account'[u] = account[u]
                     /\ profile[u] # None => profile'[u] = profile[u]
                     /\ u \in replica => u \in replica'
                     /\ u \in announced => u \in announced']_dirVars

\* The price of a lost event: an account that was passed over without a profile
\* never gets one, and never becomes a chat user.
PassedOver(u) == account[u] # None /\ u \notin waiting \cup announced
PassedOverForGood ==
  \A u \in User : [](PassedOver(u) => [](profile[u] = None /\ u \notin replica))
=============================================================================
