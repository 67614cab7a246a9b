----------------------------- MODULE TokenLedger -----------------------------
(***************************************************************************)
(* What auth-service promises about accounts and refresh tokens, with no   *)
(* request, database row, transaction or process in sight.  An account is  *)
(* opened in one step together with its first token; a token is issued     *)
(* once, to an account that exists, and once killed it stays dead.         *)
(* AuthService.tla implements this.                                        *)
(***************************************************************************)
CONSTANTS User, Token, Email, None

VARIABLES
  account,    \* account[u] : the e-mail of the account u, None before it exists
  holder,     \* holder[t]  : the account t was issued to, None before that
  live        \* the tokens that can still be refreshed

vars == <<account, holder, live>>

TypeOK ==
  /\ account \in [User -> Email \cup {None}]
  /\ holder \in [Token -> User \cup {None}]
  /\ live \subseteq Token

Init ==
  /\ account = [u \in User |-> None]
  /\ holder = [t \in Token |-> None]
  /\ live = {}

\* A person signs up: account and first token appear together or not at all.
Open(u, e, t) ==
  /\ account[u] = None /\ holder[t] = None
  /\ \A v \in User : account[v] # e
  /\ account' = [account EXCEPT ![u] = e]
  /\ holder' = [holder EXCEPT ![t] = u]
  /\ live' = live \cup {t}

\* A login or the second half of a rotation.  The issuer may fail to keep the
\* token (a crash right after the insert looks like this to nobody).
Issue(u, t) ==
  /\ account[u] # None
  /\ holder[t] = None
  /\ holder' = [holder EXCEPT ![t] = u]
  /\ live' = live \cup {t}
  /\ UNCHANGED account

\* Rotation, expiry, or the revocation of everything one account holds.
Kill(T) ==
  /\ T # {} /\ T \subseteq live
  /\ live' = live \ T
  /\ \E u \in User : \A t \in T : holder[t] = u
  /\ UNCHANGED <<account, holder>>

Next ==
  \/ \E u \in User, e \in Email, t \in Token : Open(u, e, t)
  \/ \E u \in User, t \in Token : Issue(u, t)
  \/ \E T \in SUBSET live : Kill(T)

Spec == Init /\ [][Next]_vars

-----------------------------------------------------------------------------
\* A token that was issued and then killed never comes back.
DeadStaysDead == [][\A t \in Token : holder[t] # None /\ t \notin live => t \notin live']_vars
=============================================================================
