---------------------------- MODULE GatewayProofs ----------------------------
(***************************************************************************)
(* Proofs about Gateway for every set of requests: whose requests are      *)
(* carried out, what a 401 means, and that Gateway implements RemoteCall   *)
(* although it answers without waiting for the services.                   *)
(***************************************************************************)
EXTENDS Gateway, TLAPS

Denials == Status \ {"ok", "500", "lost"}

\* How far a request has come, on the gateway's side and on the service's.
Progress ==
  \A r \in Req :
    /\ pc[r] = "idle" <=> route[r] = None
    /\ pc[r] = "idle" => at[r] = "none"
    /\ pc[r] = "waiting" => at[r] # "none"
    /\ pc[r] = "done" <=> told[r] # None
    /\ reply[r] # None => at[r] = "over"
    /\ r \in applied => at[r] \in {"inside", "over"}
    /\ r \in applied /\ route[r] \in ChatRoutes => form[r] # "foreign"

\* What the service answered, and what the client was told, of a request.
Truth ==
  \A r \in Req :
    /\ reply[r] = "ok" => r \in applied
    /\ reply[r] \in Denials => r \notin applied
    /\ told[r] = "ok" => r \in applied
    /\ told[r] \in Denials => r \notin applied /\ at[r] \in {"none", "over"}

\* Only committed accounts act: the subject of a login that was carried out,
\* of a token in a client's hands, of a request that was forwarded.
Tokens ==
  /\ known \subseteq Accounts
  /\ \A r \in Req :
       /\ route[r] = "register" => who[r] = r
       /\ route[r] \in {"login", "refresh"} /\ r \in applied => who[r] \in Accounts
       /\ route[r] \in Protected /\ at[r] # "none" => who[r] \in known

\* 401 comes from a service that does not know the gateway's internal token.
Explained ==
  \A r \in Req :
    /\ reply[r] = "401" /\ route[r] \in Protected => ServiceOf(route[r]) \notin trusted
    /\ told[r] = "401" /\ route[r] \in Protected /\ who[r] # None =>
         ServiceOf(route[r]) \notin trusted

IndInv == TypeOK /\ Progress /\ Truth /\ Tokens /\ Explained

-----------------------------------------------------------------------------
\* No request yet: nothing to be true of.
LEMMA InitInv == Init => IndInv
BY NoneIsNew DEF Init, IndInv, TypeOK, Progress, Truth, Tokens, Explained, Denials, Status,
   Route, Form, Account, Accounts, AuthRoutes, UserRoutes, ChatRoutes, Protected

\* What becomes of a request that was entered: an error, or a call on behalf of
\* an account whose token was shown.
Entered(r, o, f, w) ==
  /\ Enter(r, o, f, w)
  /\ o \in Route /\ f \in Form /\ w \in Account \cup {None}
  /\ o = "register" => w = r
  /\ \/ \E s \in {"400", "401", "422", "500"} :
          Reject(r, s) /\ (s = "401" => w = None)
     \/ Forward(r) /\ (o \in Protected => w \in known)

LEMMA ReceiveEnters ==
  ASSUME IndInv, NEW r \in Req, ReceiveAuth(r) \/ ReceiveUser(r) \/ ReceiveChat(r)
  PROVE  \E o \in Route, f \in Form, w \in Account \cup {None} : Entered(r, o, f, w)
<1> USE NoneIsNew DEF Entered, Verdict, Invalid, Route, Account, Protected, Status
<1>1. \A o \in Route : FormsOf(o) \subseteq Form
  BY DEF FormsOf, Form
<1>2. known \subseteq Account
  BY DEF IndInv, TypeOK
<1>3. CASE ReceiveAuth(r)
  BY <1>1, <1>3 DEF ReceiveAuth, AuthRoutes, UserRoutes, ChatRoutes
<1>4. CASE ReceiveUser(r)
  BY <1>1, <1>2, <1>4 DEF ReceiveUser, AuthRoutes, UserRoutes, ChatRoutes
<1>5. CASE ReceiveChat(r)
  BY <1>1, <1>2, <1>5 DEF ReceiveChat, AuthRoutes, UserRoutes, ChatRoutes
<1> QED
  BY <1>3, <1>4, <1>5

\* Every step of the gateway, of a service or of a process preserves it.
LEMMA NextInv == IndInv /\ [Next]_vars => IndInv'
<1> SUFFICES ASSUME IndInv, [Next]_vars PROVE IndInv'
  OBVIOUS
<1> USE NoneIsNew DEF IndInv, TypeOK, Progress, Truth, Tokens, Explained, Denials, Status,
        Account, Accounts, request, remote
<1>1. ASSUME NEW r \in Req, NEW o \in Route, NEW f \in Form, NEW w \in Account \cup {None},
             Entered(r, o, f, w)
      PROVE  IndInv'
  <2> USE DEF Entered, Enter, Reject, Tell, Forward
  <2>1. TypeOK'
    BY <1>1
  <2>2. Progress'
    BY <1>1
  <2>3. Truth'
    BY <1>1
  <2>4. Tokens'
    BY <1>1 DEF Protected
  <2>5. Explained'
    BY <1>1
  <2> QED
    BY <2>1, <2>2, <2>3, <2>4, <2>5
<1>2. ASSUME NEW r \in Req, DeliverAuth(r) PROVE IndInv'
  <2> USE DEF DeliverAuth, Deliver, Tell
  <2>1. TypeOK'
    BY <1>2 DEF AuthRoutes
  <2>2. Progress' /\ Truth' /\ Explained'
    BY <1>2
  <2>3. Tokens'
    BY <1>2 DEF AuthRoutes
  <2> QED
    BY <2>1, <2>2, <2>3
<1>3. ASSUME NEW r \in Req, DeliverUser(r) PROVE IndInv'
  BY <1>3 DEF DeliverUser, Deliver, Tell
<1>4. ASSUME NEW r \in Req, DeliverChat(r) PROVE IndInv'
  BY <1>4 DEF DeliverChat, Deliver, Tell
<1>5. ASSUME NEW r \in Req, GiveUp(r) PROVE IndInv'
  BY <1>5 DEF GiveUp, Tell
<1>6. ASSUME NEW r \in Req, Admit(r) PROVE IndInv'
  <2>1. who[r] # None \/ route[r] \notin ChatRoutes
    BY <1>6 DEF Admit, Protected, UserRoutes, ChatRoutes
  <2>2. InnerVerdict(r) \in {"400", "401", None}
    BY DEF InnerVerdict
  <2>3. InnerVerdict(r) = "401" => ServiceOf(route[r]) \notin trusted
    BY <2>1 DEF InnerVerdict, Untrusted
  <2> QED
    BY <1>6, <2>2, <2>3 DEF Admit, Answer
<1>7. ASSUME NEW r \in Req, PerformAuth(r) \/ PerformUser(r) \/ PerformChat(r) PROVE IndInv'
  BY <1>7 DEF PerformAuth, PerformUser, PerformChat, Perform, AuthRoutes, UserRoutes, ChatRoutes
<1>8. ASSUME NEW r \in Req, Finish(r) PROVE IndInv'
  <2>1. \A s \in Refusals(r) : s \in Denials /\ (s = "401" => route[r] \in AuthRoutes)
    BY DEF Refusals, AuthRefusals, UserRefusals, ChatRefusals
  <2> QED
    BY <1>8, <2>1 DEF Finish, Answer, Protected, AuthRoutes, UserRoutes, ChatRoutes
<1>9. CASE Shutdown \/ Exit \/ Start
  BY <1>9 DEF Shutdown, Exit, Start
<1>10. CASE Crash
  BY <1>10 DEF Crash
<1>11. ASSUME NEW s \in Service, ServiceCrash(s) PROVE IndInv'
  BY <1>11 DEF ServiceCrash
<1>12. CASE UNCHANGED vars
  BY <1>12 DEF vars
<1> QED
  BY <1>1, <1>2, <1>3, <1>4, <1>5, <1>6, <1>7, <1>8, <1>9, <1>10, <1>11, <1>12,
     ReceiveEnters DEF Next

-----------------------------------------------------------------------------
\* The conjunction of the properties and what makes them inductive always holds.
THEOREM Invariance == Spec => []IndInv
BY InitInv, NextInv, PTL DEF Spec

\* The variables keep their types.
THEOREM TypeCorrect == Spec => []TypeOK
<1>1. IndInv => TypeOK
  BY DEF IndInv
<1> QED
  BY <1>1, Invariance, PTL

\* What a protected route carries out, it carries out for a committed account.
THEOREM OnlyAccountsAct == Spec => []ActsForAccount
<1>1. IndInv => ActsForAccount
  BY DEF IndInv, TypeOK, Progress, Tokens, ActsForAccount
<1> QED
  BY <1>1, Invariance, PTL

\* With a valid token, 401 can only mean that the internal tokens differ.
THEOREM Explained401 == Spec => []UnauthorizedIsExplained
<1>1. IndInv => UnauthorizedIsExplained
  BY DEF IndInv, Explained, UnauthorizedIsExplained
<1> QED
  BY <1>1, Invariance, PTL

-----------------------------------------------------------------------------
(* Gateway implements RemoteCall                                           *)

\* The call variables of RemoteCall that Gateway does not have itself.
Asked == {r \in Req : pc[r] # "idle"}
Answers == [r \in Req |-> Outcome(told[r])]

\* A function that differs from f at r only.
LEMMA ChangedAt ==
  ASSUME NEW S, NEW f, NEW g, f = [x \in S |-> f[x]], g = [x \in S |-> g[x]],
         NEW r \in S, \A q \in S \ {r} : g[q] = f[q]
  PROVE  g = [f EXCEPT ![r] = g[r]]
OBVIOUS

\* Entering a request asks, and may refuse or fail on the spot.
LEMMA EnteredAsks ==
  ASSUME IndInv, NEW r \in Req, NEW o \in Route, NEW f \in Form, NEW w \in Account \cup {None},
         Entered(r, o, f, w)
  PROVE  Client!Ask(r)
<1> USE NoneIsNew DEF IndInv, TypeOK, Progress, Entered, Enter, Reject, Tell, Forward, Status
<1>1. pc[r] = "idle" /\ told[r] = None
  OBVIOUS
<1>2. pc'[r] # "idle" /\ told'[r] \in {None, "400", "401", "422", "500"}
  BY <1>1
<1>3. \A q \in Req \ {r} : pc'[q] = pc[q] /\ told'[q] = told[q]
  OBVIOUS
<1>4. Answers[r] = None /\ Answers'[r] \in {None, "refused", "unknown"}
  BY <1>1, <1>2 DEF Answers, Outcome
<1>5. \A q \in Req \ {r} : Answers'[q] = Answers[q]
  BY <1>3 DEF Answers
<1>6. Answers = [q \in Req |-> Answers[q]] /\ Answers' = [q \in Req |-> Answers'[q]]
  BY DEF Answers
<1>7. Answers' = [Answers EXCEPT ![r] = Answers'[r]]
  BY <1>5, <1>6, ChangedAt
<1>8. \/ Answers' = Answers
      \/ \E a \in {"refused", "unknown"} : Answers' = [Answers EXCEPT ![r] = a]
  <2> HIDE DEF Entered, Enter, Reject, Tell, Forward
  <2>1. CASE Answers'[r] = None
    BY <1>4, <1>6, <1>7, <2>1
  <2>2. CASE Answers'[r] \in {"refused", "unknown"}
    BY <1>7, <2>2
  <2> QED
    BY <1>4, <2>1, <2>2
<1>9. r \notin Asked /\ Asked' = Asked \cup {r}
  BY <1>1, <1>2, <1>3 DEF Asked
<1> QED
  BY <1>8, <1>9 DEF Client!Ask, Asked, Answers

\* Whatever ends the wait tells the truth: the response, or none in time.
LEMMA TellIsAnswer ==
  ASSUME IndInv, NEW r \in Req, NEW s \in Status, pc[r] = "waiting", Tell(r, s),
         applied' = applied,
         s = "ok" => r \in applied, s \in Denials => r \notin applied
  PROVE  Client!Next
<1> USE NoneIsNew DEF IndInv, TypeOK, Progress, Asked, Answers, Outcome, Status, Denials, Tell
<1>1. r \in Asked /\ Asked' = Asked /\ Answers[r] = None
  OBVIOUS
<1>2. Answers' = [Answers EXCEPT ![r] = Outcome(s)]
  OBVIOUS
<1>3. CASE s = "ok"
  <2>1. Client!Done(r)
    BY <1>1, <1>2, <1>3 DEF Client!Done
  <2> QED
    BY <2>1 DEF Client!Next
<1>4. CASE s \in Denials
  <2>1. Outcome(s) = "refused"
    BY <1>4
  <2>2. Client!Refuse(r)
    BY <1>1, <1>2, <1>4, <2>1 DEF Client!Refuse
  <2> QED
    BY <2>2 DEF Client!Next
<1>5. CASE s \in {"500", "lost"}
  <2>1. Answers' = [c \in Req |-> IF c \in {r} THEN "unknown" ELSE Answers[c]]
    BY <1>2, <1>5
  <2>2. Client!GiveUp({r})
    BY <1>1, <2>1 DEF Client!GiveUp
  <2> QED
    BY <1>1, <2>2 DEF Client!Next
<1> QED
  BY <1>3, <1>4, <1>5

LEMMA DeliverIsAnswer ==
  ASSUME IndInv, NEW r \in Req, DeliverAuth(r) \/ DeliverUser(r) \/ DeliverChat(r)
  PROVE  Client!Next
<1> USE NoneIsNew DEF IndInv, TypeOK, Progress, Truth, Denials, Status, remote
<1>1. pc[r] = "waiting" /\ reply[r] \in Status /\ applied' = applied
  BY DEF DeliverAuth, DeliverUser, DeliverChat, Deliver
<1>2. CASE Tell(r, reply[r])
  BY <1>1, <1>2, TellIsAnswer
<1>3. CASE ~Tell(r, reply[r])
  \* The second participant check never finds anything: a service that answered
  \* ok has carried the request out, for a participant.
  <2>1. route[r] \in ChatRoutes /\ form[r] = "foreign" /\ reply[r] = "ok"
    BY <1>3 DEF DeliverAuth, DeliverUser, DeliverChat, Deliver
  <2> QED
    BY <2>1
<1> QED
  BY <1>2, <1>3

\* A service acts for a client that waits or has been left in doubt.
LEMMA PerformApplies ==
  ASSUME IndInv, NEW r \in Req, PerformAuth(r) \/ PerformUser(r) \/ PerformChat(r)
  PROVE  Client!Apply(r)
<1> USE NoneIsNew DEF IndInv, TypeOK, Progress, Truth, Denials, Status, PerformAuth, PerformUser,
        PerformChat, Perform
<1>1. r \in Asked /\ Asked' = Asked
  BY DEF Asked
<1>2. told[r] \in {None, "500", "lost"}
  OBVIOUS
<1>3. Answers[r] \in {None, "unknown"} /\ Answers' = Answers
  BY <1>2 DEF Answers, Outcome
<1> QED
  BY <1>1, <1>3 DEF Client!Apply, Asked, Answers

LEMMA GiveUpIsStep ==
  ASSUME NEW C \in SUBSET Asked, Client!GiveUp(C)
  PROVE  Client!Next
BY DEF Client!Next, Asked

\* The gateway dies: all that waited are left in doubt.
LEMMA CrashGivesUp ==
  ASSUME IndInv, Crash
  PROVE  [Client!Next]_(Client!vars)
<1> DEFINE C == {r \in Req : pc[r] = "waiting"}
<1>1. Asked' = Asked /\ applied' = applied
  BY DEF IndInv, TypeOK, Crash, Asked, remote
<1>2. Answers' = [c \in Req |-> IF c \in C THEN "unknown" ELSE Answers[c]]
  BY NoneIsNew DEF Crash, Answers, Outcome, IndInv, TypeOK, Progress, Status
<1>3. C \in SUBSET Asked /\ \A c \in C : Answers[c] = None
  BY NoneIsNew DEF Asked, Answers, Outcome, IndInv, TypeOK, Progress, Status
<1>4. Answers = [c \in Req |-> Answers[c]]
  BY DEF Answers
<1> HIDE DEF C
<1>5. CASE C = {}
  <2>1. Answers' = Answers
    BY <1>2, <1>4, <1>5
  <2> QED
    BY <1>1, <2>1 DEF Client!vars, Asked, Answers
<1>6. CASE C # {}
  <2>1. PICK K \in SUBSET Asked : K = C
    BY <1>3
  <2>2. Client!GiveUp(K)
    BY <1>1, <1>2, <1>3, <1>6, <2>1 DEF Client!GiveUp, Asked, Answers
  <2> QED
    BY <2>2, GiveUpIsStep
<1> QED
  BY <1>5, <1>6

\* Every step of gateway and services is a step of RemoteCall or leaves it alone.
LEMMA StepRefines == IndInv /\ [Next]_vars => [Client!Next]_(Client!vars)
<1> SUFFICES ASSUME IndInv, [Next]_vars PROVE [Client!Next]_(Client!vars)
  OBVIOUS
<1>1. ASSUME NEW r \in Req, ReceiveAuth(r) \/ ReceiveUser(r) \/ ReceiveChat(r)
      PROVE  Client!Next
  BY <1>1, ReceiveEnters, EnteredAsks DEF Client!Next
<1>2. ASSUME NEW r \in Req, GiveUp(r) PROVE Client!Next
  BY <1>2, TellIsAnswer DEF GiveUp, Status, Denials, remote
<1>3. ASSUME NEW r \in Req, PerformAuth(r) \/ PerformUser(r) \/ PerformChat(r)
      PROVE  Client!Next
  BY <1>3, PerformApplies DEF Client!Next
<1>4. ASSUME NEW r \in Req, Admit(r) \/ Finish(r) PROVE UNCHANGED Client!vars
  BY <1>4 DEF Admit, Finish, Client!vars, Outcome
<1>5. CASE Shutdown \/ Exit \/ Start \/ \E s \in Service : ServiceCrash(s)
  BY <1>5 DEF Shutdown, Exit, Start, ServiceCrash, remote, Client!vars, Outcome
<1>6. CASE UNCHANGED vars
  BY <1>6 DEF vars, Client!vars, Outcome
<1> QED
  BY <1>1, <1>2, <1>3, <1>4, <1>5, <1>6, DeliverIsAnswer, CrashGivesUp DEF Next

\* What a client of the gateway may conclude from an answer is what RemoteCall
\* says, though the gateway gives up while the service is still at work.
THEOREM Refinement == Spec => ImplementsRemoteCall
<1>1. ASSUME Init PROVE Client!Init
  <2>1. {r \in Req : pc[r] # "idle"} = {} /\ applied = {}
    BY <1>1 DEF Init
  <2>2. \A r \in Req : Outcome(told[r]) = None
    <3>1. \A r \in Req : told[r] = None
      BY <1>1 DEF Init
    <3>2. Outcome(None) = None
      BY NoneIsNew DEF Outcome, Status
    <3> QED
      BY <3>1, <3>2
  <2> QED
    BY <2>1, <2>2 DEF Client!Init
<1> QED
  BY <1>1, StepRefines, Invariance, PTL DEF Spec, ImplementsRemoteCall, Client!Spec

-----------------------------------------------------------------------------
(* What follows from RemoteCall                                            *)

\* RemoteCall again, seen through the module of its proofs.
Told == INSTANCE RemoteCallProofs WITH
  Call <- Req,
  asked <- {r \in Req : pc[r] # "idle"},
  answer <- [r \in Req |-> Outcome(told[r])]

LEMMA CallsAgain == ImplementsRemoteCall => Told!Spec
<1>1. Client!Init => Told!Init
  BY DEF Client!Init, Told!Init
<1>2. [Client!Next]_(Client!vars) => [Told!Next]_(Told!vars)
  BY DEF Client!Next, Told!Next, Client!vars, Told!vars, Client!Ask, Told!Ask,
     Client!Apply, Told!Apply, Client!Done, Told!Done, Client!Refuse, Told!Refuse,
     Client!GiveUp, Told!GiveUp
<1> QED
  BY <1>1, <1>2, PTL DEF ImplementsRemoteCall, Client!Spec, Told!Spec

\* What a client of the gateway inherits: 2xx means carried out and 4xx means not
\* carried out, across the timeout and the death of either side, ...
THEOREM AnswersAreTrue == Spec => []Told!AnswersAreTrue
<1>1. Told!NoneIsNoAnswer
  BY NoneIsNoOutcome DEF Told!NoneIsNoAnswer, Told!Answers
<1> QED
  BY <1>1, Refinement, CallsAgain, Told!AnswersTrue, PTL

\* ... and what was refused is not carried out by an answer that comes too late.
THEOREM RefusedForGood == Spec => Told!RefusedForGood
<1>1. Told!NoneIsNoAnswer
  BY NoneIsNoOutcome DEF Told!NoneIsNoAnswer, Told!Answers
<1> QED
  BY <1>1, Refinement, CallsAgain, Told!RefusalsLast, PTL
=============================================================================
