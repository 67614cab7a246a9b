-------------------------- MODULE ChatServiceProofs --------------------------
(***************************************************************************)
(* Proofs about ChatService for every set of requests and users: who may   *)
(* read and write, what the two stores say about each other, and when the  *)
(* cache can lag behind.                                                   *)
(***************************************************************************)
EXTENDS ChatService, TLAPS

\* The route a handler is on at each await.
Control ==
  \A r \in Req :
    /\ pc[r] = "idle" <=> op[r] = None
    /\ pc[r] = "done" <=> status[r] # None
    /\ pc[r] = "insertConv" => op[r] = "create"
    /\ pc[r] \in {"lookup", "find"} => op[r] \in {"get", "send", "list"}
    /\ pc[r] = "read" => op[r] = "list"
    /\ pc[r] \in {"insertMsg", "touch", "drop"} => op[r] = "send"

\* A conversation exists under the id of its creator, and requests only ask
\* for conversations that exist, or for nothing.
Identity ==
  /\ doc[Nowhere] = None
  /\ \A r \in Req :
       /\ pc[r] \in {"idle", "insertConv"} \/ op[r] # "create" => doc[r] = None
       /\ op[r] = "create" => conv[r] = r
       /\ op[r] # None => user[r] \in User
       /\ op[r] \in {"get", "send", "list"} =>
            conv[r] \in Conv /\ (conv[r] # Nowhere => doc[conv[r]] # None)

\* Past the participant check a handler acts for a participant; a handler with
\* a copy in hand has it from an existing conversation.
Handlers ==
  \A r \in Req :
    /\ pc[r] \in {"insertMsg", "touch", "drop", "read"} =>
         conv[r] \in Req /\ doc[conv[r]] # None /\ user[r] \in members[conv[r]]
    /\ pc[r] = "fill" =>
         /\ conv[r] \in Req /\ doc[conv[r]] # None /\ copy[r] # None
         /\ copy[r] \in Req => copy[r] \in messages /\ conv[copy[r]] = conv[r]

\* A message is stored between the insert and the touch of its own handler.
Stored ==
  \A r \in Req :
    /\ r \in messages => op[r] = "send" /\ pc[r] \in {"touch", "drop", "done"}
    /\ pc[r] \in {"touch", "drop"} => r \in messages
    /\ pc[r] = "drop" => doc[conv[r]] # Empty

\* The copy a fill is about to write is the document, unless a touch overtook it.
FillFresh ==
  \A r \in Req : pc[r] = "fill" => copy[r] = doc[conv[r]] \/ conv[r] \in raced

IndInv ==
  /\ TypeOK /\ Control /\ Identity /\ Handlers /\ Stored /\ FillFresh
  /\ MembersOnly /\ StoresAgree /\ SentIsVisible /\ StaleHasCause

-----------------------------------------------------------------------------
LocalsOK ==
  /\ pc' \in [Req -> Pc]
  /\ status' \in [Req -> Status \cup {None}]
  /\ copy' \in [Req -> Document \cup {None}]

\* The three ways a handler goes on keep the types of its locals.
LEMMA AnswerTyped ==
  ASSUME TypeOK, NEW r \in Req, NEW s \in Status, Answer(r, s) PROVE LocalsOK
BY DEF TypeOK, Answer, LocalsOK, Pc

LEMMA GotoTyped ==
  ASSUME TypeOK, NEW r \in Req, NEW l \in Pc, Goto(r, l) PROVE LocalsOK
BY DEF TypeOK, Goto, LocalsOK

LEMMA WithTyped ==
  ASSUME TypeOK, NEW r \in Req, NEW l \in Pc, NEW d \in Document, With(r, d, l)
  PROVE  LocalsOK
BY DEF TypeOK, With, LocalsOK

-----------------------------------------------------------------------------
\* Nothing is stored, cached or in flight at the start.
LEMMA InitInv == Init => IndInv
<1> SUFFICES ASSUME Init PROVE IndInv
  OBVIOUS
<1> USE FreshValues DEF Init, Conv, Document, Op, Pc, Status
<1>1. TypeOK
  BY DEF TypeOK
<1>2. Control
  BY DEF Control
<1>3. Identity
  BY DEF Identity
<1>4. Handlers
  BY DEF Handlers
<1>5. Stored
  BY DEF Stored
<1>6. FillFresh
  BY DEF FillFresh
<1>7. MembersOnly
  BY DEF MembersOnly
<1>8. StoresAgree
  BY DEF StoresAgree
<1>9. SentIsVisible
  BY DEF SentIsVisible
<1>10. StaleHasCause
  BY DEF StaleHasCause
<1> QED
  BY <1>1, <1>2, <1>3, <1>4, <1>5, <1>6, <1>7, <1>8, <1>9, <1>10 DEF IndInv

\* Every step of a handler, of Redis or of the process preserves the invariant.
LEMMA NextInv == IndInv /\ [Next]_vars => IndInv'
<1> SUFFICES ASSUME IndInv, [Next]_vars PROVE IndInv'
  OBVIOUS
<1> USE FreshValues
    DEF IndInv, TypeOK, Control, Identity, Handlers, Stored, FillFresh, MembersOnly,
        StoresAgree, SentIsVisible, StaleHasCause, Conv, Document,
        Op, Pc, Status, store, request
<1>1. ASSUME NEW r \in Req, Arrive(r) PROVE IndInv'
  <2>1. TypeOK'
    BY <1>1 DEF Arrive, Arrives, Goto
  <2>2. Control'
    BY <1>1 DEF Arrive, Arrives, Goto
  <2>3. Identity'
    <3>1. PICK c \in Conv : conv' = [conv EXCEPT ![r] = c] /\ (c # Nowhere => doc[c] # None)
      BY <1>1 DEF Arrive, Arrives
    <3>2. op'[r] \in {"get", "send", "list"} /\ user'[r] \in User
      BY <1>1 DEF Arrive, Arrives
    <3> QED
      BY <1>1, <3>1, <3>2 DEF Arrive, Arrives, Goto
  <2>4. Handlers'
    BY <1>1 DEF Arrive, Arrives, Goto
  <2>5. Stored'
    BY <1>1 DEF Arrive, Arrives, Goto
  <2>6. FillFresh'
    BY <1>1 DEF Arrive, Arrives, Goto
  <2>7. MembersOnly'
    BY <1>1 DEF Arrive, Arrives, Goto
  <2>8. StoresAgree'
    BY <1>1 DEF Arrive, Arrives, Goto
  <2>9. SentIsVisible'
    BY <1>1 DEF Arrive, Arrives, Goto
  <2>10. StaleHasCause'
    BY <1>1 DEF Arrive, Arrives, Goto
  <2> QED
    BY <2>1, <2>2, <2>3, <2>4, <2>5, <2>6, <2>7, <2>8, <2>9, <2>10
<1>2. ASSUME NEW r \in Req, ArriveCreate(r) PROVE IndInv'
  <2>1. TypeOK'
    <3>1. op' \in [Req -> Op \cup {None}] /\ conv' \in [Req -> Conv \cup {None}]
      BY <1>2 DEF ArriveCreate, Arrives
    <3>2. user' \in [Req -> User \cup {None}] /\ members' \in [Conv -> SUBSET User]
      BY <1>2 DEF ArriveCreate, Arrives
    <3>3. LocalsOK
      BY <1>2, AnswerTyped, GotoTyped DEF ArriveCreate
    <3> QED
      BY <1>2, <3>1, <3>2, <3>3 DEF ArriveCreate, LocalsOK
  <2>2. Control'
    BY <1>2 DEF ArriveCreate, Arrives, Goto, Answer
  <2>3. Identity'
    BY <1>2 DEF ArriveCreate, Arrives, Goto, Answer
  <2>4. Handlers'
    BY <1>2 DEF ArriveCreate, Arrives, Goto, Answer
  <2>5. Stored'
    BY <1>2 DEF ArriveCreate, Arrives, Goto, Answer
  <2>6. FillFresh'
    BY <1>2 DEF ArriveCreate, Arrives, Goto, Answer
  <2>7. MembersOnly'
    BY <1>2 DEF ArriveCreate, Arrives, Goto, Answer
  <2>8. StoresAgree'
    BY <1>2 DEF ArriveCreate, Arrives, Goto, Answer
  <2>9. SentIsVisible'
    BY <1>2 DEF ArriveCreate, Arrives, Goto, Answer
  <2>10. StaleHasCause'
    BY <1>2 DEF ArriveCreate, Arrives, Goto, Answer
  <2> QED
    BY <2>1, <2>2, <2>3, <2>4, <2>5, <2>6, <2>7, <2>8, <2>9, <2>10
<1>3. ASSUME NEW r \in Req, StatementFails(r) PROVE IndInv'
  <2>1. TypeOK'
    BY <1>3 DEF StatementFails, Answer
  <2>2. Control'
    BY <1>3 DEF StatementFails, Answer
  <2>3. Identity'
    BY <1>3 DEF StatementFails, Answer
  <2>4. Handlers'
    BY <1>3 DEF StatementFails, Answer
  <2>5. Stored'
    BY <1>3 DEF StatementFails, Answer
  <2>6. FillFresh'
    BY <1>3 DEF StatementFails, Answer
  <2>7. MembersOnly'
    BY <1>3 DEF StatementFails, Answer
  <2>8. StoresAgree'
    BY <1>3 DEF StatementFails, Answer
  <2>9. SentIsVisible'
    BY <1>3 DEF StatementFails, Answer
  <2>10. StaleHasCause'
    BY <1>3 DEF StatementFails, Answer
  <2> QED
    BY <2>1, <2>2, <2>3, <2>4, <2>5, <2>6, <2>7, <2>8, <2>9, <2>10
<1>4. ASSUME NEW r \in Req, InsertConversation(r) PROVE IndInv'
  <2>1. TypeOK'
    <3>1. doc' \in [Conv -> Document \cup {None}]
      BY <1>4 DEF InsertConversation
    <3>2. CASE With(r, Empty, "fill")
      BY <1>4, <3>1, <3>2 DEF InsertConversation, With
    <3>3. CASE Answer(r, "500")
      BY <1>4, <3>1, <3>3 DEF InsertConversation, Answer
    <3> QED
      BY <1>4, <3>2, <3>3 DEF InsertConversation
  <2>2. Control'
    BY <1>4 DEF InsertConversation, With, Answer
  <2>3. Identity'
    BY <1>4 DEF InsertConversation, With, Answer
  <2>4. Handlers'
    BY <1>4 DEF InsertConversation, With, Answer
  <2>5. Stored'
    BY <1>4 DEF InsertConversation, With, Answer
  <2>6. FillFresh'
    BY <1>4 DEF InsertConversation, With, Answer
  <2>7. MembersOnly'
    BY <1>4 DEF InsertConversation, With, Answer
  <2>8. StoresAgree'
    BY <1>4 DEF InsertConversation, With, Answer
  <2>9. SentIsVisible'
    BY <1>4 DEF InsertConversation, With, Answer
  <2>10. StaleHasCause'
    BY <1>4 DEF InsertConversation, With, Answer
  <2> QED
    BY <2>1, <2>2, <2>3, <2>4, <2>5, <2>6, <2>7, <2>8, <2>9, <2>10
<1>5. ASSUME NEW r \in Req, Lookup(r) PROVE IndInv'
  <2>1. TypeOK'
    BY <1>5 DEF Lookup, Proceed, Goto, Answer
  <2>2. Control'
    BY <1>5 DEF Lookup, Proceed, Goto, Answer
  <2>3. Identity'
    BY <1>5 DEF Lookup, Proceed, Goto, Answer
  <2>4. Handlers'
    BY <1>5 DEF Lookup, Proceed, Goto, Answer
  <2>5. Stored'
    BY <1>5 DEF Lookup, Proceed, Goto, Answer
  <2>6. FillFresh'
    BY <1>5 DEF Lookup, Proceed, Goto, Answer
  <2>7. MembersOnly'
    BY <1>5 DEF Lookup, Proceed, Goto, Answer
  <2>8. StoresAgree'
    BY <1>5 DEF Lookup, Proceed, Goto, Answer
  <2>9. SentIsVisible'
    BY <1>5 DEF Lookup, Proceed, Goto, Answer
  <2>10. StaleHasCause'
    BY <1>5 DEF Lookup, Proceed, Goto, Answer
  <2> QED
    BY <2>1, <2>2, <2>3, <2>4, <2>5, <2>6, <2>7, <2>8, <2>9, <2>10
<1>6. ASSUME NEW r \in Req, Find(r) PROVE IndInv'
  <2>1. TypeOK'
    <3>1. doc[conv[r]] # None => doc[conv[r]] \in Document
      BY <1>6 DEF Find
    <3>2. LocalsOK
      BY <1>6, <3>1, AnswerTyped, WithTyped DEF Find
    <3> QED
      BY <1>6, <3>1, <3>2 DEF Find, LocalsOK
  <2>2. Control'
    BY <1>6 DEF Find, With, Answer
  <2>3. Identity'
    BY <1>6 DEF Find, With, Answer
  <2>4. Handlers'
    BY <1>6 DEF Find, With, Answer
  <2>5. Stored'
    BY <1>6 DEF Find, With, Answer
  <2>6. FillFresh'
    BY <1>6 DEF Find, With, Answer
  <2>7. MembersOnly'
    BY <1>6 DEF Find, With, Answer
  <2>8. StoresAgree'
    BY <1>6 DEF Find, With, Answer
  <2>9. SentIsVisible'
    BY <1>6 DEF Find, With, Answer
  <2>10. StaleHasCause'
    BY <1>6 DEF Find, With, Answer
  <2> QED
    BY <2>1, <2>2, <2>3, <2>4, <2>5, <2>6, <2>7, <2>8, <2>9, <2>10
<1>7. ASSUME NEW r \in Req, Fill(r) PROVE IndInv'
  <2>1. TypeOK'
    <3>1. cache' \in [Conv -> Document \cup {None}]
      BY <1>7 DEF Fill
    <3>2. LocalsOK
      BY <1>7, AnswerTyped, GotoTyped DEF Fill, Proceed
    <3> QED
      BY <1>7, <3>1, <3>2 DEF Fill, LocalsOK
  <2>2. Control'
    BY <1>7 DEF Fill, Proceed, Goto, Answer
  <2>3. Identity'
    BY <1>7 DEF Fill, Proceed, Goto, Answer
  <2>4. Handlers'
    BY <1>7 DEF Fill, Proceed, Goto, Answer
  <2>5. Stored'
    BY <1>7 DEF Fill, Proceed, Goto, Answer
  <2>6. FillFresh'
    BY <1>7 DEF Fill, Proceed, Goto, Answer
  <2>7. MembersOnly'
    BY <1>7 DEF Fill, Proceed, Goto, Answer
  <2>8. StoresAgree'
    BY <1>7 DEF Fill, Proceed, Goto, Answer
  <2>9. SentIsVisible'
    BY <1>7 DEF Fill, Proceed, Goto, Answer
  <2>10. StaleHasCause'
    BY <1>7 DEF Fill, Proceed, Goto, Answer
  <2> QED
    BY <2>1, <2>2, <2>3, <2>4, <2>5, <2>6, <2>7, <2>8, <2>9, <2>10
<1>8. ASSUME NEW r \in Req, ReadMessages(r) PROVE IndInv'
  <2>1. TypeOK'
    BY <1>8 DEF ReadMessages, Answer
  <2>2. Control'
    BY <1>8 DEF ReadMessages, Answer
  <2>3. Identity'
    BY <1>8 DEF ReadMessages, Answer
  <2>4. Handlers'
    BY <1>8 DEF ReadMessages, Answer
  <2>5. Stored'
    BY <1>8 DEF ReadMessages, Answer
  <2>6. FillFresh'
    BY <1>8 DEF ReadMessages, Answer
  <2>7. MembersOnly'
    BY <1>8 DEF ReadMessages, Answer
  <2>8. StoresAgree'
    BY <1>8 DEF ReadMessages, Answer
  <2>9. SentIsVisible'
    BY <1>8 DEF ReadMessages, Answer
  <2>10. StaleHasCause'
    BY <1>8 DEF ReadMessages, Answer
  <2> QED
    BY <2>1, <2>2, <2>3, <2>4, <2>5, <2>6, <2>7, <2>8, <2>9, <2>10
<1>9. ASSUME NEW r \in Req, InsertMessage(r) PROVE IndInv'
  <2>1. TypeOK'
    <3>1. LocalsOK
      BY <1>9, AnswerTyped, GotoTyped DEF InsertMessage
    <3> QED
      BY <1>9, <3>1 DEF InsertMessage, LocalsOK
  <2>2. Control'
    BY <1>9 DEF InsertMessage, Goto, Answer
  <2>3. Identity'
    BY <1>9 DEF InsertMessage, Goto, Answer
  <2>4. Handlers'
    BY <1>9 DEF InsertMessage, Goto, Answer
  <2>5. Stored'
    BY <1>9 DEF InsertMessage, Goto, Answer
  <2>6. FillFresh'
    BY <1>9 DEF InsertMessage, Goto, Answer
  <2>7. MembersOnly'
    BY <1>9 DEF InsertMessage, Goto, Answer
  <2>8. StoresAgree'
    BY <1>9 DEF InsertMessage, Goto, Answer
  <2>9. SentIsVisible'
    BY <1>9 DEF InsertMessage, Goto, Answer
  <2>10. StaleHasCause'
    BY <1>9 DEF InsertMessage, Goto, Answer
  <2> QED
    BY <2>1, <2>2, <2>3, <2>4, <2>5, <2>6, <2>7, <2>8, <2>9, <2>10
<1>10. ASSUME NEW r \in Req, Touch(r) PROVE IndInv'
  <2>1. TypeOK'
    <3>1. doc' \in [Conv -> Document \cup {None}]
      BY <1>10 DEF Touch
    <3>2. raced' \subseteq Conv
      BY <1>10 DEF Touch
    <3>3. LocalsOK
      BY <1>10, AnswerTyped, GotoTyped DEF Touch
    <3> QED
      BY <1>10, <3>1, <3>2, <3>3 DEF Touch, LocalsOK
  <2>2. Control'
    BY <1>10 DEF Touch, FillPending, Goto, Answer
  <2>3. Identity'
    BY <1>10 DEF Touch, FillPending, Goto, Answer
  <2>4. Handlers'
    BY <1>10 DEF Touch, FillPending, Goto, Answer
  <2>5. Stored'
    BY <1>10 DEF Touch, FillPending, Goto, Answer
  <2>6. FillFresh'
    BY <1>10 DEF Touch, FillPending, Goto, Answer
  <2>7. MembersOnly'
    BY <1>10 DEF Touch, FillPending, Goto, Answer
  <2>8. StoresAgree'
    BY <1>10 DEF Touch, FillPending, Goto, Answer
  <2>9. SentIsVisible'
    BY <1>10 DEF Touch, FillPending, Goto, Answer
  <2>10. StaleHasCause'
    BY <1>10 DEF Touch, FillPending, Goto, Answer
  <2> QED
    BY <2>1, <2>2, <2>3, <2>4, <2>5, <2>6, <2>7, <2>8, <2>9, <2>10
<1>11. ASSUME NEW r \in Req, Drop(r) PROVE IndInv'
  <2>1. TypeOK'
    <3>1. cache' \in [Conv -> Document \cup {None}]
      BY <1>11 DEF Drop, Uncache
    <3>2. LocalsOK
      BY <1>11, AnswerTyped DEF Drop
    <3>3. raced' \subseteq Conv
      BY <1>11 DEF Drop, Uncache
    <3> QED
      BY <1>11, <3>1, <3>2, <3>3 DEF Drop, LocalsOK
  <2>2. Control'
    BY <1>11 DEF Drop, Uncache, StaleFillPending, Answer
  <2>3. Identity'
    BY <1>11 DEF Drop, Uncache, StaleFillPending, Answer
  <2>4. Handlers'
    BY <1>11 DEF Drop, Uncache, StaleFillPending, Answer
  <2>5. Stored'
    BY <1>11 DEF Drop, Uncache, StaleFillPending, Answer
  <2>6. FillFresh'
    BY <1>11 DEF Drop, Uncache, StaleFillPending, Answer
  <2>7. MembersOnly'
    BY <1>11 DEF Drop, Uncache, StaleFillPending, Answer
  <2>8. StoresAgree'
    BY <1>11 DEF Drop, Uncache, StaleFillPending, Answer
  <2>9. SentIsVisible'
    BY <1>11 DEF Drop, Uncache, StaleFillPending, Answer
  <2>10. StaleHasCause'
    BY <1>11 DEF Drop, Uncache, StaleFillPending, Answer
  <2> QED
    BY <2>1, <2>2, <2>3, <2>4, <2>5, <2>6, <2>7, <2>8, <2>9, <2>10
<1>12. ASSUME NEW r \in Req, DropFails(r) PROVE IndInv'
  <2>1. TypeOK'
    BY <1>12 DEF DropFails, Answer
  <2>2. Control'
    BY <1>12 DEF DropFails, Answer
  <2>3. Identity'
    BY <1>12 DEF DropFails, Answer
  <2>4. Handlers'
    BY <1>12 DEF DropFails, Answer
  <2>5. Stored'
    BY <1>12 DEF DropFails, Answer
  <2>6. FillFresh'
    BY <1>12 DEF DropFails, Answer
  <2>7. MembersOnly'
    BY <1>12 DEF DropFails, Answer
  <2>8. StoresAgree'
    BY <1>12 DEF DropFails, Answer
  <2>9. SentIsVisible'
    BY <1>12 DEF DropFails, Answer
  <2>10. StaleHasCause'
    BY <1>12 DEF DropFails, Answer
  <2> QED
    BY <2>1, <2>2, <2>3, <2>4, <2>5, <2>6, <2>7, <2>8, <2>9, <2>10
<1>13. ASSUME NEW c \in Conv, Expire(c) PROVE IndInv'
  BY <1>13 DEF Expire, Uncache, StaleFillPending
<1>14. CASE Crash
  BY <1>14 DEF Crash, InFlight
<1>15. CASE UNCHANGED vars
  BY <1>15 DEF vars
<1> QED
  BY <1>1, <1>2, <1>3, <1>4, <1>5, <1>6, <1>7, <1>8,
     <1>9, <1>10, <1>11, <1>12, <1>13, <1>14, <1>15 DEF Next, Handle

-----------------------------------------------------------------------------
\* The conjunction of the properties and what makes them inductive always holds.
THEOREM Invariance == Spec => []IndInv
BY InitInv, NextInv, PTL DEF Spec

\* The variables keep their types.
THEOREM TypeCorrect == Spec => []TypeOK
<1>1. IndInv => TypeOK
  BY DEF IndInv
<1> QED
  BY <1>1, Invariance, PTL

\* Only participants read or write a conversation, cached or not.
THEOREM AuthorizationHolds == Spec => []MembersOnly
<1>1. IndInv => MembersOnly
  BY DEF IndInv
<1> QED
  BY <1>1, Invariance, PTL

\* MongoDB has every conversation Redis or a message refers to.
THEOREM StoresConsistent == Spec => []StoresAgree
<1>1. IndInv => StoresAgree
  BY DEF IndInv
<1> QED
  BY <1>1, Invariance, PTL

\* 201 means the message and its mark on the conversation are in MongoDB.
THEOREM SentVisible == Spec => []SentIsVisible
<1>1. IndInv => SentIsVisible
  BY DEF IndInv
<1> QED
  BY <1>1, Invariance, PTL

\* The cache only lags through one of the two known gaps.
THEOREM StaleCause == Spec => []StaleHasCause
<1>1. IndInv => StaleHasCause
  BY DEF IndInv
<1> QED
  BY <1>1, Invariance, PTL

-----------------------------------------------------------------------------
(* ChatService implements RemoteCall                                       *)

\* The call variables of RemoteCall, seen from chat-service.
Asked == {r \in Req : op[r] \in Writes}
Applied == {r \in Req : r \in messages \/ doc[r] # None}
Answers == [r \in Req |-> IF op[r] \in Writes THEN Outcome(status[r]) ELSE None]

\* A function that differs from f at r only.
LEMMA ChangedAt ==
  ASSUME NEW S, NEW f, NEW g, f = [x \in S |-> f[x]], g = [x \in S |-> g[x]],
         NEW r \in S, \A q \in S \ {r} : g[q] = f[q]
  PROVE  g = [f EXCEPT ![r] = g[r]]
OBVIOUS

\* A write is asked once, and refused on the spot or left waiting.
LEMMA ArriveAsks ==
  ASSUME IndInv, NEW r \in Req, Arrive(r) \/ ArriveCreate(r)
  PROVE  Caller!Ask(r) \/ UNCHANGED <<Asked, Applied, Answers>>
<1> USE FreshValues DEF IndInv, TypeOK, Control, Identity, Stored, Asked, Applied, Answers,
        Writes, Outcome, Conv, Op, Status, store
<1>1. op[r] = None /\ status[r] = None
  BY DEF Arrive, ArriveCreate, Arrives
<1>2. doc' = doc /\ messages' = messages
  BY DEF Arrive, ArriveCreate
<1>3. \A q \in Req \ {r} : op'[q] = op[q] /\ status'[q] = status[q]
  BY DEF Arrive, ArriveCreate, Arrives, Goto, Answer
<1>4. op'[r] \in {"get", "list"} => status'[r] = None
  BY <1>1 DEF Arrive, ArriveCreate, Arrives, Goto
<1>5. op'[r] \in Op /\ status'[r] \in {None, "400"}
  BY <1>1 DEF Arrive, ArriveCreate, Arrives, Goto, Answer
<1>6. Applied' = Applied
  BY <1>2
<1>7. CASE op'[r] \in {"get", "list"}
  BY <1>1, <1>3, <1>4, <1>6, <1>7
<1>8. CASE op'[r] \in Writes
  <2>1. r \notin Asked /\ Asked' = Asked \cup {r}
    BY <1>1, <1>3, <1>8
  <2>2. Answers[r] = None /\ Answers'[r] \in {None, "refused"}
    BY <1>1, <1>5, <1>8
  <2>3. \A q \in Req \ {r} : Answers'[q] = Answers[q]
    BY <1>3
  <2>4. Answers' = Answers \/ Answers' = [Answers EXCEPT ![r] = "refused"]
    <3>1. Answers = [q \in Req |-> Answers[q]] /\ Answers' = [q \in Req |-> Answers'[q]]
      OBVIOUS
    <3> HIDE DEF Answers
    <3>2. Answers' = [Answers EXCEPT ![r] = Answers'[r]]
      BY <2>3, <3>1, ChangedAt
    <3> QED
      BY <2>2, <3>1, <3>2
  <2> QED
    BY <2>1, <2>4, <1>6 DEF Caller!Ask
<1> QED
  BY <1>5, <1>7, <1>8

\* A step of the handler of r that changes neither document nor message, and
\* ends it with s or not at all.
Ends(r, s) ==
  /\ op' = op /\ Applied' = Applied
  /\ status' = [status EXCEPT ![r] = s]

\* Such an end is one of the three of RemoteCall, or no call at all.
LEMMA EndIsAnswer ==
  ASSUME IndInv, NEW r \in Req, NEW s \in Status, pc[r] \notin {"idle", "done"}, Ends(r, s),
         op[r] \in Writes /\ s = "ok" => r \in Applied,
         op[r] \in Writes /\ s \in {"400", "403", "404"} => r \notin Applied
  PROVE  [Caller!Next]_(Caller!vars)
<1> USE FreshValues DEF IndInv, TypeOK, Control, Asked, Answers, Writes, Outcome, Op, Status
<1>1. Asked' = Asked /\ status[r] = None
  BY DEF Ends
<1>2. CASE op[r] \notin Writes
  <2>1. Answers' = Answers
    BY <1>1, <1>2 DEF Ends
  <2> QED
    BY <1>1, <2>1 DEF Ends, Caller!vars, Applied
<1>3. CASE op[r] \in Writes
  <2>1. r \in Asked /\ Answers[r] = None
    BY <1>1, <1>3
  <2>2. Answers' = [Answers EXCEPT ![r] = Outcome(s)]
    BY <1>3 DEF Ends
  <2>3. CASE s = "ok"
    <3>1. Caller!Done(r)
      BY <1>1, <1>3, <2>1, <2>2, <2>3 DEF Ends, Caller!Done, Applied
    <3> QED
      BY <3>1 DEF Caller!Next
  <2>4. CASE s \in {"400", "403", "404"}
    <3>1. Caller!Refuse(r)
      BY <1>1, <1>3, <2>1, <2>2, <2>4 DEF Ends, Caller!Refuse, Applied
    <3> QED
      BY <3>1 DEF Caller!Next
  <2>5. CASE s \in {"500", "lost"}
    <3>1. Answers' = [c \in Req |-> IF c \in {r} THEN "unknown" ELSE Answers[c]]
      BY <2>2, <2>5
    <3>2. Caller!GiveUp({r})
      BY <1>1, <2>1, <3>1 DEF Ends, Caller!GiveUp, Applied
    <3> QED
      BY <2>1, <3>2 DEF Caller!Next
  <2> QED
    BY <2>3, <2>4, <2>5
<1> QED
  BY <1>2, <1>3

\* Storing the conversation or the message makes the change, told or untold.
LEMMA InsertApplies ==
  ASSUME IndInv, NEW r \in Req, InsertConversation(r) \/ InsertMessage(r)
  PROVE  Caller!Apply(r)
<1> USE FreshValues DEF IndInv, TypeOK, Control, Identity, Handlers, Stored, Asked, Applied,
        Answers, Writes, Outcome, Conv, Op, Pc, Status, store, request
<1>1. op[r] \in Writes /\ status[r] = None /\ op' = op
  BY DEF InsertConversation, InsertMessage
<1>2. r \notin Applied
  BY DEF InsertConversation, InsertMessage
<1>3. Applied' = Applied \cup {r}
  BY DEF InsertConversation, InsertMessage
<1>4. status' = status \/ status' = [status EXCEPT ![r] = "500"]
  BY DEF InsertConversation, InsertMessage, With, Goto, Answer
<1>5. Answers[r] = None /\ (Answers' = Answers \/ Answers' = [Answers EXCEPT ![r] = "unknown"])
  <2>1. Answers[r] = None
    BY <1>1
  <2>2. CASE status' = status
    BY <1>1, <2>2
  <2>3. CASE status' = [status EXCEPT ![r] = "500"]
    <3>1. Answers'[r] = "unknown" /\ \A q \in Req \ {r} : Answers'[q] = Answers[q]
      BY <1>1, <2>3
    <3>2. Answers = [q \in Req |-> Answers[q]] /\ Answers' = [q \in Req |-> Answers'[q]]
      OBVIOUS
    <3> HIDE DEF Answers
    <3> QED
      BY <2>1, <3>1, <3>2, ChangedAt
  <2> QED
    BY <1>4, <2>1, <2>2, <2>3
<1> QED
  BY <1>1, <1>2, <1>3, <1>5 DEF Caller!Apply

LEMMA GiveUpIsStep ==
  ASSUME NEW C \in SUBSET Asked, Caller!GiveUp(C)
  PROVE  Caller!Next
BY DEF Caller!Next, Asked

\* A dying process leaves every waiting write in doubt.
LEMMA CrashGivesUp ==
  ASSUME IndInv, Crash
  PROVE  [Caller!Next]_(Caller!vars)
<1> DEFINE C == {r \in Asked : InFlight(r)}
<1>1. Asked' = Asked /\ Applied' = Applied
  BY DEF Crash, Asked, Applied, store, request
<1>2. Answers' = [c \in Req |-> IF c \in C THEN "unknown" ELSE Answers[c]]
  BY FreshValues DEF Crash, request, Asked, Answers, Writes, Outcome, InFlight, IndInv,
     TypeOK, Control, Op, Status
<1>3. C \in SUBSET Asked /\ \A c \in C : Answers[c] = None
  BY FreshValues DEF Asked, Answers, Writes, Outcome, InFlight, IndInv, TypeOK, Control,
     Op, Status
<1>4. Answers = [c \in Req |-> Answers[c]]
  BY DEF Answers
<1> HIDE DEF C
<1>5. CASE C = {}
  <2>1. Answers' = Answers
    BY <1>2, <1>4, <1>5
  <2> QED
    BY <1>1, <2>1 DEF Caller!vars, Asked, Applied, Answers
<1>6. CASE C # {}
  <2>1. PICK K \in SUBSET Asked : K = C
    BY <1>3
  <2>2. Caller!GiveUp(K)
    BY <1>1, <1>2, <1>3, <1>6, <2>1 DEF Caller!GiveUp, Asked, Applied, Answers
  <2> QED
    BY <2>2, GiveUpIsStep
<1> QED
  BY <1>5, <1>6

\* Every step of chat-service is a step of RemoteCall or leaves it alone.
LEMMA StepRefines == IndInv /\ [Next]_vars => [Caller!Next]_(Caller!vars)
<1> SUFFICES ASSUME IndInv, [Next]_vars PROVE [Caller!Next]_(Caller!vars)
  OBVIOUS
<1>1. ASSUME NEW r \in Req, Arrive(r) \/ ArriveCreate(r) PROVE [Caller!Next]_(Caller!vars)
  BY <1>1, ArriveAsks DEF Caller!Next, Caller!vars, Asked, Applied, Answers
<1>2. ASSUME NEW r \in Req, InsertConversation(r) \/ InsertMessage(r)
      PROVE  [Caller!Next]_(Caller!vars)
  BY <1>2, InsertApplies DEF Caller!Next
<1>3. ASSUME NEW r \in Req,
             \/ StatementFails(r) \/ Lookup(r) \/ Find(r) \/ Fill(r) \/ ReadMessages(r)
             \/ Touch(r) \/ Drop(r) \/ DropFails(r)
      PROVE  [Caller!Next]_(Caller!vars)
  <2> USE DEF StatementFails, Lookup, Find, Fill, ReadMessages, Touch, Drop, DropFails
  <2>1. pc[r] \notin {"idle", "done"} /\ op' = op
    BY <1>3 DEF request
  <2>2. Applied' = Applied
    BY <1>3, FreshValues DEF Applied, store, IndInv, TypeOK, Identity, Handlers, Conv, Document
  <2>3. CASE status' = status
    BY <2>1, <2>2, <2>3 DEF Caller!vars, Asked, Applied, Answers
  <2>4. ASSUME NEW s \in Status, Answer(r, s),
               op[r] \in Writes /\ s = "ok" => r \in Applied,
               op[r] \in Writes /\ s \in {"400", "403", "404"} => r \notin Applied
        PROVE  [Caller!Next]_(Caller!vars)
    BY <2>1, <2>2, <2>4, EndIsAnswer DEF Ends, Answer
  <2>5. \/ status' = status
        \/ \E s \in Status :
             /\ Answer(r, s)
             /\ s = "ok" =>
                  \/ op[r] \in {"get", "list"}
                  \/ op[r] = "create" /\ pc[r] = "fill"
                  \/ pc[r] = "drop"
             /\ s \in {"400", "403", "404"} =>
                  pc[r] \in {"lookup", "find", "fill"} /\ op[r] # "create"
    BY <1>3 DEF Proceed, Goto, With, Status, IndInv, Control
  <2>6. (op[r] = "create" /\ pc[r] = "fill") \/ pc[r] = "drop" => r \in Applied
    BY FreshValues DEF Applied, IndInv, Identity, Handlers, Stored
  <2>7. pc[r] \in {"lookup", "find", "fill"} /\ op[r] # "create" => r \notin Applied
    BY DEF Applied, IndInv, Identity, Stored
  <2> QED
    BY <2>3, <2>4, <2>5, <2>6, <2>7 DEF Writes
<1>4. ASSUME NEW c \in Conv, Expire(c) PROVE [Caller!Next]_(Caller!vars)
  BY <1>4 DEF Expire, store, request, Caller!vars, Asked, Applied, Answers
<1>5. CASE Crash
  BY <1>5, CrashGivesUp
<1>6. CASE UNCHANGED vars
  BY <1>6 DEF vars, Caller!vars
<1> QED
  BY <1>1, <1>2, <1>3, <1>4, <1>5, <1>6 DEF Next, Handle

\* What chat-service answers to a create or a send is what RemoteCall says an
\* answer means, whatever fails between the statements.
THEOREM Refinement == Spec => ImplementsRemoteCall
<1>1. Init => Caller!Init
  BY FreshValues DEF Init, Caller!Init, Writes, Op, Conv
<1> QED
  BY <1>1, StepRefines, Invariance, PTL DEF Spec, ImplementsRemoteCall, Caller!Spec

-----------------------------------------------------------------------------
(* What follows from RemoteCall                                            *)

\* RemoteCall again, seen through the module of its proofs.
Told == INSTANCE RemoteCallProofs WITH
  Call <- Req,
  asked <- {r \in Req : op[r] \in Writes},
  applied <- {r \in Req : r \in messages \/ doc[r] # None},
  answer <- [r \in Req |-> IF op[r] \in Writes THEN Outcome(status[r]) ELSE None]

LEMMA CallsAgain == ImplementsRemoteCall => Told!Spec
<1>1. Caller!Init => Told!Init
  BY DEF Caller!Init, Told!Init
<1>2. [Caller!Next]_(Caller!vars) => [Told!Next]_(Told!vars)
  BY DEF Caller!Next, Told!Next, Caller!vars, Told!vars, Caller!Ask, Told!Ask,
     Caller!Apply, Told!Apply, Caller!Done, Told!Done, Caller!Refuse, Told!Refuse,
     Caller!GiveUp, Told!GiveUp
<1> QED
  BY <1>1, <1>2, PTL DEF ImplementsRemoteCall, Caller!Spec, Told!Spec

\* What chat-service inherits: a write answered 2xx is in MongoDB and one answered
\* 400, 403 or 404 is not, ...
THEOREM AnswersAreTrue == Spec => []Told!AnswersAreTrue
<1>1. Told!NoneIsNoAnswer
  BY NoneIsNoOutcome DEF Told!NoneIsNoAnswer, Told!Answers
<1> QED
  BY <1>1, Refinement, CallsAgain, Told!AnswersTrue, PTL

\* ... nor is it stored after the refusal.
THEOREM RefusedForGood == Spec => Told!RefusedForGood
<1>1. Told!NoneIsNoAnswer
  BY NoneIsNoOutcome DEF Told!NoneIsNoAnswer, Told!Answers
<1> QED
  BY <1>1, Refinement, CallsAgain, Told!RefusalsLast, PTL
=============================================================================
