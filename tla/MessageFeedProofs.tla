-------------------------- MODULE MessageFeedProofs --------------------------
(* Proofs about MessageFeed, for any set of messages, page size and clock. *)
EXTENDS MessageFeed, FiniteSetTheorems, TLAPS

(***************************************************************************)
(* The inductive invariant: the facts the three properties rest on.        *)
(***************************************************************************)

\* A send knows the sends before it as over, and is none of them.
BeforeIsOver == \A q \in Msg : \A m \in before[q] : pc[m] \in {"done", "failed"} /\ m # q

\* A message is stored between its insert and the end of its handler.
StoredInTime ==
  \A m \in Msg :
    /\ m \in stored => pc[m] \in {"touch", "done", "failed"}
    /\ pc[m] = "insert" => created[m] > 0

\* The reader has got stored messages, none newer than its cursor.
SeenIsPassed ==
  \A m \in seen["chat"] : m \in stored /\ created[m] <= cursor["chat"]

\* A cursor comes from a message the reader has got.
CursorIsSeen ==
  cursor["chat"] > 0 => \E p \in seen["chat"] : created[p] = cursor["chat"]

IndInv ==
  /\ TypeOK /\ BeforeIsOver /\ StoredInTime /\ SeenIsPassed /\ CursorIsSeen
  /\ ShowsTheLatest /\ SkippedHasCause

\* What the reader has got that is at least as new as m.
Newer(m) == {q \in seen["chat"] : created[q] >= created[m]}

\* The reader at chat-service and what it can be shown, untouched.
FeedSame == UNCHANGED <<created, stored, before, seen, cursor>>

-----------------------------------------------------------------------------

\* Nothing is sent or read when the service starts.
LEMMA InitInv == Init => IndInv
BY FeedAssumption
   DEF Init, IndInv, TypeOK, BeforeIsOver, StoredInTime, SeenIsPassed, CursorIsSeen,
       ShowsTheLatest, SkippedHasCause, Door, Time

\* A larger set of newer messages has no fewer of them.
LEMMA NewerGrows ==
  ASSUME NEW S, NEW T \in SUBSET Msg, S \subseteq T, Cardinality(S) >= Limit
  PROVE  Cardinality(T) >= Limit
<1>1. IsFiniteSet(T)
  BY FeedAssumption, FS_Subset
<1>2. IsFiniteSet(S) /\ Cardinality(S) <= Cardinality(T)
  BY <1>1, FS_Subset
<1> QED
  BY <1>1, <1>2, FeedAssumption, FS_CardinalityType

\* Steps that leave messages and reader alone keep what is said about them.
LEMMA SameSkipped == SkippedHasCause /\ FeedSame => SkippedHasCause'
BY DEF SkippedHasCause, FeedSame

\* The beginning of a send: it records which sends are over.
LEMMA BeginInv ==
  ASSUME IndInv, NEW m \in Msg, Begin(m)
  PROVE  IndInv'
<1> USE DEF IndInv, Begin, Goto, reader
<1>1. TypeOK'
  BY DEF TypeOK
<1>2. BeforeIsOver'
  BY DEF TypeOK, BeforeIsOver
<1>3. StoredInTime' /\ SeenIsPassed' /\ CursorIsSeen' /\ ShowsTheLatest'
  BY DEF TypeOK, StoredInTime, SeenIsPassed, CursorIsSeen, ShowsTheLatest
<1>4. \A q \in seen["chat"] : before'[q] = before[q]
  BY DEF TypeOK, StoredInTime, SeenIsPassed, Door
<1>5. SkippedHasCause'
  BY <1>4 DEF SkippedHasCause
<1> QED
  BY <1>1, <1>2, <1>3, <1>5

\* The stamp: only a message that is not stored yet gets a new createdAt.
LEMMA StampInv ==
  ASSUME IndInv, NEW m \in Msg, Stamp(m)
  PROVE  IndInv'
<1> USE DEF IndInv, Stamp, Goto, reader
<1>1. TypeOK'
  BY DEF TypeOK
<1>2. m \notin stored /\ \A q \in stored : q \in Msg /\ created'[q] = created[q]
  BY DEF TypeOK, StoredInTime
<1>3. BeforeIsOver' /\ ShowsTheLatest'
  BY DEF TypeOK, BeforeIsOver, ShowsTheLatest
<1>4. StoredInTime'
  BY DEF TypeOK, StoredInTime, Time
<1>5. SeenIsPassed' /\ CursorIsSeen'
  BY <1>2 DEF SeenIsPassed, CursorIsSeen
<1>6. ASSUME NEW q \in stored \ seen["chat"]
      PROVE  {p \in seen["chat"] : created'[p] >= created'[q]}
               = {p \in seen["chat"] : created[p] >= created[q]}
  BY <1>2 DEF SeenIsPassed
<1>7. SkippedHasCause'
  BY <1>2, <1>6 DEF SkippedHasCause
<1> QED
  BY <1>1, <1>3, <1>4, <1>5, <1>7

\* The insert: a message the cursor has passed already overlaps the message
\* the cursor comes from.
LEMMA InsertInv ==
  ASSUME IndInv, NEW m \in Msg, Insert(m)
  PROVE  IndInv'
<1> USE DEF IndInv, Insert, Goto, reader
<1>1. TypeOK'
  BY DEF TypeOK
<1>2. BeforeIsOver' /\ StoredInTime' /\ ShowsTheLatest'
  BY DEF TypeOK, BeforeIsOver, StoredInTime, ShowsTheLatest
<1>3. SeenIsPassed' /\ CursorIsSeen'
  BY DEF SeenIsPassed, CursorIsSeen
<1>4. ASSUME created[m] <= cursor["chat"]
      PROVE  \E q \in Newer(m) : m \notin before[q]
  <2>1. created[m] \in Nat /\ created[m] > 0 /\ cursor["chat"] \in Nat
    BY DEF TypeOK, StoredInTime, Time, Door
  <2>2. PICK p \in seen["chat"] : created[p] = cursor["chat"]
    BY <1>4, <2>1 DEF CursorIsSeen
  <2>3. p \in Newer(m)
    BY <1>4, <2>1, <2>2 DEF Newer
  <2>4. m \notin before[p]
    BY <2>2 DEF BeforeIsOver, SeenIsPassed, TypeOK
  <2> QED
    BY <2>3, <2>4
<1>5. SkippedHasCause'
  BY <1>4 DEF SkippedHasCause, Newer
<1> QED
  BY <1>1, <1>2, <1>3, <1>5

\* The touch: a send that is over is touched no more, so no later send knows
\* this one as over.
LEMMA TouchInv ==
  ASSUME IndInv, NEW m \in Msg, Touch(m)
  PROVE  IndInv'
<1> USE DEF IndInv, Touch, Goto, reader
<1>1. TypeOK' /\ BeforeIsOver' /\ StoredInTime' /\ ShowsTheLatest'
  BY DEF TypeOK, BeforeIsOver, StoredInTime, ShowsTheLatest
<1>2. SeenIsPassed' /\ CursorIsSeen'
  BY DEF SeenIsPassed, CursorIsSeen
<1>3. SkippedHasCause'
  BY SameSkipped DEF FeedSame
<1> QED
  BY <1>1, <1>2, <1>3

\* A failure ends a handler and changes nothing else.
LEMMA FailsInv ==
  ASSUME IndInv, NEW m \in Msg, Fails(m)
  PROVE  IndInv'
<1> USE DEF IndInv, Fails, Goto, reader
<1>1. TypeOK' /\ BeforeIsOver' /\ StoredInTime' /\ ShowsTheLatest'
  BY DEF TypeOK, BeforeIsOver, StoredInTime, ShowsTheLatest
<1>2. SeenIsPassed' /\ CursorIsSeen'
  BY DEF SeenIsPassed, CursorIsSeen
<1>3. SkippedHasCause'
  BY SameSkipped DEF FeedSame
<1> QED
  BY <1>1, <1>2, <1>3

\* A page of chat-service: later than the cursor, newest first.
LEMMA ListInv ==
  ASSUME IndInv, NEW P \in NewestOf(LaterThan(cursor["chat"])), Show("chat", P)
  PROVE  IndInv'
<1> USE DEF IndInv, Show
<1>1. /\ P \subseteq stored /\ P \subseteq Msg
      /\ \A p \in P : created[p] > cursor["chat"]
      /\ seen'["chat"] = seen["chat"] \cup P
  BY DEF NewestOf, LaterThan, TypeOK, Door
<1>2. cursor["chat"] \in Nat /\ \A q \in Msg : created[q] \in Nat
  BY DEF TypeOK, Time, Door
<1>3. TypeOK'
  BY <1>1 DEF TypeOK, Door
<1>4. BeforeIsOver' /\ StoredInTime' /\ ShowsTheLatest'
  BY DEF BeforeIsOver, StoredInTime, ShowsTheLatest
<1>5. /\ cursor'["chat"] \in Nat /\ cursor'["chat"] >= cursor["chat"]
      /\ \A p \in P : created[p] <= cursor'["chat"]
      /\ P = {} => cursor' = cursor
      /\ P # {} => \E p \in P : cursor'["chat"] = created[p]
  <2>1. CASE P = {}
    <3>1. cursor' = cursor
      BY <2>1
    <3> QED
      BY <1>2, <2>1, <3>1
  <2>2. CASE P # {}
    <3>1. PICK p \in P : /\ \A q \in P : created[q] <= created[p]
                         /\ cursor' = [cursor EXCEPT !["chat"] = created[p]]
      BY <2>2
    <3>2. cursor'["chat"] = created[p]
      BY <3>1 DEF TypeOK, Door
    <3> QED
      BY <1>1, <1>2, <2>2, <3>1, <3>2
  <2> QED
    BY <2>1, <2>2
<1>6. SeenIsPassed' /\ CursorIsSeen'
  <2>1. SeenIsPassed'
    BY <1>1, <1>2, <1>5 DEF SeenIsPassed, TypeOK
  <2>2. CursorIsSeen'
    BY <1>1, <1>5 DEF CursorIsSeen
  <2> QED
    BY <2>1, <2>2
<1>7. ASSUME NEW m \in stored \ seen'["chat"], created[m] <= cursor'["chat"]
      PROVE  \/ Cardinality(Newer(m)') >= Limit
             \/ \E q \in Newer(m)' : m \notin before[q]
  <2>1. m \in Msg /\ m \in stored \ seen["chat"] /\ m \notin P
    BY <1>1, <1>7 DEF TypeOK
  <2>2. Newer(m) \subseteq Newer(m)' /\ Newer(m)' \subseteq Msg
    BY <1>1, <1>3 DEF Newer, TypeOK, Door
  <2>3. CASE created[m] <= cursor["chat"]
    BY <2>1, <2>2, <2>3, NewerGrows DEF SkippedHasCause, Newer
  <2>4. CASE created[m] > cursor["chat"]
    <3>1. m \in LaterThan(cursor["chat"])
      BY <2>1, <2>4 DEF LaterThan
    <3>2. Cardinality(P) = Limit /\ \A p \in P : created[p] >= created[m]
      BY <2>1, <3>1 DEF NewestOf
    <3>3. P \subseteq Newer(m)'
      BY <1>1, <3>2 DEF Newer
    <3>4. Cardinality(P) >= Limit
      BY <3>2, FeedAssumption
    <3> QED
      BY <2>2, <3>3, <3>4, NewerGrows
  <2> QED
    BY <1>2, <2>1, <2>3, <2>4
<1>8. SkippedHasCause'
  BY <1>7 DEF SkippedHasCause, Newer
<1> QED
  BY <1>3, <1>4, <1>6, <1>8

\* A page through the gateway moves that door's reader only.
LEMMA GatewayInv ==
  ASSUME IndInv, NEW P \in NewestOf(stored), Show("gateway", P)
  PROVE  IndInv'
<1> USE DEF IndInv, Show
<1>1. seen'["chat"] = seen["chat"] /\ cursor'["chat"] = cursor["chat"]
  BY DEF TypeOK, Door
<1>2. TypeOK'
  BY DEF TypeOK, NewestOf, Door
<1>3. BeforeIsOver' /\ StoredInTime' /\ ShowsTheLatest'
  BY DEF BeforeIsOver, StoredInTime, ShowsTheLatest
<1>4. SeenIsPassed' /\ CursorIsSeen' /\ SkippedHasCause'
  BY <1>1 DEF SeenIsPassed, CursorIsSeen, SkippedHasCause
<1> QED
  BY <1>2, <1>3, <1>4

LEMMA NextInv == IndInv /\ [Next]_vars => IndInv'
<1> SUFFICES ASSUME IndInv, [Next]_vars PROVE IndInv'
  OBVIOUS
<1>1. CASE Tick
  <2>1. TypeOK'
    BY <1>1, FeedAssumption DEF Tick, IndInv, TypeOK, Time, reader
  <2> QED
    BY <1>1, <2>1, SameSkipped
       DEF Tick, IndInv, FeedSame, reader, BeforeIsOver, StoredInTime, SeenIsPassed,
           CursorIsSeen, ShowsTheLatest
<1>2. ASSUME NEW m \in Msg, Begin(m) \/ Stamp(m) \/ Insert(m) \/ Touch(m) \/ Fails(m)
      PROVE  IndInv'
  BY <1>2, BeginInv, StampInv, InsertInv, TouchInv, FailsInv
<1>3. CASE List
  BY <1>3, ListInv DEF List
<1>4. CASE ListViaGateway
  BY <1>4, GatewayInv DEF ListViaGateway
<1>5. CASE UNCHANGED vars
  BY <1>5, SameSkipped
     DEF vars, reader, IndInv, FeedSame, TypeOK, BeforeIsOver, StoredInTime, SeenIsPassed,
         CursorIsSeen, ShowsTheLatest
<1> QED
  BY <1>1, <1>2, <1>3, <1>4, <1>5 DEF Next

-----------------------------------------------------------------------------

\* The facts above hold in every reachable state of the feed.
THEOREM Invariance == Spec => []IndInv
<1>1. Init => IndInv
  BY InitInv
<1>2. IndInv /\ [Next]_vars => IndInv'
  BY NextInv
<1> QED
  BY <1>1, <1>2, PTL DEF Spec

\* The types of messages, handlers and readers.
THEOREM TypeCorrect == Spec => []TypeOK
<1>1. IndInv => TypeOK
  BY DEF IndInv
<1> QED
  BY <1>1, Invariance, PTL

\* touchConversation: sends that come one after the other are shown in order,
\* however many others overlap them.
THEOREM ShowsLatest == Spec => []ShowsTheLatest
<1>1. IndInv => ShowsTheLatest
  BY DEF IndInv
<1> QED
  BY <1>1, Invariance, PTL

\* findByConversation: what a cursor skips overlapped what was shown, or gave
\* way to a full page.
THEOREM SkipsHaveACause == Spec => []SkippedHasCause
<1>1. IndInv => SkippedHasCause
  BY DEF IndInv
<1> QED
  BY <1>1, Invariance, PTL

\* $gt: a reader that follows its cursor gets no message twice.
THEOREM NoRepeats == Spec => NeverTwice
<1>1. ASSUME IndInv, Next, page'["chat"] # page["chat"]
      PROVE  page'["chat"] \cap seen["chat"] = {}
  <2>1. CASE List
    <3>1. PICK P \in NewestOf(LaterThan(cursor["chat"])) : Show("chat", P)
      BY <2>1 DEF List
    <3>2. page'["chat"] = P
      BY <1>1, <3>1 DEF Show, IndInv, TypeOK, Door
    <3>3. \A p \in P : p \in Msg /\ created[p] > cursor["chat"]
      BY <1>1, <3>1 DEF NewestOf, LaterThan, IndInv, TypeOK
    <3>4. cursor["chat"] \in Nat /\ \A p \in Msg : created[p] \in Nat
      BY <1>1 DEF IndInv, TypeOK, Door, Time
    <3> QED
      BY <1>1, <3>2, <3>3, <3>4 DEF IndInv, SeenIsPassed
  <2>2. CASE ListViaGateway
    BY <1>1, <2>2 DEF ListViaGateway, Show, IndInv, TypeOK, Door
  <2>3. CASE Tick \/ \E m \in Msg : Begin(m) \/ Stamp(m) \/ Insert(m) \/ Touch(m) \/ Fails(m)
    BY <1>1, <2>3 DEF Tick, Begin, Stamp, Insert, Touch, Fails, reader
  <2> QED
    BY <1>1, <2>1, <2>2, <2>3 DEF Next
<1>2. IndInv /\ [Next]_vars
        => [page'["chat"] # page["chat"] => page'["chat"] \cap seen["chat"] = {}]_vars
  BY <1>1
<1> QED
  BY <1>2, Invariance, PTL DEF Spec, NeverTwice

\* A message that has its stamp and that the reader's cursor has passed, stored
\* already or not.
Skipped(m) ==
  /\ pc[m] \notin {"idle", "stamp"}
  /\ created[m] <= cursor["chat"] /\ m \notin seen["chat"]

\* A cursor never goes back and a stamp never changes.
LEMMA SkippedStep ==
  ASSUME NEW m \in Msg, IndInv, [Next]_vars, Skipped(m)
  PROVE  Skipped(m)'
<1> USE DEF Skipped
<1>1. cursor["chat"] \in Nat /\ \A q \in Msg : created[q] \in Nat
  BY DEF IndInv, TypeOK, Door, Time
<1>2. ASSUME NEW P \in NewestOf(LaterThan(cursor["chat"])), Show("chat", P)
      PROVE  Skipped(m)'
  <2>1. /\ \A p \in P : p \in Msg /\ created[p] > cursor["chat"]
        /\ seen'["chat"] = seen["chat"] \cup P
        /\ pc' = pc /\ created' = created
    BY <1>2 DEF NewestOf, LaterThan, IndInv, TypeOK, Door, Show
  <2>2. m \notin seen'["chat"]
    BY <1>1, <2>1
  <2>3. cursor'["chat"] = cursor["chat"] \/ \E p \in P : cursor'["chat"] = created[p]
    BY <1>2 DEF Show, IndInv, TypeOK, Door
  <2>4. created[m] <= cursor'["chat"]
    BY <1>1, <2>1, <2>3
  <2> QED
    BY <2>1, <2>2, <2>4
<1>3. ASSUME NEW P \in NewestOf(stored), Show("gateway", P)
      PROVE  Skipped(m)'
  BY <1>3 DEF Show, IndInv, TypeOK, Door
<1>4. ASSUME NEW q \in Msg, Begin(q) \/ Stamp(q) \/ Insert(q) \/ Touch(q) \/ Fails(q)
      PROVE  Skipped(m)'
  BY <1>4 DEF Begin, Stamp, Insert, Touch, Fails, Goto, reader, IndInv, TypeOK
<1>5. CASE Tick \/ UNCHANGED vars
  BY <1>5 DEF Tick, vars, reader
<1> QED
  BY <1>2, <1>3, <1>4, <1>5 DEF Next, List, ListViaGateway

\* $gt: what the cursor has passed unseen is lost to this reader, even when it is
\* stored only afterwards; nothing it can ask for brings it back.
THEOREM SkippedForGood ==
  Spec => \A m \in Msg : [](Skipped(m) => [](m \notin seen["chat"]))
<1> SUFFICES ASSUME NEW m \in Msg
             PROVE  Spec => [](Skipped(m) => [](m \notin seen["chat"]))
  OBVIOUS
<1>1. IndInv /\ [Next]_vars => (Skipped(m) => Skipped(m)')
  BY SkippedStep
<1>2. Skipped(m) => m \notin seen["chat"]
  BY DEF Skipped
<1> QED
  BY <1>1, <1>2, Invariance, PTL DEF Spec
=============================================================================
