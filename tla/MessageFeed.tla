----------------------------- MODULE MessageFeed -----------------------------
(***************************************************************************)
(* The messages of one conversation as its readers see them: which ones a  *)
(* page holds, and which one the conversation shows as its last.  Messages *)
(* are stamped before MongoDB stores them and the conversation is touched  *)
(* afterwards, so stamps, inserts and touches of overlapping sends may     *)
(* come in three different orders.  Authorization, cache and answers       *)
(* belong to ChatService.                                                  *)
(***************************************************************************)
EXTENDS Naturals, FiniteSets

CONSTANTS
  Msg,       \* the messages, named after the requests that send them
  Limit,     \* messages per page
  MaxTime,   \* bound on the clock
  None       \* no message

ASSUME FeedAssumption ==
  /\ IsFiniteSet(Msg) /\ None \notin Msg
  /\ Limit \in Nat \ {0} /\ MaxTime \in Nat

\* A reader takes its pages from chat-service itself or through the gateway.
Door == {"chat", "gateway"}
Time == 0..MaxTime

VARIABLES
  clock,      \* new Date()
  pc,         \* pc[m]: where the handler that sends m is
  created,    \* createdAt of each message, 0 before it is stamped
  stored,     \* the messages MongoDB has
  last,       \* the message the conversation's lastMessage fields come from
  before,     \* history: the sends that were over, answered or failed, when m's began
  seen, page, \* what the reader at each door has got, and its last page
  cursor      \* the newest createdAt it has seen

reader == <<seen, page, cursor>>
vars == <<clock, pc, created, stored, last, before, seen, page, cursor>>

TypeOK ==
  /\ clock \in Time
  /\ pc \in [Msg -> {"idle", "stamp", "insert", "touch", "done", "failed"}]
  /\ created \in [Msg -> Time]
  /\ stored \subseteq Msg
  /\ last \in Msg \cup {None}
  /\ before \in [Msg -> SUBSET Msg]
  /\ seen \in [Door -> SUBSET Msg]
  /\ page \in [Door -> SUBSET Msg]
  /\ cursor \in [Door -> Time]

Init ==
  /\ clock = 0
  /\ pc = [m \in Msg |-> "idle"] /\ created = [m \in Msg |-> 0]
  /\ stored = {} /\ last = None
  /\ before = [m \in Msg |-> {}]
  /\ seen = [d \in Door |-> {}] /\ page = [d \in Door |-> {}] /\ cursor = [d \in Door |-> 0]

Tick ==
  /\ clock < MaxTime
  /\ clock' = clock + 1
  /\ UNCHANGED <<pc, created, stored, last, before, reader>>

-----------------------------------------------------------------------------
(* createMessage, past its participant check                               *)

Goto(m, label) == pc' = [pc EXCEPT ![m] = label]

Begin(m) ==
  /\ pc[m] = "idle"
  /\ Goto(m, "stamp")
  /\ before' = [before EXCEPT ![m] = {q \in Msg : pc[q] \in {"done", "failed"}}]
  /\ UNCHANGED <<clock, created, stored, last, reader>>

\* const now = new Date(), then insertOne is under way.
Stamp(m) ==
  /\ pc[m] = "stamp" /\ clock > 0
  /\ Goto(m, "insert")
  /\ created' = [created EXCEPT ![m] = clock]
  /\ UNCHANGED <<clock, stored, last, before, reader>>

\* MongoDB stores the message; the acknowledgement may be lost.  A statement is
\* applied before its handler fails or not at all.
Insert(m) ==
  /\ pc[m] = "insert"
  /\ stored' = stored \cup {m}
  /\ Goto(m, "touch") \/ Goto(m, "failed")
  /\ UNCHANGED <<clock, created, last, before, reader>>

\* updateOne, in the order in which MongoDB gets the updates.
Touch(m) ==
  /\ pc[m] = "touch"
  /\ last' = m
  /\ Goto(m, "done") \/ Goto(m, "failed")
  /\ UNCHANGED <<clock, created, stored, before, reader>>

\* Mutant: a failed touch is logged and the send answered 201.
FailsSwallowed(m) ==
  /\ pc[m] \in {"stamp", "insert", "touch"}
  /\ Goto(m, IF pc[m] = "touch" THEN "done" ELSE "failed")
  /\ UNCHANGED <<clock, created, stored, last, before, reader>>

\* A statement fails before it changes anything, or the process dies.
Fails(m) ==
  /\ pc[m] \in {"stamp", "insert", "touch"}
  /\ Goto(m, "failed")
  /\ UNCHANGED <<clock, created, stored, last, before, reader>>

-----------------------------------------------------------------------------
(* findByConversation                                                      *)

\* Mutant: { createdAt: { $gte: options.after } }.
LaterThanOrAt(t) == {m \in stored : created[m] >= t}

LaterThan(t) == {m \in stored : created[m] > t}

\* Mutant: a limit without a sort.
AnyOf(S) ==
  {P \in SUBSET S :
     /\ P = S \/ Cardinality(P) = Limit
     /\ Cardinality(P) <= Limit}

\* Newest first, at most Limit; equal stamps come in any order.
NewestOf(S) ==
  {P \in SUBSET S :
     /\ P = S \/ Cardinality(P) = Limit
     /\ Cardinality(P) <= Limit
     /\ \A p \in P, m \in S \ P : created[p] >= created[m]}

\* Mutant: the page is pushed as one element.
ShowNested(d, P) ==
  /\ page' = [page EXCEPT ![d] = P]
  /\ seen' = [seen EXCEPT ![d] = @ \cup {P}]
  /\ \/ P = {} /\ UNCHANGED cursor
     \/ \E p \in P : /\ \A q \in P : created[q] <= created[p]
                     /\ cursor' = [cursor EXCEPT ![d] = created[p]]
  /\ UNCHANGED <<clock, pc, created, stored, last, before>>

\* The reader at door d gets P and moves its cursor to the newest stamp in it.
Show(d, P) ==
  /\ page' = [page EXCEPT ![d] = P]
  /\ seen' = [seen EXCEPT ![d] = @ \cup P]
  /\ \/ P = {} /\ UNCHANGED cursor
     \/ \E p \in P : /\ \A q \in P : created[q] <= created[p]
                     /\ cursor' = [cursor EXCEPT ![d] = created[p]]
  /\ UNCHANGED <<clock, pc, created, stored, last, before>>

\* GET /conversations/:id/messages?after=<cursor> of chat-service.
List == \E P \in NewestOf(LaterThan(cursor["chat"])) : Show("chat", P)

\* Through the gateway, which forwards no query at all.
ListViaGateway == \E P \in NewestOf(stored) : Show("gateway", P)

Next ==
  \/ Tick
  \/ \E m \in Msg : Begin(m) \/ Stamp(m) \/ Insert(m) \/ Touch(m) \/ Fails(m)
  \/ List \/ ListViaGateway

Spec == Init /\ [][Next]_vars

-----------------------------------------------------------------------------
(* Properties                                                              *)

\* The conversation never shows a message whose send was over, answered or
\* failed, before a later, answered one began (touchConversation).  Touches are
\* applied in any order, so among sends that overlap the older one may stay on
\* show.  The stamps of lastMessageAt itself are not modelled.
ShowsTheLatest ==
  \A m, q \in Msg : last = m /\ pc[q] = "done" => m \notin before[q]

\* A reader that follows its cursor gets no message twice ($gt): a page that
\* differs from the one before it holds nothing the reader has got.  A page equal
\* to the one before it changes nothing here, so the property says nothing of it.
NeverTwice == [][page'["chat"] # page["chat"] => page'["chat"] \cap seen["chat"] = {}]_vars

\* A stored message that the cursor has passed unseen was still being sent when
\* the send of one that was seen began (it was stamped earlier and stored later,
\* or in the same millisecond), or Limit messages as new as it were listed instead: newest first with a limit
\* skips whatever lies between cursor and page.  A reader that asks once per
\* Limit messages misses none of the sends that come one after the other.
SkippedHasCause ==
  \A m \in stored \ seen["chat"] : created[m] <= cursor["chat"] =>
    LET newer == {q \in seen["chat"] : created[q] >= created[m]}
    IN  \/ Cardinality(newer) >= Limit
        \/ \E q \in newer : m \notin before[q]

\* "Message pagination with cursor-based navigation" (README.md:66): the page
\* after a cursor holds only what came after it, at either door.
PageFollowsCursor ==
  [][\A d \in Door : page'[d] # page[d] => \A m \in page'[d] : created[m] > cursor[d]]_vars
=============================================================================
