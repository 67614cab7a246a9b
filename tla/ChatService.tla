----------------------------- MODULE ChatService -----------------------------
(***************************************************************************)
(* chat-service's HTTP side: conversations and messages in MongoDB, and    *)
(* conversations cached in Redis for 60 seconds (read: cache, else MongoDB *)
(* and fill; write: update MongoDB, then delete the cache entry).          *)
(*                                                                         *)
(* One action per await.  The generated identifiers (conversation id,      *)
(* message id) are named after the request that generates them.  Of a      *)
(* conversation document only what changes is kept: the message its        *)
(* lastMessageAt and lastMessagePreview come from.                         *)
(***************************************************************************)
CONSTANTS
  Req,       \* HTTP requests, each handled once
  User,
  Nowhere,   \* a well-formed id no conversation has
  Empty,     \* the document of a conversation nobody has written to yet
  None       \* no value

Op == {"create", "get", "send", "list"}
Pc == {"idle", "insertConv", "lookup", "find", "fill", "insertMsg", "touch", "drop",
       "read", "done"}
Status == {"ok", "400", "403", "404", "500", "lost"}

ASSUME FreshValues ==
  /\ Nowhere \notin Req /\ Empty \notin Req /\ Empty # None
  /\ None \notin Req \cup User \cup Op \cup Status \cup {Nowhere}
ASSUME NoneIsNoOutcome == None \notin {"done", "refused", "unknown"}

Conv == Req \cup {Nowhere}
Document == Req \cup {Empty}

VARIABLES
  doc,       \* conversations: doc[c] the document, None if there is none
  members,   \* participantIds of each conversation
  messages,  \* messages: the ids of the documents; conv and user give the rest
  cache,     \* Redis: the copy under conversation:<c>, None if there is none
  op, conv, user,   \* what request r asks, of which conversation, for whom
  pc,        \* pc[r]: the await its handler is suspended at
  copy,      \* copy[r]: the conversation getConversationById works with
  status,    \* status[r]: the answer
  raced      \* history: since the entry of c was last emptied for good, a fill
             \* overlapped a touch of c or a touch lost its delete

store == <<doc, members, messages>>
request == <<op, conv, user>>
vars == <<doc, members, messages, cache, op, conv, user, pc, copy, status, raced>>

TypeOK ==
  /\ doc \in [Conv -> Document \cup {None}]
  /\ members \in [Conv -> SUBSET User]
  /\ messages \subseteq Req
  /\ cache \in [Conv -> Document \cup {None}]
  /\ op \in [Req -> Op \cup {None}]
  /\ conv \in [Req -> Conv \cup {None}]
  /\ user \in [Req -> User \cup {None}]
  /\ pc \in [Req -> Pc]
  /\ copy \in [Req -> Document \cup {None}]
  /\ status \in [Req -> Status \cup {None}]
  /\ raced \subseteq Conv

Init ==
  /\ doc = [c \in Conv |-> None] /\ members = [c \in Conv |-> {}] /\ messages = {}
  /\ cache = [c \in Conv |-> None]
  /\ op = [r \in Req |-> None] /\ conv = [r \in Req |-> None] /\ user = [r \in Req |-> None]
  /\ pc = [r \in Req |-> "idle"]
  /\ copy = [r \in Req |-> None]
  /\ status = [r \in Req |-> None]
  /\ raced = {}

-----------------------------------------------------------------------------
Goto(r, label) == pc' = [pc EXCEPT ![r] = label] /\ UNCHANGED <<status, copy>>

\* Go on with the conversation d in hand.
With(r, d, label) ==
  /\ pc' = [pc EXCEPT ![r] = label]
  /\ copy' = [copy EXCEPT ![r] = d]
  /\ UNCHANGED status

Answer(r, s) ==
  /\ pc' = [pc EXCEPT ![r] = "done"]
  /\ status' = [status EXCEPT ![r] = s]
  /\ copy' = [copy EXCEPT ![r] = None]

Arrives(r, o, c, u) ==
  /\ pc[r] = "idle"
  /\ op' = [op EXCEPT ![r] = o]
  /\ conv' = [conv EXCEPT ![r] = c]
  /\ user' = [user EXCEPT ![r] = u]

\* GET /conversations/:id, GET and POST /conversations/:id/messages.
Arrive(r) ==
  /\ \E o \in {"get", "send", "list"}, c \in {d \in Conv : doc[d] # None} \cup {Nowhere},
        u \in User : Arrives(r, o, c, u)
  /\ Goto(r, "lookup")
  /\ UNCHANGED <<store, cache, raced>>

\* POST /conversations: the caller joins the listed participants; a conversation
\* needs someone else too.
ArriveCreate(r) ==
  \E u \in User, P \in SUBSET User \ {{}} :
    /\ Arrives(r, "create", r, u)
    /\ IF P \cup {u} = {u}
       THEN Answer(r, "400") /\ UNCHANGED members
       ELSE Goto(r, "insertConv") /\ members' = [members EXCEPT ![r] = P \cup {u}]
    /\ UNCHANGED <<doc, messages, cache, raced>>

\* MongoDB or Redis fails before anything changed.
StatementFails(r) ==
  /\ pc[r] \in {"insertConv", "lookup", "find", "fill", "insertMsg", "touch", "read"}
  /\ Answer(r, "500")
  /\ UNCHANGED <<store, cache, request, raced>>

-----------------------------------------------------------------------------
(* createConversation                                                      *)

InsertConversation(r) ==
  /\ pc[r] = "insertConv"
  /\ doc' = [doc EXCEPT ![r] = Empty]
  /\ With(r, Empty, "fill") \/ Answer(r, "500")
  /\ UNCHANGED <<members, messages, cache, request, raced>>

-----------------------------------------------------------------------------
(* getConversationById, which get, send and list begin with                *)

\* Mutant: touchConversation before the message is stored.
ProceedTouchFirst(r) ==
  IF user[r] \notin members[conv[r]] THEN Answer(r, "403")
  ELSE \/ op[r] = "get" /\ Answer(r, "ok")
       \/ op[r] = "send" /\ Goto(r, "touch")
       \/ op[r] = "list" /\ Goto(r, "read")

\* What the handler does with the conversation, in the same turn: the
\* participant check, then the answer or the next statement.
Proceed(r) ==
  IF user[r] \notin members[conv[r]] THEN Answer(r, "403")
  ELSE \/ op[r] = "get" /\ Answer(r, "ok")
       \/ op[r] = "send" /\ Goto(r, "insertMsg")
       \/ op[r] = "list" /\ Goto(r, "read")

\* Mutant: a cached conversation is used without the participant check.
LookupUnchecked(r) ==
  /\ pc[r] = "lookup"
  /\ IF cache[conv[r]] = None THEN Goto(r, "find")
     ELSE \/ op[r] = "get" /\ Answer(r, "ok")
          \/ op[r] = "send" /\ Goto(r, "insertMsg")
          \/ op[r] = "list" /\ Goto(r, "read")
  /\ UNCHANGED <<store, cache, request, raced>>

\* Mutant: createMessage stores before it looks at the conversation.
LookupStoresFirst(r) ==
  /\ pc[r] = "lookup"
  /\ IF cache[conv[r]] = None THEN Goto(r, "find") ELSE Proceed(r)
  /\ messages' = IF op[r] = "send" THEN messages \cup {r} ELSE messages
  /\ UNCHANGED <<doc, members, cache, request, raced>>

Lookup(r) ==
  /\ pc[r] = "lookup"
  /\ IF cache[conv[r]] = None THEN Goto(r, "find") ELSE Proceed(r)
  /\ UNCHANGED <<store, cache, request, raced>>

Find(r) ==
  /\ pc[r] = "find"
  /\ IF doc[conv[r]] = None THEN Answer(r, "404") ELSE With(r, doc[conv[r]], "fill")
  /\ UNCHANGED <<store, cache, request, raced>>

\* SETEX with the copy read before, whatever happened to the document since.
Fill(r) ==
  /\ pc[r] = "fill"
  /\ cache' = [cache EXCEPT ![conv[r]] = copy[r]]
  /\ \/ op[r] = "create" /\ Answer(r, "ok")
     \/ op[r] # "create" /\ Proceed(r)
     \/ Answer(r, "500")
  /\ UNCHANGED <<store, request, raced>>

ReadMessages(r) ==
  /\ pc[r] = "read"
  /\ Answer(r, "ok")
  /\ UNCHANGED <<store, cache, request, raced>>

-----------------------------------------------------------------------------
(* createMessage                                                           *)

\* Mutant: the sender stored in place of the message.
InsertMessageSwapped(r) ==
  /\ pc[r] = "insertMsg"
  /\ messages' = messages \cup {user[r]}
  /\ Goto(r, "touch") \/ Answer(r, "500")
  /\ UNCHANGED <<doc, members, cache, request, raced>>

\* Mutant: touchConversation only deletes the cache entry.
InsertMessageUntouched(r) ==
  /\ pc[r] = "insertMsg"
  /\ messages' = messages \cup {r}
  /\ Goto(r, "drop") \/ Answer(r, "500")
  /\ UNCHANGED <<doc, members, cache, request, raced>>

InsertMessage(r) ==
  /\ pc[r] = "insertMsg"
  /\ messages' = messages \cup {r}
  /\ Goto(r, "touch") \/ Answer(r, "500")
  /\ UNCHANGED <<doc, members, cache, request, raced>>

FillPending(c) == \E q \in Req : pc[q] = "fill" /\ conv[q] = c
StaleFillPending(c) == \E q \in Req : pc[q] = "fill" /\ conv[q] = c /\ copy[q] # doc[c]

\* The entry of c is deleted.  That ends what went wrong before, unless a handler
\* is still about to write an outdated copy.
Uncache(c) ==
  /\ cache' = [cache EXCEPT ![c] = None]
  /\ raced' = IF StaleFillPending(c) THEN raced ELSE raced \ {c}

\* touchConversation, first half: updateOne matches the document by id.
Touch(r) ==
  /\ pc[r] = "touch"
  /\ doc' = [doc EXCEPT ![conv[r]] = IF @ = None THEN None ELSE r]
  /\ \/ /\ Goto(r, "drop")
        /\ raced' = IF FillPending(conv[r]) THEN raced \cup {conv[r]} ELSE raced
     \/ Answer(r, "500") /\ raced' = raced \cup {conv[r]}
  /\ UNCHANGED <<members, messages, cache, request>>

\* Mutant: touchConversation without the DEL.
DropNothing(r) ==
  /\ pc[r] = "drop"
  /\ Answer(r, "ok") \/ Answer(r, "500")
  /\ UNCHANGED <<store, cache, request, raced>>

\* Second half: DEL, then 201.  If Redis fails the client is told 500 although
\* the message is stored.
Drop(r) ==
  /\ pc[r] = "drop"
  /\ Uncache(conv[r])
  /\ Answer(r, "ok") \/ Answer(r, "500")
  /\ UNCHANGED <<store, request>>

DropFails(r) ==
  /\ pc[r] = "drop"
  /\ Answer(r, "500")
  /\ raced' = raced \cup {conv[r]}
  /\ UNCHANGED <<store, cache, request>>

-----------------------------------------------------------------------------
\* The 60 seconds of an entry are over, or Redis lost it.
Expire(c) ==
  /\ cache[c] # None
  /\ Uncache(c)
  /\ UNCHANGED <<store, request, pc, copy, status>>

InFlight(r) == pc[r] \notin {"idle", "done"}

\* The process dies and is started again: every handler is forgotten.
Crash ==
  /\ \E r \in Req : InFlight(r)
  /\ pc' = [r \in Req |-> IF InFlight(r) THEN "done" ELSE pc[r]]
  /\ status' = [r \in Req |-> IF InFlight(r) THEN "lost" ELSE status[r]]
  /\ raced' = raced \cup {conv[r] : r \in {q \in Req : pc[q] = "drop"}}
  /\ copy' = [r \in Req |-> None]
  /\ UNCHANGED <<store, cache, request>>

Handle(r) ==
  \/ StatementFails(r)
  \/ InsertConversation(r)
  \/ Lookup(r) \/ Find(r) \/ Fill(r) \/ ReadMessages(r)
  \/ InsertMessage(r) \/ Touch(r) \/ Drop(r) \/ DropFails(r)

Next ==
  \/ \E r \in Req : Arrive(r) \/ ArriveCreate(r) \/ Handle(r)
  \/ \E c \in Conv : Expire(c)
  \/ Crash

Spec == Init /\ [][Next]_vars

-----------------------------------------------------------------------------
(* Properties                                                              *)

\* Neither a cached copy nor a conversation still being created lets anyone but
\* a participant read a conversation, list its messages or write into it.
MembersOnly ==
  /\ \A r \in Req : op[r] \in {"get", "list"} /\ status[r] = "ok" => user[r] \in members[conv[r]]
  /\ \A m \in messages : user[m] \in members[conv[m]]

\* Across the two stores: a cached conversation and the conversation of every
\* message exist in MongoDB, and what the cache shows as the last message is a
\* message of that conversation.
StoresAgree ==
  /\ \A c \in Conv : cache[c] # None => doc[c] # None
  /\ \A m \in messages : doc[conv[m]] # None
  /\ \A c \in Conv : {doc[c], cache[c]} \cap Req \subseteq {m \in messages : conv[m] = c}

\* When a send is answered 201 the message is stored and its conversation no
\* longer looks empty, in MongoDB.
SentIsVisible ==
  \A r \in Req : op[r] = "send" /\ status[r] = "ok" =>
    r \in messages /\ doc[conv[r]] \notin {Empty, None}

\* The cache lags behind MongoDB only while a delete is on its way, or because
\* of the two known gaps: a fill that overlapped a touch, a touch whose delete
\* never happened; either lasts until the entry is next deleted or expires.  In
\* particular requests that come one after another, none of whose deletes failed,
\* always see the last message.
StaleHasCause ==
  \A c \in Conv : cache[c] \notin {None, doc[c]} =>
    c \in raced \/ \E r \in Req : pc[r] = "drop" /\ conv[r] = c

\* What a client may conclude from the answer to a create or a send: 201 means
\* stored for good, 400, 403 and 404 that nothing was or will be stored, so that
\* only a 500 or a lost connection makes a retry a risk.
Outcome(s) ==
  CASE s = None -> None
    [] s = "ok" -> "done"
    [] s \in {"500", "lost"} -> "unknown"
    [] OTHER -> "refused"

Writes == {"create", "send"}
Caller == INSTANCE RemoteCall WITH
  Call <- Req,
  asked <- {r \in Req : op[r] \in Writes},
  applied <- {r \in Req : r \in messages \/ doc[r] # None},
  answer <- [r \in Req |-> IF op[r] \in Writes THEN Outcome(status[r]) ELSE None]
ImplementsRemoteCall == Caller!Spec
=============================================================================
