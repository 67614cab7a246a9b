----------------------------- MODULE RemoteCall -----------------------------
(***************************************************************************)
(* What a caller may conclude from the answer to a call that changes        *)
(* something: "done" means the change was made, "refused" that it was not   *)
(* made and never will be, and "unknown" nothing at all: the change may be  *)
(* there, may never come, or may still happen.  A call is carried out at    *)
(* most once.  AuthService, ChatService and, seen from its clients, Gateway *)
(* implement this.                                                          *)
(***************************************************************************)
CONSTANTS Call, None

VARIABLES
  asked,      \* the calls made so far
  applied,    \* the calls whose change has been made
  answer      \* answer[c]: what the caller was told, None while it waits

vars == <<asked, applied, answer>>

Answers == {"done", "refused", "unknown"}

TypeOK ==
  /\ asked \subseteq Call
  /\ applied \subseteq Call
  /\ answer \in [Call -> Answers \cup {None}]

Init ==
  /\ asked = {} /\ applied = {}
  /\ answer = [c \in Call |-> None]

\* A call may be refused, or given up, on the spot.
Ask(c) ==
  /\ c \notin asked
  /\ asked' = asked \cup {c}
  /\ \/ answer' = answer
     \/ \E a \in {"refused", "unknown"} : answer' = [answer EXCEPT ![c] = a]
  /\ UNCHANGED applied

\* The change is made: before the caller hears of it, in the step that tells
\* it, or after the caller has given up.
Apply(c) ==
  /\ c \in asked \ applied
  /\ answer[c] \in {None, "unknown"}
  /\ applied' = applied \cup {c}
  /\ \/ answer' = answer
     \/ answer[c] = None /\ \E a \in {"done", "unknown"} : answer' = [answer EXCEPT ![c] = a]
  /\ UNCHANGED asked

Done(c) ==
  /\ c \in applied /\ answer[c] = None
  /\ answer' = [answer EXCEPT ![c] = "done"]
  /\ UNCHANGED <<asked, applied>>

Refuse(c) ==
  /\ c \in asked \ applied /\ answer[c] = None
  /\ answer' = [answer EXCEPT ![c] = "refused"]
  /\ UNCHANGED <<asked, applied>>

\* A process that dies leaves all its callers without an answer at once.
GiveUp(C) ==
  /\ C # {} /\ C \subseteq asked
  /\ \A c \in C : answer[c] = None
  /\ answer' = [c \in Call |-> IF c \in C THEN "unknown" ELSE answer[c]]
  /\ UNCHANGED <<asked, applied>>

Next ==
  \/ \E c \in Call : Ask(c) \/ Apply(c) \/ Done(c) \/ Refuse(c)
  \/ \E C \in SUBSET asked : GiveUp(C)

Spec == Init /\ [][Next]_vars

-----------------------------------------------------------------------------
\* What the answers mean to the caller.
AnswersAreTrue ==
  \A c \in Call : /\ answer[c] = "done" => c \in applied
                  /\ answer[c] = "refused" => c \notin applied

\* A refused call is never carried out later, however late.
RefusedForGood == [][\A c \in Call : answer[c] = "refused" => c \notin applied']_vars
=============================================================================
