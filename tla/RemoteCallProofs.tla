-------------------------- MODULE RemoteCallProofs --------------------------
(***************************************************************************)
(* What every implementation of RemoteCall inherits: answers are true, and *)
(* a refused call is never carried out afterwards.                         *)
(***************************************************************************)
EXTENDS RemoteCall, TLAPS

\* What the theorems assume of None: a value of its own.
NoneIsNoAnswer == None \notin Answers

\* A call nobody made has no answer and no effect.
IndInv ==
  /\ TypeOK /\ AnswersAreTrue
  /\ \A c \in Call : answer[c] # None \/ c \in applied => c \in asked

\* At the start nothing was asked.
LEMMA InitInv ==
  ASSUME NoneIsNoAnswer PROVE Init => IndInv
BY DEF NoneIsNoAnswer, Init, IndInv, TypeOK, AnswersAreTrue, Answers

\* Asking, applying, answering and giving up keep the answers true.
LEMMA NextInv ==
  ASSUME NoneIsNoAnswer PROVE IndInv /\ [Next]_vars => IndInv'
<1> SUFFICES ASSUME IndInv, [Next]_vars PROVE IndInv'
  OBVIOUS
<1> USE DEF NoneIsNoAnswer, IndInv, TypeOK, AnswersAreTrue, Answers
<1>1. ASSUME NEW c \in Call, Ask(c) PROVE IndInv'
  BY <1>1 DEF Ask
<1>2. ASSUME NEW c \in Call, Apply(c) PROVE IndInv'
  BY <1>2 DEF Apply
<1>3. ASSUME NEW c \in Call, Done(c) \/ Refuse(c) PROVE IndInv'
  BY <1>3 DEF Done, Refuse
<1>4. ASSUME NEW C \in SUBSET asked, GiveUp(C) PROVE IndInv'
  BY <1>4 DEF GiveUp
<1>5. CASE UNCHANGED vars
  BY <1>5 DEF vars
<1> QED
  BY <1>1, <1>2, <1>3, <1>4, <1>5 DEF Next

\* "done" is only heard of what was done, "refused" of what was not.
THEOREM AnswersTrue ==
  ASSUME NoneIsNoAnswer PROVE Spec => []AnswersAreTrue
<1>1. IndInv => AnswersAreTrue
  BY DEF IndInv
<1> QED
  BY <1>1, InitInv, NextInv, PTL DEF Spec

\* After a refusal the call is never carried out, however late.
THEOREM RefusalsLast ==
  ASSUME NoneIsNoAnswer PROVE Spec => RefusedForGood
<1>1. IndInv /\ [Next]_vars =>
        [\A c \in Call : answer[c] = "refused" => c \notin applied']_vars
  <2> SUFFICES ASSUME IndInv, Next, NEW c \in Call, answer[c] = "refused"
               PROVE  c \notin applied'
    OBVIOUS
  <2> USE DEF NoneIsNoAnswer, IndInv, TypeOK, AnswersAreTrue, Answers
  <2>1. ASSUME NEW d \in Call, Ask(d) \/ Apply(d) \/ Done(d) \/ Refuse(d)
        PROVE  c \notin applied'
    BY <2>1 DEF Ask, Apply, Done, Refuse
  <2>2. ASSUME NEW C \in SUBSET asked, GiveUp(C) PROVE c \notin applied'
    BY <2>2 DEF GiveUp
  <2> QED
    BY <2>1, <2>2 DEF Next
<1> QED
  BY <1>1, InitInv, NextInv, PTL DEF Spec, RefusedForGood
=============================================================================
