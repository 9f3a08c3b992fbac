---------------------------- MODULE LookupService ----------------------------
(***************************************************************************)
(* What the resolver promises its callers, the detectors: within one scan  *)
(* a question has at most one answer.  Everyone who asks is told that      *)
(* answer or gets an error; once it is known, asking cannot fail.          *)
(***************************************************************************)
CONSTANTS
  Caller,      \* goroutines that look names up
  Question,    \* a name together with a record type
  Answer,      \* what a name server can say
  NoQuestion, NoAnswer

VARIABLES
  answer,      \* the answer of every question, once there is one
  asking,      \* the question each caller waits on
  told         \* the answers callers have been given

vars == <<answer, asking, told>>

Init ==
  /\ answer = [q \in Question |-> NoAnswer]
  /\ asking = [p \in Caller |-> NoQuestion]
  /\ told = {}

Ask(p, q) ==
  /\ asking[p] = NoQuestion /\ answer[q] = NoAnswer
  /\ asking' = [asking EXCEPT ![p] = q]
  /\ UNCHANGED <<answer, told>>

Recall(p, q) ==
  /\ asking[p] = NoQuestion /\ answer[q] # NoAnswer
  /\ told' = told \cup {<<q, answer[q]>>}
  /\ UNCHANGED <<answer, asking>>

Settle(q, a) ==
  /\ answer[q] = NoAnswer
  /\ \E p \in Caller : asking[p] = q
  /\ answer' = [answer EXCEPT ![q] = a]
  /\ UNCHANGED <<asking, told>>

Tell(p) ==
  /\ asking[p] # NoQuestion /\ answer[asking[p]] # NoAnswer
  /\ told' = told \cup {<<asking[p], answer[asking[p]]>>}
  /\ asking' = [asking EXCEPT ![p] = NoQuestion]
  /\ UNCHANGED answer

Fail(p) ==
  /\ asking[p] # NoQuestion
  /\ asking' = [asking EXCEPT ![p] = NoQuestion]
  /\ UNCHANGED <<answer, told>>

Next ==
  \/ \E p \in Caller, q \in Question : Ask(p, q) \/ Recall(p, q)
  \/ \E q \in Question, a \in Answer : Settle(q, a)
  \/ \E p \in Caller : Tell(p) \/ Fail(p)

Spec == Init /\ [][Next]_vars

=============================================================================
