---------------------------- MODULE RequestReply ----------------------------
(***************************************************************************)
(* What a client may rely on when it asks the server for work that another *)
(* service does: a request is answered at most once, and only requests     *)
(* that were made are answered.                                            *)
(***************************************************************************)
EXTENDS Naturals

CONSTANT Requests

VARIABLES asked,    \* requests made
          answers   \* how often each one was answered

vars == <<asked, answers>>

Init == asked = {} /\ answers = [r \in Requests |-> 0]

Ask(r) == /\ r \notin asked
          /\ asked' = asked \cup {r}
          /\ UNCHANGED answers

Answer(r) == /\ r \in asked /\ answers[r] = 0
             /\ answers' = [answers EXCEPT ![r] = 1]
             /\ UNCHANGED asked

Next == \E r \in Requests : Ask(r) \/ Answer(r)

Spec == Init /\ [][Next]_vars
=============================================================================
