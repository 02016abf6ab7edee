---------------------------- MODULE EventChannel ----------------------------
(***************************************************************************)
(* What a caller of ChatObserver._sio_emit may rely on, whatever happens   *)
(* to the Socket.IO connection: an event that was handed over reaches the  *)
(* server at most once, and nothing reaches the server that was not handed *)
(* over.  The order of delivery is left open, and so is delivery itself.   *)
(***************************************************************************)
EXTENDS Sequences, Functions

CONSTANT Events

VARIABLES accepted,   \* events handed to _sio_emit so far
          sent        \* events the server received, oldest first

vars == <<accepted, sent>>

Init == /\ accepted = {}
        /\ sent = <<>>

\* A handler of the observer hands over a new event.
Submit(e) == /\ e \notin accepted
             /\ accepted' = accepted \cup {e}
             /\ UNCHANGED sent

\* The server receives an event it has not received before.
Deliver(e) == /\ e \in accepted
              /\ \A i \in 1..Len(sent) : sent[i] # e
              /\ sent' = Append(sent, e)
              /\ UNCHANGED accepted

Next == \E e \in Events : Submit(e) \/ Deliver(e)

Spec == Init /\ [][Next]_vars
=============================================================================
