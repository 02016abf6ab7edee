--------------------------- MODULE MCObserverLink ---------------------------
(***************************************************************************)
(* Instances of ObserverLink for TLC: a thread per role that the races     *)
(* need, and bounds on faults that let every error path run.               *)
(***************************************************************************)
EXTENDS ObserverLink, TLC

CONSTANTS w1, w2, t1, t2, e1, e2

SafetySym == Permutations({w1, w2}) \cup Permutations({e1, e2})
=============================================================================
