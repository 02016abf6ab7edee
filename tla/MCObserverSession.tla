------------------------- MODULE MCObserverSession -------------------------
(***************************************************************************)
(* An instance of ObserverSession for TLC: two threads that log in, a      *)
(* clock that lets every token but the last expire, one fault.             *)
(***************************************************************************)
EXTENDS ObserverSession, TLC
=============================================================================
