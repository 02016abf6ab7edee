----------------------------- MODULE MCAccounts -----------------------------
(***************************************************************************)
(* Two tabs of a browser, a nickname that a person, a bot and Neon may     *)
(* have, and sessions that live for two ticks and are refreshed after one. *)
(***************************************************************************)
EXTENDS Accounts, TLC

CONSTANTS a, b

MCSymmetry == Permutations(Tabs)
=============================================================================
