---------------------------- MODULE MCChatLayout ----------------------------
(***************************************************************************)
(* A chat of before and one that is created, on a page for one card.       *)
(***************************************************************************)
EXTENDS ChatLayout, TLC

CONSTANTS h1, h2, h3, k1, n1

\* Handlers play the same part.
MCSymmetry == Permutations({h1, h2, h3})
=============================================================================
