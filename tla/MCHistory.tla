------------------------------ MODULE MCHistory ------------------------------
(***************************************************************************)
(* A chat with three messages, one of them in a prompt, read in pages of   *)
(* one message.                                                            *)
(***************************************************************************)
EXTENDS History, TLC

CONSTANTS m1, m2, m3, p1, l1, l2

MCPromptOf == m1 :> NoPrompt @@ m2 :> NoPrompt @@ m3 :> p1
MCOlderPage == [skin \in Skins |-> 1]

\* m1 and m2 play the same part, and so do the loads.
MCSymmetry == Permutations({m1, m2}) \cup Permutations({l1, l2})
=============================================================================
