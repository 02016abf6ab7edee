----------------------------- MODULE MCPersonas -----------------------------
(***************************************************************************)
(* A persona of everybody and one of a user, two language models; a user   *)
(* and a guest edit, and the observer's account is an administrator.       *)
(***************************************************************************)
EXTENDS Personas, TLC

CONSTANTS shared, own, u1, l1, l2, everybody, guest, klat

MCOwner == shared :> everybody @@ own :> u1

MCSymmetry == Permutations({l1, l2})
=============================================================================
