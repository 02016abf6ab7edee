------------------------------ MODULE MCMedia ------------------------------
(***************************************************************************)
(* A message of Neon that comes with speech in two languages, one of them  *)
(* under Neon's own code, and may be translated, a recording, two sessions *)
(* that ask for speech and two uploads.                                    *)
(***************************************************************************)
EXTENDS Media, TLC

CONSTANTS text, recording, a, b, u1, p1, p2

MCSpoken == text :> {<<"en-us", "female">>, <<"uk", "female">>} @@ recording :> {}

MCSymmetry == Permutations({a, b}) \cup Permutations({p1, p2})
=============================================================================
