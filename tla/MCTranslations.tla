--------------------------- MODULE MCTranslations ---------------------------
(***************************************************************************)
(* Two messages in one chat: m1 was written in French, m2 in English; x is *)
(* a message that was just shown under the client's own id.               *)
(***************************************************************************)
EXTENDS Translations, TLC

CONSTANTS c1, c2, k1, m1, m2, x

MCOrigin == m1 :> "fr" @@ m2 :> "en"
MCChatOf == m1 :> k1 @@ m2 :> k1 @@ x :> k1
MCHiding == c1 :> {k1} @@ c2 :> {}
=============================================================================
