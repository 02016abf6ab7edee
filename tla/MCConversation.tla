--------------------------- MODULE MCConversation ---------------------------
(***************************************************************************)
(* Two users in two chats and one prompt: u1 responds twice, u2 answers in *)
(* a state that a prompt does not keep, u2 votes, and a plain message goes *)
(* to the other chat.  The prompt is completed with a winner and votes, or *)
(* with another winner only.                                               *)
(***************************************************************************)
EXTENDS Conversation, TLC

CONSTANTS m1, m2, m3, m4, m5, u1, u2, k1, k2, p1, o1, o2

MCAuthor == m1 :> u1 @@ m2 :> u1 @@ m3 :> u2 @@ m4 :> u2 @@ m5 :> u2
MCChatOf == m1 :> k1 @@ m2 :> k1 @@ m3 :> k1 @@ m4 :> k2 @@ m5 :> k1
MCPromptOf == m1 :> p1 @@ m2 :> p1 @@ m3 :> p1 @@ m4 :> NoPrompt @@ m5 :> p1
MCStateOf == m1 :> "RESP" @@ m2 :> "RESP" @@ m3 :> "PICK" @@ m4 :> "IDLE"
             @@ m5 :> "VOTE"
MCContexts == {[winner |-> o1, votes_per_submind |-> o1],
               [winner |-> o2, votes_per_submind |-> NoOutcome]}
MCSymmetry == Permutations({m1, m2})
=============================================================================
