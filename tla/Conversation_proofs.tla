------------------------ MODULE Conversation_proofs ------------------------
(***************************************************************************)
(* The invariants of Conversation for every set of messages, users, chats  *)
(* and prompts and any number of expirations and restarts.                 *)
(***************************************************************************)
EXTENDS Conversation, FiniteSetTheorems, TLAPS

(***************************************************************************)
(* Counting is well defined: the messages of a chat are finitely many.     *)
(***************************************************************************)
LEMMA FiniteCounts ==
    ASSUME TypeOK, NEW k \in Chats
    PROVE  /\ IsFiniteSet(ShoutsIn(k)) /\ Cardinality(ShoutsIn(k)) \in Nat
           /\ IsFiniteSet(DoneIn(k)) /\ Cardinality(DoneIn(k)) \in Nat
<1>1. ShoutsIn(k) \subseteq Messages BY DEF TypeOK, ShoutsIn
<1>2. DoneIn(k) \subseteq Messages BY DEF DoneIn
<1>3. IsFiniteSet(ShoutsIn(k)) /\ IsFiniteSet(DoneIn(k))
  BY <1>1, <1>2, FS_Subset, MessagesAssumption
<1> QED BY <1>3, FS_CardinalityType

(***************************************************************************)
(* The list that get_data returns has the type of the stored one.          *)
(***************************************************************************)
LEMMA CurrentType ==
    ASSUME TypeOK
    PROVE  CurrentRecords \in [Chats -> Seq(Nat)]
<1>1. ASSUME NEW k \in Chats
      PROVE  (IF k \notin recent \/ ShoutsIn(k) = {} THEN <<>>
              ELSE <<Cardinality(ShoutsIn(k))>>) \in Seq(Nat)
  BY FiniteCounts
<1>2. Recount \in [Chats -> Seq(Nat)] BY <1>1 DEF Recount
<1> QED BY <1>2 DEF CurrentRecords, TypeOK

(***************************************************************************)
(* Counting up keeps the type and leaves the other chats alone.            *)
(***************************************************************************)
LEMMA IncrementedType ==
    ASSUME NEW recs \in [Chats -> Seq(Nat)], NEW k \in Chats
    PROVE  /\ Incremented(recs, k) \in [Chats -> Seq(Nat)]
           /\ \A j \in Chats : j # k => Incremented(recs, k)[j] = recs[j]
           /\ recs[k] = <<>> => Incremented(recs, k)[k] = <<1>>
           /\ recs[k] # <<>> =>
                 /\ Len(Incremented(recs, k)[k]) = Len(recs[k])
                 /\ Incremented(recs, k)[k][1] = recs[k][1] + 1
                 /\ Incremented(recs, k)[k] # <<>>
                 /\ recs[k][1] \in Nat
<1> DEFINE s == recs[k]
<1>1. s \in Seq(Nat) OBVIOUS
<1>2. Incremented(recs, k) = [recs EXCEPT ![k] = CountUp(s)]
  BY DEF Incremented
<1>3. CASE s = <<>>
  <2>1. CountUp(s) = <<1>> /\ CountUp(s) \in Seq(Nat) BY <1>3 DEF CountUp
  <2> QED BY <1>2, <1>3, <2>1
<1>4. CASE s # <<>>
  <2>1. Len(s) \in Nat /\ Len(s) >= 1 /\ s[1] \in Nat BY <1>1, <1>4
  <2>2. CountUp(s) = [s EXCEPT ![1] = s[1] + 1] BY <1>4 DEF CountUp
  <2>3. /\ CountUp(s) \in Seq(Nat)
        /\ Len(CountUp(s)) = Len(s)
        /\ CountUp(s)[1] = s[1] + 1
    BY <1>1, <2>1, <2>2
  <2>4. CountUp(s) # <<>> BY <2>1, <2>3
  <2> QED BY <1>2, <1>4, <2>1, <2>3, <2>4
<1> QED BY <1>3, <1>4

(***************************************************************************)
(* Every variable keeps its type, and a stored message belongs to a chat   *)
(* that exists.                                                            *)
(***************************************************************************)
THEOREM TypeCorrect == Spec => []TypeOK
<1>1. Init => TypeOK
  BY OutagesAssumption DEF Init, TypeOK, Summary
<1>2. TypeOK /\ [Next]_vars => TypeOK'
  <2> SUFFICES ASSUME TypeOK, [Next]_vars PROVE TypeOK' OBVIOUS
  <2> USE DEF database, counter
  <2>1. ASSUME NEW k \in Chats, NewConversation(k) PROVE TypeOK'
    <3>1. records' \in [Chats -> Seq(Nat)]
      BY <2>1 DEF NewConversation, TypeOK
    <3> QED BY <2>1, <3>1 DEF NewConversation, TypeOK
  <2>2. ASSUME NEW p \in Prompts, NewPrompt(p) PROVE TypeOK'
    BY <2>2 DEF NewPrompt, TypeOK
  <2>3. ASSUME NEW p \in Prompts, NEW context \in Contexts,
               PromptCompleted(p, context)
        PROVE  TypeOK'
    <3> DEFINE new == [x \in SummaryKeys |-> IF context[x] = NoOutcome
                         THEN outcome[p][x] ELSE context[x]]
    <3>1. context \in Summary /\ outcome[p] \in Summary
      BY ContextsAssumption DEF TypeOK
    <3>2. new \in Summary BY <3>1 DEF Summary
    <3>3. outcome' = [outcome EXCEPT ![p] = new]
      BY <2>3 DEF PromptCompleted, SetCompleted
    <3>4. outcome' \in [Prompts -> Summary] BY <3>2, <3>3 DEF TypeOK
    <3>5. status' \in [Prompts -> {"absent", "open", "completed"}]
      BY <2>3 DEF PromptCompleted, SetCompleted, TypeOK
    <3> QED BY <2>3, <3>4, <3>5 DEF PromptCompleted, TypeOK
  <2>4. ASSUME NEW m \in Messages, RejectMessage(m) PROVE TypeOK'
    BY <2>4 DEF RejectMessage, TypeOK
  <2>5. ASSUME NEW m \in Messages, ReceiveMessage(m) PROVE TypeOK'
    <3>0. \E x \in {"prompted", "sending", "failed"} :
             pc' = [pc EXCEPT ![m] = x]
      BY <2>5 DEF ReceiveMessage, AddShout, InsertShout, MarkRecent
    <3>1. /\ pc' \in [Messages -> {"new", "prompted", "sending", "done",
                                   "failed", "lost"}]
          /\ shouts' \in SUBSET {x \in Messages : ChatOf[x] \in chats'}
          /\ recent' \in SUBSET chats'
          /\ UNCHANGED <<chats, status, outcome, records, expired, outages>>
      BY <2>5, <3>0 DEF ReceiveMessage, AddShout, InsertShout, MarkRecent, TypeOK
    <3>2. /\ participants' \in [Prompts -> [Users -> Nat]]
          /\ answers' \in [Prompts -> [Kept -> [Users ->
                                       Messages \cup {NoMessage}]]]
      <4>1. CASE ~InOpenPrompt(m)
        BY <2>5, <4>1 DEF ReceiveMessage, TypeOK
      <4>2. CASE InOpenPrompt(m)
        <5>1. PromptOf[m] \in Prompts /\ Author[m] \in Users
          BY <4>2, MessagesAssumption DEF InOpenPrompt
        <5>2. AddParticipant(m) /\ AddAnswer(m)
          BY <2>5, <4>2 DEF ReceiveMessage, AddShout, InsertShout, MarkRecent
        <5>3. participants' \in [Prompts -> [Users -> Nat]]
          BY <5>1, <5>2 DEF AddParticipant, TypeOK
        <5>4. answers' \in [Prompts -> [Kept -> [Users ->
                                        Messages \cup {NoMessage}]]]
          BY <5>1, <5>2 DEF AddAnswer, TypeOK
        <5> QED BY <5>3, <5>4
      <4> QED BY <4>1, <4>2
    <3> QED BY <3>1, <3>2 DEF TypeOK
  <2>6. ASSUME NEW m \in Messages, AnnounceInPrompt(m) PROVE TypeOK'
    BY <2>6 DEF AnnounceInPrompt, TypeOK
  <2>7. ASSUME NEW m \in Messages, CountMessage(m) PROVE TypeOK'
    <3>1. ChatOf[m] \in Chats BY MessagesAssumption
    <3>2. records' \in [Chats -> Seq(Nat)] /\ expired' \in BOOLEAN
      BY <2>7, <3>1, CurrentType, IncrementedType
         DEF CountMessage, IncrementPopularity
    <3> QED BY <2>7, <3>2 DEF CountMessage, TypeOK
  <2>8. ASSUME SearchPopular PROVE TypeOK'
    <3>1. records' \in [Chats -> Seq(Nat)] /\ expired' \in BOOLEAN
      BY <2>8, CurrentType DEF SearchPopular, GetFirstItems
    <3> QED BY <2>8, <3>1 DEF SearchPopular, GetFirstItems, TypeOK
  <2>9. ASSUME Expire PROVE TypeOK'
    BY <2>9, OutagesAssumption DEF Expire, Fail, TypeOK
  <2>10. ASSUME Restart PROVE TypeOK'
    BY <2>10, OutagesAssumption DEF Restart, Fail, TypeOK
  <2>11. ASSUME NEW k \in Chats, FailConversation(k) PROVE TypeOK'
    BY <2>11, OutagesAssumption DEF FailConversation, Fail, TypeOK
  <2>12. ASSUME NEW m \in Messages, FailReceiving(m) PROVE TypeOK'
    <3>1. /\ pc' \in [Messages -> {"new", "prompted", "sending", "done",
                                   "failed", "lost"}]
          /\ shouts' \in SUBSET {x \in Messages : ChatOf[x] \in chats'}
          /\ recent' \in SUBSET chats'
          /\ outages' \in 0..MaxOutages
          /\ UNCHANGED <<chats, status, answers, outcome, records, expired>>
      BY <2>12, OutagesAssumption
         DEF FailReceiving, Fail, InsertShout, MarkRecent, TypeOK
    <3>2. participants' \in [Prompts -> [Users -> Nat]]
      <4>1. CASE UNCHANGED participants BY <4>1 DEF TypeOK
      <4>2. CASE InOpenPrompt(m) /\ AddParticipant(m)
        <5>1. PromptOf[m] \in Prompts /\ Author[m] \in Users
          BY <4>2, MessagesAssumption DEF InOpenPrompt
        <5> QED BY <4>2, <5>1 DEF AddParticipant, TypeOK
      <4> QED BY <2>12, <4>1, <4>2 DEF FailReceiving
    <3> QED BY <3>1, <3>2 DEF TypeOK
  <2>13. ASSUME NEW m \in Messages, FailCounting(m) PROVE TypeOK'
    <3>1. records' \in [Chats -> Seq(Nat)] /\ expired' \in BOOLEAN
      BY <2>13, CurrentType DEF FailCounting, GetFirstItems, TypeOK
    <3> QED BY <2>13, <3>1, OutagesAssumption DEF FailCounting, Fail, TypeOK
  <2>14. CASE UNCHANGED vars BY <2>14 DEF vars, TypeOK
  <2> QED
    BY <2>1, <2>2, <2>3, <2>4, <2>5, <2>6, <2>7, <2>8, <2>9, <2>10, <2>11,
       <2>12, <2>13, <2>14
       DEF Next
<1> QED BY <1>1, <1>2, PTL DEF Spec

-----------------------------------------------------------------------------
(***************************************************************************)
(* Whatever a prompt refers to is a stored message of that user, prompt    *)
(* and state (Referred), so that fetch_messages_from_prompt finds it.      *)
(***************************************************************************)
Referred ==
    \A p \in Prompts, st \in Kept, u \in Users :
        LET m == answers[p][st][u]
        IN  m # NoMessage => /\ m \in shouts
                             /\ PromptOf[m] = p
                             /\ StateOf[m] = st
                             /\ Author[m] = u

\* AnswersStored: a prompt refers only to messages that the lookup resolves.
THEOREM PromptsSound == Spec => []AnswersStored
<1>1. Init => Referred BY DEF Init, Referred
<1>2. TypeOK /\ Referred /\ [Next]_vars => Referred'
  <2> SUFFICES ASSUME TypeOK, Referred, [Next]_vars
               PROVE  Referred'
    OBVIOUS
  <2>1. ASSUME NEW m \in Messages, ReceiveMessage(m), InOpenPrompt(m),
               StateOf[m] \in Kept
        PROVE  Referred'
    <3>1. PromptOf[m] \in Prompts /\ Author[m] \in Users
      BY <2>1, MessagesAssumption DEF InOpenPrompt
    <3>2. /\ answers' = [answers EXCEPT
                           ![PromptOf[m]][StateOf[m]][Author[m]] = m]
          /\ shouts' = shouts \cup {m}
      BY <2>1 DEF ReceiveMessage, AddShout, InsertShout, MarkRecent, AddAnswer
    <3>3. SUFFICES ASSUME NEW p \in Prompts, NEW st \in Kept, NEW u \in Users,
                          answers'[p][st][u] # NoMessage
                   PROVE  LET x == answers'[p][st][u]
                          IN  /\ x \in shouts' /\ PromptOf[x] = p
                              /\ StateOf[x] = st /\ Author[x] = u
      BY DEF Referred
    <3>4. CASE p = PromptOf[m] /\ st = StateOf[m] /\ u = Author[m]
      BY <2>1, <3>1, <3>2, <3>4 DEF TypeOK
    <3>5. CASE ~(p = PromptOf[m] /\ st = StateOf[m] /\ u = Author[m])
      <4>1. answers'[p][st][u] = answers[p][st][u]
        BY <2>1, <3>1, <3>2, <3>5 DEF TypeOK
      <4> QED BY <3>2, <3>3, <4>1 DEF Referred
    <3> QED BY <3>4, <3>5
  <2>2. CASE answers' = answers /\ shouts \subseteq shouts'
    BY <2>2 DEF Referred
  <2>3. ASSUME NEW m \in Messages, ReceiveMessage(m),
               ~(InOpenPrompt(m) /\ StateOf[m] \in Kept)
        PROVE  answers' = answers /\ shouts \subseteq shouts'
    BY <2>3 DEF ReceiveMessage, AddShout, InsertShout, MarkRecent, AddAnswer
  <2>4. ASSUME ~\E m \in Messages : ReceiveMessage(m)
        PROVE  answers' = answers /\ shouts \subseteq shouts'
    BY <2>4 DEF Next, vars, database, counter, NewConversation, NewPrompt,
       PromptCompleted, SetCompleted, RejectMessage, AnnounceInPrompt, CountMessage,
       SearchPopular, GetFirstItems, Expire, Restart, FailConversation,
       FailReceiving, InsertShout, FailCounting
  <2> QED BY <2>1, <2>2, <2>3, <2>4
<1>3. Referred => AnswersStored
  BY DEF Referred, AnswersStored, FetchMessagesFromPrompt
<1> QED BY <1>1, <1>2, <1>3, TypeCorrect, PTL DEF Spec

-----------------------------------------------------------------------------
(***************************************************************************)
(* A stored response of u for p whose handler has ended before it wrote to *)
(* the prompt all it had to; no step takes it back.                        *)
(***************************************************************************)
CutShort(p, u) == \E m \in shouts : /\ pc[m] = "failed"
                                    /\ PromptOf[m] = p
                                    /\ StateOf[m] = "RESP"
                                    /\ Author[m] = u

LEMMA CutStays ==
    ASSUME TypeOK, [Next]_vars, NEW p \in Prompts, NEW u \in Users,
           CutShort(p, u)
    PROVE  CutShort(p, u)'
<1>1. PICK m \in shouts : /\ pc[m] = "failed" /\ PromptOf[m] = p
                          /\ StateOf[m] = "RESP" /\ Author[m] = u
  BY DEF CutShort
<1>2. m \in Messages BY DEF TypeOK
<1>3. shouts \subseteq shouts'
  BY DEF Next, vars, database, counter, NewConversation, NewPrompt,
     PromptCompleted, RejectMessage, ReceiveMessage, AddShout, InsertShout,
     AnnounceInPrompt, CountMessage, SearchPopular, Expire, Restart,
     FailConversation, FailReceiving, FailCounting
<1>4. pc'[m] = "failed"
  <2>1. ASSUME NEW n \in Messages,
               \/ RejectMessage(n) \/ ReceiveMessage(n) \/ FailReceiving(n)
               \/ AnnounceInPrompt(n) \/ CountMessage(n) \/ FailCounting(n)
        PROVE  pc'[m] = "failed"
    <3>1. n # m
      BY <1>1, <2>1 DEF RejectMessage, ReceiveMessage, FailReceiving,
         AnnounceInPrompt, CountMessage, FailCounting
    <3>2. \E x : pc' = [pc EXCEPT ![n] = x]
      BY <2>1 DEF RejectMessage, ReceiveMessage, FailReceiving,
         AnnounceInPrompt, CountMessage, FailCounting
    <3> QED BY <1>1, <1>2, <3>1, <3>2 DEF TypeOK
  <2>2. CASE Restart BY <1>1, <1>2, <2>2 DEF Restart
  <2>3. CASE UNCHANGED pc BY <1>1, <2>3
  <2> QED
    BY <2>1, <2>2, <2>3 DEF Next, vars, NewConversation, NewPrompt,
       PromptCompleted, SearchPopular, Expire, FailConversation
<1> QED BY <1>1, <1>3, <1>4 DEF CutShort

(***************************************************************************)
(* The part of one user in one prompt: listed at most once, listed if a    *)
(* response is kept, and else only after a handler was cut short.          *)
(***************************************************************************)
Part(p, u) ==
    /\ participants[p][u] \in {0, 1}
    /\ answers[p]["RESP"][u] # NoMessage => participants[p][u] = 1
    /\ participants[p][u] = 1 /\ answers[p]["RESP"][u] = NoMessage
          => CutShort(p, u)
Counting == \A p \in Prompts, u \in Users : Part(p, u)

\* ParticipateOnce: a user takes part once, and their response is attributed.
THEOREM Participation == Spec => []ParticipateOnce
<1>1. Init => Counting BY DEF Init, Counting, Part, Kept
<1>2. TypeOK /\ Counting /\ [Next]_vars => Counting'
  <2> SUFFICES ASSUME TypeOK, Counting, [Next]_vars,
                      NEW p \in Prompts, NEW u \in Users
               PROVE  Part(p, u)'
    BY DEF Counting
  <2>1. /\ Part(p, u)
        /\ participants \in [Prompts -> [Users -> Nat]]
        /\ "RESP" \in Kept
    BY DEF Counting, TypeOK, Kept
  <2>2. CASE /\ participants'[p][u] = participants[p][u]
             /\ answers'[p]["RESP"][u] = answers[p]["RESP"][u]
    BY <2>1, <2>2, CutStays DEF Part
  <2>3. ASSUME NEW m \in Messages, InOpenPrompt(m), StateOf[m] = "RESP",
               AddParticipant(m), PromptOf[m] = p, Author[m] = u
        PROVE  participants'[p][u] = 1
    BY <2>1, <2>3 DEF AddParticipant, Part
  <2>4. ASSUME NEW m \in Messages, InOpenPrompt(m), AddParticipant(m),
               ~(StateOf[m] = "RESP" /\ PromptOf[m] = p /\ Author[m] = u)
        PROVE  participants'[p][u] = participants[p][u]
    <3>1. PromptOf[m] \in Prompts /\ Author[m] \in Users
      BY <2>4, MessagesAssumption DEF InOpenPrompt
    <3> QED BY <2>1, <2>4, <3>1 DEF AddParticipant
  <2>5. ASSUME NEW m \in Messages, ReceiveMessage(m), InOpenPrompt(m)
        PROVE  Part(p, u)'
    <3>1. /\ AddParticipant(m) /\ AddAnswer(m)
          /\ PromptOf[m] \in Prompts /\ Author[m] \in Users
      BY <2>5, MessagesAssumption DEF ReceiveMessage, InOpenPrompt
    <3>2. CASE StateOf[m] = "RESP" /\ PromptOf[m] = p /\ Author[m] = u
      <4>1. participants'[p][u] = 1 BY <2>3, <2>5, <3>1, <3>2
      <4>2. answers'[p]["RESP"][u] = m
        BY <2>1, <3>1, <3>2 DEF AddAnswer, TypeOK
      <4>3. m # NoMessage BY NoneAssumption
      <4> QED BY <4>1, <4>2, <4>3 DEF Part
    <3>3. CASE ~(StateOf[m] = "RESP" /\ PromptOf[m] = p /\ Author[m] = u)
      <4>1. participants'[p][u] = participants[p][u]
        BY <2>4, <2>5, <3>1, <3>3
      <4>2. answers'[p]["RESP"][u] = answers[p]["RESP"][u]
        BY <2>1, <3>1, <3>3 DEF AddAnswer, TypeOK
      <4> QED BY <2>2, <4>1, <4>2
    <3> QED BY <3>2, <3>3
  <2>6. ASSUME NEW m \in Messages, FailReceiving(m)
        PROVE  Part(p, u)'
    <3>1. answers' = answers BY <2>6 DEF FailReceiving
    <3>2. CASE UNCHANGED participants BY <2>2, <3>1, <3>2
    <3>3. CASE InOpenPrompt(m) /\ AddParticipant(m)
      <4>1. CASE StateOf[m] = "RESP" /\ PromptOf[m] = p /\ Author[m] = u
        <5>1. participants'[p][u] = 1 BY <2>3, <3>3, <4>1
        <5>2. pc'[m] = "failed" /\ m \in shouts'
          BY <2>6 DEF FailReceiving, InsertShout, TypeOK
        <5>3. CutShort(p, u)' BY <4>1, <5>2 DEF CutShort
        <5> QED BY <5>1, <5>3 DEF Part
      <4>2. CASE ~(StateOf[m] = "RESP" /\ PromptOf[m] = p /\ Author[m] = u)
        BY <2>2, <2>4, <3>1, <3>3, <4>2
      <4> QED BY <4>1, <4>2
    <3> QED BY <2>6, <3>2, <3>3 DEF FailReceiving
  <2>7. ASSUME ~\E m \in Messages : \/ ReceiveMessage(m) /\ InOpenPrompt(m)
                                    \/ FailReceiving(m)
        PROVE  Part(p, u)'
    <3>1. UNCHANGED <<answers, participants>>
      BY <2>7 DEF Next, vars, database, counter, NewConversation, NewPrompt,
         PromptCompleted, RejectMessage, ReceiveMessage, AnnounceInPrompt,
         CountMessage, SearchPopular, Expire, Restart, FailConversation,
         FailCounting
    <3> QED BY <2>2, <3>1
  <2> QED BY <2>5, <2>6, <2>7
<1>3. Counting => ParticipateOnce
  BY DEF Counting, Part, CutShort, ParticipateOnce, FetchUsersFromPrompt
<1> QED BY <1>1, <1>2, <1>3, TypeCorrect, PTL DEF Spec

-----------------------------------------------------------------------------
(***************************************************************************)
(* A completed prompt stays completed and keeps what was said in it; what  *)
(* its outcome names is replaced, but never taken away.                    *)
(***************************************************************************)
THEOREM CompletedFinal == Spec => CompletedIsFinal
<1> DEFINE Final(p) == /\ status'[p] = "completed"
                       /\ answers'[p] = answers[p]
                       /\ participants'[p] = participants[p]
                       /\ \A x \in SummaryKeys : outcome[p][x] # NoOutcome =>
                                                 outcome'[p][x] # NoOutcome
<1>1. TypeOK /\ [Next]_vars =>
        [\A p \in Prompts : status[p] = "completed" => Final(p)]_vars
  <2> SUFFICES ASSUME TypeOK, Next, NEW p \in Prompts, status[p] = "completed"
               PROVE  Final(p)
    OBVIOUS
  <2>1. ASSUME NEW q \in Prompts, NewPrompt(q) PROVE Final(p)
    BY <2>1 DEF NewPrompt, TypeOK
  <2>2. ASSUME NEW q \in Prompts, NEW context \in Contexts,
               PromptCompleted(q, context)
        PROVE  Final(p)
    <3>1. status'[p] = "completed" /\ UNCHANGED <<answers, participants>>
      BY <2>2 DEF PromptCompleted, SetCompleted, TypeOK
    <3>2. ASSUME NEW x \in SummaryKeys, outcome[p][x] # NoOutcome
          PROVE  outcome'[p][x] # NoOutcome
      <4>1. CASE q = p
        <5>1. outcome'[p][x] = IF context[x] = NoOutcome THEN outcome[p][x]
                               ELSE context[x]
          BY <2>2, <4>1 DEF PromptCompleted, SetCompleted, TypeOK
        <5> QED BY <3>2, <5>1
      <4>2. CASE q # p
        BY <2>2, <3>2, <4>2 DEF PromptCompleted, SetCompleted, TypeOK
      <4> QED BY <4>1, <4>2
    <3> QED BY <3>1, <3>2
  <2>3. ASSUME NEW m \in Messages, InOpenPrompt(m),
               ReceiveMessage(m) \/ FailReceiving(m)
        PROVE  Final(p)
    <3>1. PromptOf[m] # p BY <2>3 DEF InOpenPrompt
    <3>2. status' = status /\ outcome' = outcome
      BY <2>3 DEF ReceiveMessage, FailReceiving
    <3>3. answers'[p] = answers[p]
      BY <2>3, <3>1 DEF ReceiveMessage, FailReceiving, AddAnswer, TypeOK
    <3>4. participants'[p] = participants[p]
      BY <2>3, <3>1 DEF ReceiveMessage, FailReceiving, AddParticipant, TypeOK
    <3> QED BY <3>2, <3>3, <3>4
  <2>4. ASSUME ~\E m \in Messages : /\ InOpenPrompt(m)
                                    /\ ReceiveMessage(m) \/ FailReceiving(m),
               ~\E q \in Prompts : \/ NewPrompt(q)
                                   \/ \E context \in Contexts :
                                         PromptCompleted(q, context)
        PROVE  Final(p)
    <3>1. UNCHANGED <<status, answers, participants, outcome>>
      BY <2>4 DEF Next, database, counter, NewConversation, RejectMessage,
         ReceiveMessage, FailReceiving, AnnounceInPrompt, CountMessage,
         SearchPopular, Expire, Restart, FailConversation, FailCounting
    <3> QED BY <3>1
  <2> QED BY <2>1, <2>2, <2>3, <2>4
<1> QED BY <1>1, TypeCorrect, PTL DEF Spec, CompletedIsFinal

-----------------------------------------------------------------------------
(***************************************************************************)
(* The counter.  A chat with records exists, so a new chat has none.       *)
(***************************************************************************)
RecordsOfChats == \A k \in Chats : records[k] # <<>> => k \in chats

\* A message is announced and counted only after it was stored and its chat
\* marked.
StoredFirst == \A m \in Messages : pc[m] \in {"prompted", "sending", "done"}
                                     => m \in shouts /\ ChatOf[m] \in recent
RecordsInv == OneRecord /\ RecordsOfChats

(***************************************************************************)
(* user_message stores a message before its first emit.                    *)
(***************************************************************************)
LEMMA StoredBefore == Spec => []StoredFirst
<1>1. Init => StoredFirst BY DEF Init, StoredFirst
<1>2. TypeOK /\ StoredFirst /\ [Next]_vars => StoredFirst'
  <2> SUFFICES ASSUME TypeOK, StoredFirst, [Next]_vars, NEW m \in Messages,
                      pc'[m] \in {"prompted", "sending", "done"}
               PROVE  m \in shouts' /\ ChatOf[m] \in recent'
    BY DEF StoredFirst
  <2>1. shouts \subseteq shouts' /\ recent \subseteq recent'
    BY DEF Next, vars, database, counter, NewConversation, NewPrompt,
       PromptCompleted, RejectMessage, ReceiveMessage, AddShout, InsertShout,
       MarkRecent, AnnounceInPrompt, CountMessage, SearchPopular, Expire,
       Restart, FailConversation, FailReceiving, FailCounting
  <2>2. CASE pc[m] \in {"prompted", "sending", "done"}
    BY <2>1, <2>2 DEF StoredFirst
  <2>3. ASSUME NEW n \in Messages, ReceiveMessage(n)
        PROVE  m \in shouts' /\ ChatOf[m] \in recent'
    <3>1. n = m \/ pc'[m] = pc[m] BY <2>3 DEF ReceiveMessage, TypeOK
    <3> QED BY <2>2, <2>3, <3>1
            DEF ReceiveMessage, AddShout, InsertShout, MarkRecent
  <2>4. ASSUME NEW n \in Messages,
               \/ RejectMessage(n) \/ AnnounceInPrompt(n) \/ CountMessage(n)
               \/ FailReceiving(n) \/ FailCounting(n)
        PROVE  m \in shouts' /\ ChatOf[m] \in recent'
    <3>1. pc'[m] = pc[m] \/ (n = m /\ pc[m] \in {"prompted", "sending"})
      BY <2>4 DEF RejectMessage, AnnounceInPrompt, CountMessage,
         FailReceiving, FailCounting, TypeOK
    <3> QED BY <2>2, <3>1
  <2>5. CASE Restart
    <3>1. pc'[m] = pc[m] BY <2>5 DEF Restart
    <3> QED BY <2>2, <3>1
  <2>6. CASE UNCHANGED pc BY <2>2, <2>6
  <2> QED
    BY <2>3, <2>4, <2>5, <2>6
       DEF Next, vars, NewConversation, NewPrompt, PromptCompleted,
           SearchPopular, Expire, FailConversation
<1> QED BY <1>1, <1>2, TypeCorrect, PTL DEF Spec

(***************************************************************************)
(* What get_data returns satisfies the same invariant.                     *)
(***************************************************************************)
LEMMA CurrentOneRecord ==
    ASSUME TypeOK, RecordsInv, NEW k \in Chats
    PROVE  /\ Len(CurrentRecords[k]) <= 1
           /\ CurrentRecords[k] # <<>> => k \in chats
<1>1. ShoutsIn(k) # {} => k \in chats BY DEF ShoutsIn, TypeOK
<1>2. Recount[k] = IF k \notin recent \/ ShoutsIn(k) = {} THEN <<>>
                   ELSE <<Cardinality(ShoutsIn(k))>>
  BY DEF Recount
<1>3. Len(Recount[k]) <= 1 /\ (Recount[k] # <<>> => k \in chats)
  BY <1>1, <1>2
<1> QED BY <1>3 DEF CurrentRecords, RecordsInv, OneRecord, RecordsOfChats

(***************************************************************************)
(* Records belong to chats that exist, at most one to each, because        *)
(* new_conversation stores the chat and appends its record in one step.    *)
(***************************************************************************)
LEMMA RecordsInvariant == Spec => []RecordsInv
<1>1. Init => RecordsInv
  BY DEF Init, RecordsInv, OneRecord, RecordsOfChats
<1>2. TypeOK /\ StoredFirst /\ RecordsInv /\ [Next]_vars => RecordsInv'
  <2> SUFFICES ASSUME TypeOK, StoredFirst, RecordsInv, [Next]_vars,
                      NEW k \in Chats
               PROVE  /\ Len(records'[k]) <= 1
                      /\ records'[k] # <<>> => k \in chats'
    BY DEF RecordsInv, OneRecord, RecordsOfChats
  <2>1. Len(records[k]) <= 1 /\ (records[k] # <<>> => k \in chats)
    BY DEF RecordsInv, OneRecord, RecordsOfChats
  <2>2. ASSUME NEW j \in Chats, NewConversation(j)
        PROVE  Len(records'[k]) <= 1 /\ (records'[k] # <<>> => k \in chats')
    <3>1. CASE j = k
      <4>1. records[k] = <<>> BY <2>1, <2>2, <3>1 DEF NewConversation
      <4>2. records'[k] = Append(<<>>, 0)
        BY <2>2, <3>1, <4>1 DEF NewConversation, TypeOK
      <4>3. Append(<<>>, 0) = <<0>> OBVIOUS
      <4>4. Len(records'[k]) = 1 BY <4>2, <4>3
      <4>5. k \in chats' BY <2>2, <3>1 DEF NewConversation
      <4> QED BY <4>4, <4>5
    <3>2. CASE j # k BY <2>1, <2>2, <3>2 DEF NewConversation, TypeOK
    <3> QED BY <3>1, <3>2
  <2>3. ASSUME NEW m \in Messages, CountMessage(m)
        PROVE  Len(records'[k]) <= 1 /\ (records'[k] # <<>> => k \in chats')
    <3> DEFINE c == ChatOf[m]
    <3>1. c \in Chats /\ CurrentRecords \in [Chats -> Seq(Nat)]
      BY CurrentType, MessagesAssumption
    <3>2. records' = Incremented(CurrentRecords, c) /\ chats' = chats
      BY <2>3 DEF CountMessage, IncrementPopularity, database
    <3>3. Len(CurrentRecords[k]) <= 1 /\ (CurrentRecords[k] # <<>> => k \in chats)
      BY CurrentOneRecord
    <3>4. Len(records'[k]) <= 1
      <4>1. CASE k # c BY <3>1, <3>2, <3>3, <4>1, IncrementedType
      <4>2. CASE k = c /\ CurrentRecords[k] = <<>>
        <5>1. records'[k] = <<1>> BY <3>1, <3>2, <4>2, IncrementedType
        <5> QED BY <5>1
      <4>3. CASE k = c /\ CurrentRecords[k] # <<>>
        BY <3>1, <3>2, <3>3, <4>3, IncrementedType
      <4> QED BY <4>1, <4>2, <4>3
    <3>5. records'[k] # <<>> => k \in chats'
      <4>1. m \in shouts => c \in chats BY DEF TypeOK
      <4>2. m \in shouts BY <2>3 DEF CountMessage, StoredFirst
      <4>3. CASE k # c BY <3>1, <3>2, <3>3, <4>3, IncrementedType
      <4> QED BY <3>2, <4>1, <4>2, <4>3
    <3> QED BY <3>4, <3>5
  <2>4. ASSUME SearchPopular
        PROVE  Len(records'[k]) <= 1 /\ (records'[k] # <<>> => k \in chats')
    BY <2>4, CurrentOneRecord DEF SearchPopular, GetFirstItems, database
  <2>5. ASSUME Restart
        PROVE  Len(records'[k]) <= 1 /\ (records'[k] # <<>> => k \in chats')
    BY <2>5 DEF Restart
  <2>6. ASSUME NEW m \in Messages, FailCounting(m)
        PROVE  Len(records'[k]) <= 1 /\ (records'[k] # <<>> => k \in chats')
    <3>1. /\ chats' = chats
          /\ records' = records \/ records' = CurrentRecords
      BY <2>6 DEF FailCounting, GetFirstItems, database, counter
    <3> QED BY <2>1, <3>1, CurrentOneRecord
  <2>7. CASE chats \subseteq chats' /\ UNCHANGED records BY <2>1, <2>7
  <2> QED
    BY <2>2, <2>3, <2>4, <2>5, <2>6, <2>7
       DEF Next, vars, database, counter, NewPrompt, PromptCompleted,
           RejectMessage, ReceiveMessage, AnnounceInPrompt, Expire,
           FailConversation, FailReceiving
<1> QED BY <1>1, <1>2, TypeCorrect, StoredBefore, PTL DEF Spec

(***************************************************************************)
(* No interleaving gives a chat two records.                               *)
(***************************************************************************)
THEOREM SingleRecords == Spec => []OneRecord
<1>1. RecordsInv => OneRecord BY DEF RecordsInv
<1> QED BY <1>1, RecordsInvariant, PTL

-----------------------------------------------------------------------------
(***************************************************************************)
(* The bounds on popularity.  They hold of the stored list itself as long  *)
(* as it has not expired, an empty list included: the chats that it does   *)
(* not name have no message whose handler has finished.                    *)
(***************************************************************************)
Shown(recs, k) == IF recs[k] = <<>> THEN 0 ELSE recs[k][1]
Within(recs, k) == /\ Cardinality(DoneIn(k)) <= Shown(recs, k)
                   /\ Shown(recs, k) <= Cardinality(ShoutsIn(k))
                                         + Cardinality(DoneIn(k))
BoundsInv == ~expired => \A k \in Chats : Within(records, k)

LEMMA ShownType ==
    ASSUME NEW recs \in [Chats -> Seq(Nat)], NEW k \in Chats
    PROVE  Shown(recs, k) \in Nat
<1>1. CASE recs[k] = <<>> BY <1>1 DEF Shown
<1>2. CASE recs[k] # <<>>
  <2>1. recs[k] \in Seq(Nat) OBVIOUS
  <2>2. recs[k][1] \in Nat BY <1>2, <2>1
  <2> QED BY <1>2, <2>2 DEF Shown
<1> QED BY <1>1, <1>2

(***************************************************************************)
(* The list that get_data returns is within the bounds, computed anew or   *)
(* not.                                                                    *)
(***************************************************************************)
LEMMA CurrentWithin ==
    ASSUME TypeOK, StoredFirst, BoundsInv, NEW k \in Chats
    PROVE  Within(CurrentRecords, k)
<1>1. DoneIn(k) \subseteq ShoutsIn(k) BY DEF DoneIn, ShoutsIn, StoredFirst
<1>2. Cardinality(DoneIn(k)) <= Cardinality(ShoutsIn(k))
  BY <1>1, FiniteCounts, FS_Subset
<1>3. CASE CurrentRecords = Recount
  <2>1. CASE k \in recent /\ ShoutsIn(k) # {}
    <3>1. Recount[k] = <<Cardinality(ShoutsIn(k))>> BY <2>1 DEF Recount
    <3>2. Shown(Recount, k) = Cardinality(ShoutsIn(k)) BY <3>1 DEF Shown
    <3> QED BY <1>2, <1>3, <3>2, FiniteCounts DEF Within
  <2>2. CASE k \notin recent \/ ShoutsIn(k) = {}
    <3>1. Shown(Recount, k) = 0 BY <2>2 DEF Shown, Recount
    <3>2. DoneIn(k) = {}
      BY <1>1, <2>2 DEF DoneIn, StoredFirst
    <3>3. Cardinality(DoneIn(k)) = 0 BY <3>2, FS_EmptySet
    <3> QED BY <1>3, <3>1, <3>3, FiniteCounts DEF Within
  <2> QED BY <2>1, <2>2
<1>4. CASE CurrentRecords = records /\ ~expired
  BY <1>4 DEF BoundsInv
<1>5. CurrentRecords = Recount \/ (CurrentRecords = records /\ ~expired)
  BY DEF CurrentRecords, NeedsInit
<1> QED BY <1>3, <1>4, <1>5

(***************************************************************************)
(* Counting a message adds one to the finished messages of its chat and    *)
(* one to the popularity that is shown.                                    *)
(***************************************************************************)
LEMMA CountOne ==
    ASSUME TypeOK, TypeOK', StoredFirst, BoundsInv, NEW m \in Messages,
           CountMessage(m), NEW k \in Chats
    PROVE  Within(records, k)'
<1> DEFINE c == ChatOf[m]
<1>1. c \in Chats /\ CurrentRecords \in [Chats -> Seq(Nat)]
  BY CurrentType, MessagesAssumption
<1>2. /\ records' = Incremented(CurrentRecords, c)
      /\ shouts' = shouts
      /\ pc' = [pc EXCEPT ![m] = "done"]
      /\ pc[m] = "sending"
  BY DEF CountMessage, IncrementPopularity, database
<1>3. ShoutsIn(k)' = ShoutsIn(k) BY <1>2 DEF ShoutsIn
<1>4. Within(CurrentRecords, k) BY CurrentWithin
<1>5. CASE k = c
  <2>1. DoneIn(k)' = DoneIn(k) \cup {m} /\ m \notin DoneIn(k)
    BY <1>2, <1>5 DEF DoneIn, TypeOK
  <2>2. Cardinality(DoneIn(k))' = Cardinality(DoneIn(k)) + 1
    BY <2>1, FiniteCounts, FS_AddElement
  <2>3. Shown(records', k) = Shown(CurrentRecords, k) + 1
    <3>1. CASE CurrentRecords[k] = <<>>
      <4>1. records'[k] = <<1>> BY <1>1, <1>2, <1>5, <3>1, IncrementedType
      <4> QED BY <3>1, <4>1 DEF Shown
    <3>2. CASE CurrentRecords[k] # <<>>
      <4>1. /\ records'[k][1] = CurrentRecords[k][1] + 1
            /\ records'[k] # <<>>
        BY <1>1, <1>2, <1>5, <3>2, IncrementedType
      <4> QED BY <3>2, <4>1 DEF Shown
    <3> QED BY <3>1, <3>2
  <2>4. /\ Cardinality(DoneIn(k)) \in Nat /\ Cardinality(ShoutsIn(k)) \in Nat
        /\ Shown(CurrentRecords, k) \in Nat
    BY <1>1, FiniteCounts, ShownType
  <2>5. /\ Cardinality(DoneIn(k)) + 1 <= Shown(CurrentRecords, k) + 1
        /\ Shown(CurrentRecords, k) + 1 <= Cardinality(ShoutsIn(k))
                                           + (Cardinality(DoneIn(k)) + 1)
    BY <1>4, <2>4 DEF Within
  <2>6. Shown(records, k)' = Shown(records', k) BY DEF Shown
  <2>7. Cardinality(ShoutsIn(k))' = Cardinality(ShoutsIn(k)) BY <1>3
  <2> QED BY <2>2, <2>3, <2>5, <2>6, <2>7 DEF Within
<1>6. CASE k # c
  <2>1. DoneIn(k)' = DoneIn(k) BY <1>2, <1>6 DEF DoneIn, TypeOK
  <2>2. records'[k] = CurrentRecords[k] BY <1>1, <1>2, <1>6, IncrementedType
  <2> QED BY <1>3, <1>4, <2>1, <2>2 DEF Within, Shown
<1> QED BY <1>5, <1>6

(***************************************************************************)
(* Every finished message is counted, none more than twice.                *)
(***************************************************************************)
THEOREM Counted == Spec => []PopularityBounds
<1>1. Init => BoundsInv BY DEF Init, BoundsInv
<1>2. TypeOK /\ TypeOK' /\ StoredFirst /\ RecordsInv /\ BoundsInv /\ [Next]_vars
        => BoundsInv'
  <2> SUFFICES ASSUME TypeOK, TypeOK', StoredFirst, RecordsInv, BoundsInv,
                      [Next]_vars, ~expired', NEW k \in Chats
               PROVE  Within(records, k)'
    BY DEF BoundsInv
  <2>1. ASSUME NEW m \in Messages, CountMessage(m) PROVE Within(records, k)'
    BY <2>1, CountOne
  <2>2. CASE SearchPopular
    <3>1. UNCHANGED <<pc, shouts>> /\ records' = CurrentRecords
      BY <2>2 DEF SearchPopular, GetFirstItems, database
    <3>2. DoneIn(k)' = DoneIn(k) /\ ShoutsIn(k)' = ShoutsIn(k)
      BY <3>1 DEF DoneIn, ShoutsIn
    <3> QED BY <3>1, <3>2, CurrentWithin DEF Within, Shown
  <2>3. ASSUME NEW j \in Chats, NewConversation(j)
        PROVE  Within(records, k)'
    <3>1. UNCHANGED <<pc, shouts, expired>>
          /\ records' = [records EXCEPT ![j] = Append(@, 0)]
      BY <2>3 DEF NewConversation
    <3>2. DoneIn(k)' = DoneIn(k) /\ ShoutsIn(k)' = ShoutsIn(k)
      BY <3>1 DEF DoneIn, ShoutsIn
    <3>3. Within(records, k) BY <3>1 DEF BoundsInv
    <3>4. Shown(records, k)' = Shown(records, k)
      <4>1. CASE j # k BY <3>1, <4>1 DEF Shown, TypeOK
      <4>2. CASE j = k
        <5>1. records[k] = <<>>
          BY <2>3, <4>2 DEF NewConversation, RecordsInv, RecordsOfChats
        <5>2. records'[k] = Append(<<>>, 0)
          BY <3>1, <4>2, <5>1 DEF TypeOK
        <5>3. Append(<<>>, 0) = <<0>> OBVIOUS
        <5>4. records'[k] = <<0>> BY <5>2, <5>3
        <5> QED BY <5>1, <5>4 DEF Shown
      <4> QED BY <4>1, <4>2
    <3> QED BY <3>2, <3>3, <3>4 DEF Within
  <2>4. ASSUME NEW m \in Messages, ReceiveMessage(m) \/ FailReceiving(m)
        PROVE  Within(records, k)'
    <3>1. /\ UNCHANGED <<records, expired>> /\ shouts' = shouts \cup {m}
          /\ pc[m] = "new" /\ pc'[m] # "done"
          /\ \A n \in Messages : n # m => pc'[n] = pc[n]
      BY <2>4 DEF ReceiveMessage, FailReceiving, AddShout, InsertShout,
         counter, TypeOK
    <3>2. DoneIn(k)' = DoneIn(k) BY <3>1 DEF DoneIn
    <3>3. ShoutsIn(k) \subseteq ShoutsIn(k)' BY <3>1 DEF ShoutsIn
    <3>4. IsFiniteSet(ShoutsIn(k)') /\ Cardinality(ShoutsIn(k)') \in Nat
      <4>1. ShoutsIn(k)' \subseteq Messages BY DEF TypeOK, ShoutsIn
      <4> QED BY <4>1, FS_Subset, FS_CardinalityType, MessagesAssumption
    <3>5. Cardinality(ShoutsIn(k)) <= Cardinality(ShoutsIn(k)')
      BY <3>3, <3>4, FS_Subset
    <3>6. Within(records, k) BY <3>1 DEF BoundsInv
    <3>7. Shown(records, k)' = Shown(records, k) BY <3>1 DEF Shown
    <3>8. Shown(records, k) \in Nat BY ShownType DEF TypeOK
    <3> QED BY <3>2, <3>4, <3>5, <3>6, <3>7, <3>8, FiniteCounts DEF Within
  <2>5. ASSUME NEW m \in Messages, RejectMessage(m) \/ AnnounceInPrompt(m)
        PROVE  Within(records, k)'
    <3>1. /\ UNCHANGED <<records, expired, shouts>>
          /\ \A n \in Messages : pc'[n] = "done" <=> pc[n] = "done"
      BY <2>5 DEF RejectMessage, AnnounceInPrompt, database, counter, TypeOK
    <3>2. DoneIn(k)' = DoneIn(k) /\ ShoutsIn(k)' = ShoutsIn(k)
      BY <3>1 DEF DoneIn, ShoutsIn
    <3> QED BY <3>1, <3>2 DEF BoundsInv, Within, Shown
  <2>6. ASSUME NEW m \in Messages, FailCounting(m)
        PROVE  Within(records, k)'
    <3>1. /\ shouts' = shouts
          /\ \A n \in Messages : pc'[n] = "done" <=> pc[n] = "done"
          /\ UNCHANGED <<records, expired>> \/ records' = CurrentRecords
      BY <2>6 DEF FailCounting, GetFirstItems, database, counter, TypeOK
    <3>2. DoneIn(k)' = DoneIn(k) /\ ShoutsIn(k)' = ShoutsIn(k)
      BY <3>1 DEF DoneIn, ShoutsIn
    <3>3. CASE UNCHANGED <<records, expired>>
      BY <3>2, <3>3 DEF BoundsInv, Within, Shown
    <3>4. CASE records' = CurrentRecords
      BY <3>2, <3>4, CurrentWithin DEF Within, Shown
    <3> QED BY <3>1, <3>3, <3>4
  <2>7. CASE UNCHANGED <<pc, shouts, records, expired>>
    <3>1. DoneIn(k)' = DoneIn(k) /\ ShoutsIn(k)' = ShoutsIn(k)
      BY <2>7 DEF DoneIn, ShoutsIn
    <3> QED BY <2>7, <3>1 DEF BoundsInv, Within, Shown
  <2> QED
    BY <2>1, <2>2, <2>3, <2>4, <2>5, <2>6, <2>7
       DEF Next, vars, database, counter, NewPrompt, PromptCompleted, Expire,
           Restart, FailConversation
<1>3. TypeOK /\ StoredFirst /\ BoundsInv => PopularityBounds
  <2> SUFFICES ASSUME TypeOK, StoredFirst, BoundsInv, NEW k \in Chats
               PROVE  /\ Cardinality(DoneIn(k)) <= Popularity(k)
                      /\ Popularity(k) <= Cardinality(ShoutsIn(k))
                                          + Cardinality(DoneIn(k))
    BY DEF PopularityBounds
  <2> QED BY CurrentWithin DEF Within, Shown, Popularity
<1>4. Spec => []RecordsInv
  BY RecordsInvariant
<1> QED BY <1>1, <1>2, <1>3, <1>4, TypeCorrect, StoredBefore, PTL DEF Spec
=============================================================================
