------------------------ MODULE Translations_proofs ------------------------
(***************************************************************************)
(* For every set of clients, chats, messages and languages, every number   *)
(* of requests and outages and every size of the cache: the words of an    *)
(* author who does not write English are never lost, no request is         *)
(* answered twice, a full answer is complete, the chain implements         *)
(* RequestReply, and every variable keeps its type.                        *)
(***************************************************************************)
EXTENDS Translations, SequenceTheorems, TLAPS

(***************************************************************************)
(* What any outage does to the invariants: it takes events and open        *)
(* requests away, and nothing else.                                        *)
(***************************************************************************)
Shrinks ==
    /\ UNCHANGED <<client, req, store, populated, missing, answers, jobs>>
    /\ \/ UNCHANGED <<toServer, toClient>>
       \/ \E c \in Clients : /\ toServer' = [toServer EXCEPT ![c] = <<>>]
                             /\ toClient' = [toClient EXCEPT ![c] = <<>>]
       \/ /\ toServer' = [c \in Clients |-> <<>>]
          /\ toClient' = [c \in Clients |-> <<>>]
    /\ cache' = cache \/ cache' = <<>>
    /\ toObserver' \subseteq toObserver /\ toHandler' \subseteq toHandler
    /\ open' \subseteq open /\ timers' \subseteq timers

LEMMA OutageShrinks == OutageNext => Shrinks
<1>1. Disconnect => Shrinks
  BY DEF Disconnect, Shrinks, server, observer
<1>2. Connect => Shrinks
  BY DEF Connect, Shrinks, server, observer
<1>3. RestartObserver => Shrinks
  BY DEF RestartObserver, Shrinks, server, observer
<1>4. RestartServer => Shrinks
  BY DEF RestartServer, Shrinks, observer
<1>5. ASSUME NEW c \in Clients, Resume(c) PROVE Shrinks
  BY <1>5 DEF Resume, Shrinks, server, observer
<1> QED BY <1>1, <1>2, <1>3, <1>4, <1>5 DEF OutageNext

\* Of an event queue of a client, an outage leaves all or nothing.
LEMMA QueueShrinks ==
    ASSUME Shrinks, NEW S, NEW T,
           toServer \in [Clients -> Seq(S)], toClient \in [Clients -> Seq(T)]
    PROVE  /\ toServer' \in [Clients -> Seq(S)] /\ toClient' \in [Clients -> Seq(T)]
           /\ \A c \in Clients : /\ toServer'[c] = toServer[c] \/ toServer'[c] = <<>>
                                 /\ toClient'[c] = toClient[c] \/ toClient'[c] = <<>>
<1>1. <<>> \in Seq(S) /\ <<>> \in Seq(T)
  OBVIOUS
<1>2. CASE UNCHANGED <<toServer, toClient>>
  BY <1>2
<1>3. CASE \E c \in Clients : /\ toServer' = [toServer EXCEPT ![c] = <<>>]
                             /\ toClient' = [toClient EXCEPT ![c] = <<>>]
  BY <1>1, <1>3
<1>4. CASE /\ toServer' = [c \in Clients |-> <<>>]
           /\ toClient' = [c \in Clients |-> <<>>]
  BY <1>1, <1>4
<1> QED BY <1>2, <1>3, <1>4 DEF Shrinks

(***************************************************************************)
(* The part of the type invariant that the store depends on: requests only *)
(* become more, and whatever names a request names one that was made.      *)
(***************************************************************************)
StoreType ==
    /\ pref \in [Clients -> [Chats -> Langs]]
    /\ req \in Seq(Request) /\ Len(req) <= MaxRequests
    /\ toServer \in [Clients -> Seq(1..Len(req))]
    /\ text \in [Shouts -> Writers]
    /\ trans \in [Shouts -> [Langs -> Writers]]
    /\ missing \in [Requests -> SUBSET Shouts]
    /\ \A r \in Requests : missing[r] # {} => r \in 1..Len(req)
    /\ toObserver \in SUBSET Requests
    /\ open \in SUBSET Requests
    /\ toHandler \in SUBSET Reply

(***************************************************************************)
(* The translations of a foreign message hold its original, so a request   *)
(* for that language never asks the service for it, and no reply, however  *)
(* late, writes to that entry.                                             *)
(***************************************************************************)
OriginalKept == \A s \in Shouts : Origin[s] # "en" =>
                                     trans[s][Origin[s]] = "author"
NeverRequested == \A r \in Requests : \A s \in missing[r] :
                     req[r].lang = Origin[s] => Origin[s] = "en"
StoreInv == StoreType /\ OriginalKept /\ NeverRequested

(***************************************************************************)
(* The messages found for a request are messages of the database.          *)
(***************************************************************************)
LEMMA FoundStored == \A r : Found(r) \subseteq Shouts /\ InStore(r) \subseteq Shouts
  BY DEF Found, InStore

(***************************************************************************)
(* A new request leaves the older ones as they are.                        *)
(***************************************************************************)
LEMMA EmitKeeps ==
    ASSUME StoreInv, NEW c \in Clients, NEW l \in Langs,
           NEW chats \in SUBSET Chats, NEW want \in SUBSET Ids,
           Emit(c, l, chats, want), pref' \in [Clients -> [Chats -> Langs]],
           UNCHANGED <<text, trans, missing, toObserver, open, toHandler>>
    PROVE  StoreInv'
<1> DEFINE new == [client |-> c, lang |-> l, chats |-> chats, want |-> want]
<1>1. new \in Request BY DEF Request
<1>2. /\ Len(req) < MaxRequests /\ req' = Append(req, new)
      /\ toServer' = [toServer EXCEPT ![c] = Append(@, Len(req) + 1)]
  BY DEF Emit
<1>3. req \in Seq(Request) /\ Len(req) \in Nat BY DEF StoreInv, StoreType
<1>4. /\ req' \in Seq(Request) /\ Len(req') = Len(req) + 1
      /\ \A r \in 1..Len(req) : req'[r] = req[r]
  BY <1>1, <1>2, <1>3
<1>5. Len(req') <= MaxRequests BY <1>2, <1>3, <1>4, BoundsAssumption
<1>6. toServer' \in [Clients -> Seq(1..Len(req'))]
  <2>1. SUFFICES ASSUME NEW d \in Clients
                 PROVE  toServer'[d] \in Seq(1..Len(req'))
    BY <1>2 DEF StoreInv, StoreType
  <2>2. toServer[d] \in Seq(1..Len(req)) BY DEF StoreInv, StoreType
  <2>3. toServer[d] \in Seq(1..Len(req')) BY <1>3, <1>4, <2>2
  <2>4. Len(req) + 1 \in 1..Len(req') BY <1>3, <1>4
  <2>5. Append(toServer[d], Len(req) + 1) \in Seq(1..Len(req'))
    BY <2>3, <2>4
  <2>6. toServer'[d] \in {toServer[d], Append(toServer[d], Len(req) + 1)}
    BY <1>2 DEF StoreInv, StoreType
  <2> QED BY <2>3, <2>5, <2>6
<1>7. StoreType'
  BY <1>3, <1>4, <1>5, <1>6 DEF StoreInv, StoreType
<1>8. OriginalKept' BY DEF StoreInv, OriginalKept
<1>9. NeverRequested'
  BY <1>4 DEF StoreInv, StoreType, NeverRequested
<1> QED BY <1>7, <1>8, <1>9 DEF StoreInv

(***************************************************************************)
(* What a request is missing leaves out the messages whose original is in  *)
(* the language of the request.                                            *)
(***************************************************************************)
LEMMA RequestKeeps ==
    ASSUME StoreInv, NEW c \in Clients, RequestTranslate(c)
    PROVE  StoreInv'
<1> DEFINE r == Head(toServer[c])
<1>1. /\ toServer[c] # <<>>
      /\ toServer' = [toServer EXCEPT ![c] = Tail(@)]
      /\ missing' = [missing EXCEPT ![r] = Found(r) \ InStore(r)]
      /\ UNCHANGED <<pref, req, text, trans, open, toHandler>>
      /\ toObserver' = toObserver \/ toObserver' = toObserver \cup {r}
  BY DEF RequestTranslate, client, store, observer
<1>2. toServer[c] \in Seq(1..Len(req)) BY DEF StoreInv, StoreType
<1>3. r \in 1..Len(req) /\ Tail(toServer[c]) \in Seq(1..Len(req))
  BY <1>1, <1>2, HeadTailProperties
<1>4. r \in Requests
  BY <1>3, BoundsAssumption DEF StoreInv, StoreType, Requests
<1>5. StoreType'
  <2>1. toServer' \in [Clients -> Seq(1..Len(req'))]
    BY <1>1, <1>3 DEF StoreInv, StoreType
  <2>2. missing' \in [Requests -> SUBSET Shouts]
    <3>1. Found(r) \ InStore(r) \in SUBSET Shouts BY FoundStored
    <3> QED BY <1>1, <3>1 DEF StoreInv, StoreType
  <2>3. \A q \in Requests : missing'[q] # {} => q \in 1..Len(req')
    BY <1>1, <1>3, <1>4 DEF StoreInv, StoreType
  <2>4. toObserver' \in SUBSET Requests
    BY <1>1, <1>4 DEF StoreInv, StoreType
  <2> QED BY <1>1, <2>1, <2>2, <2>3, <2>4 DEF StoreInv, StoreType
<1>6. NeverRequested'
  <2> SUFFICES ASSUME NEW q \in Requests, NEW s \in missing'[q],
                      req[q].lang = Origin[s], Origin[s] # "en"
               PROVE  FALSE
    BY <1>1 DEF NeverRequested
  <2>1. CASE q # r
    BY <1>1, <2>1 DEF StoreInv, StoreType, NeverRequested
  <2>2. CASE q = r
    <3>1. s \in Found(r) /\ s \notin InStore(r) /\ s \in Shouts
      BY <1>1, <1>4, <2>2, FoundStored DEF StoreInv, StoreType
    <3>2. trans[s][req[r].lang] = "author"
      BY <2>2, <3>1 DEF StoreInv, OriginalKept
    <3> QED BY <2>2, <3>1, <3>2 DEF InStore
  <2> QED BY <2>1, <2>2
<1>7. OriginalKept' BY <1>1 DEF StoreInv, OriginalKept
<1> QED BY <1>5, <1>6, <1>7 DEF StoreInv

(***************************************************************************)
(* save_translations writes to no entry that holds an original.            *)
(***************************************************************************)
LEMMA ReplyKeeps ==
    ASSUME StoreInv, NEW m \in toHandler, GetNeonTranslations(m)
    PROVE  StoreInv'
<1> DEFINE r == m.req
           l == req[r].lang
<1>1. /\ UNCHANGED <<pref, req, toServer, missing, toObserver, open>>
      /\ toHandler' = toHandler \ {m}
      /\ UNCHANGED store \/ SaveTranslations(r)
  BY DEF GetNeonTranslations, client, observer
<1>2. r \in Requests BY DEF StoreInv, StoreType, Reply
<1>3. CASE UNCHANGED store
  BY <1>1, <1>3
     DEF store, StoreInv, StoreType, OriginalKept, NeverRequested
<1>4. CASE SaveTranslations(r) /\ l = "en"
  <2>1. trans' = trans /\ text' \in [Shouts -> Writers]
    BY <1>4 DEF SaveTranslations, StoreInv, StoreType, Writers
  <2> QED
    BY <1>1, <2>1 DEF StoreInv, StoreType, OriginalKept, NeverRequested
<1>5. CASE SaveTranslations(r) /\ l # "en"
  <2>1. /\ text' = text
        /\ trans' = [s \in Shouts |->
                       IF s \in missing[r]
                       THEN [trans[s] EXCEPT ![l] = "translator"]
                       ELSE trans[s]]
    BY <1>5 DEF SaveTranslations
  <2>2. trans' \in [Shouts -> [Langs -> Writers]]
    BY <2>1 DEF StoreInv, StoreType, Writers
  <2>3. ASSUME NEW s \in Shouts, Origin[s] # "en"
        PROVE  trans'[s][Origin[s]] = "author"
    <3>1. trans[s][Origin[s]] = "author" BY <2>3 DEF StoreInv, OriginalKept
    <3>2. s \in missing[r] => l # Origin[s]
      BY <1>2, <2>3 DEF StoreInv, NeverRequested
    <3> QED BY <2>1, <3>1, <3>2 DEF StoreInv, StoreType
  <2> QED
    BY <1>1, <2>1, <2>2, <2>3
       DEF StoreInv, StoreType, OriginalKept, NeverRequested
<1> QED BY <1>1, <1>3, <1>4, <1>5

(***************************************************************************)
(* Replies on their way name requests of the observer's table.             *)
(***************************************************************************)
LEMMA ObserverKeeps ==
    ASSUME StoreInv, NEW r \in Requests,
           \/ RequestNeonTranslations(r)
           \/ OnNeonTranslationsResponse(r)
           \/ VoidCallback(r)
    PROVE  StoreInv'
<1>1. UNCHANGED <<pref, req, toServer, text, trans, missing>>
  BY DEF RequestNeonTranslations, OnNeonTranslationsResponse, VoidCallback,
     client, store, server
<1>2. ASSUME NEW full \in BOOLEAN, SendTranslationResponse(r, full)
      PROVE  open' \in SUBSET Requests /\ toHandler' \in SUBSET Reply
  <2>1. [req |-> r, full |-> full] \in Reply BY DEF Reply
  <2> QED BY <1>2, <2>1 DEF SendTranslationResponse, StoreInv, StoreType
<1>3. /\ toObserver' \in SUBSET Requests
      /\ open' \in SUBSET Requests
      /\ toHandler' \in SUBSET Reply
  BY <1>2 DEF RequestNeonTranslations, OnNeonTranslationsResponse,
     VoidCallback, StoreInv, StoreType
<1> QED BY <1>1, <1>3 DEF StoreInv, StoreType, OriginalKept, NeverRequested

(***************************************************************************)
(* All actions together.                                                   *)
(***************************************************************************)
LEMMA StoreInvariant == Spec => []StoreInv
<1>1. Init => StoreInv
  <2> SUFFICES ASSUME Init PROVE StoreInv OBVIOUS
  <2>1. StoreType
    BY BoundsAssumption, LangsAssumption DEF Init, StoreType, Writers
  <2>2. OriginalKept BY LangsAssumption DEF Init, OriginalKept
  <2>3. NeverRequested BY DEF Init, NeverRequested
  <2> QED BY <2>1, <2>2, <2>3 DEF StoreInv
<1>2. StoreInv /\ [Next]_vars => StoreInv'
  <2> SUFFICES ASSUME StoreInv, [Next]_vars PROVE StoreInv' OBVIOUS
  <2>1. ASSUME NEW c \in Clients, NEW k \in Chats, NEW l \in Langs,
               ChangeLanguage(c, k, l)
        PROVE  StoreInv'
    <3>1. IdsOf(k) \in SUBSET Ids /\ {k} \in SUBSET Chats BY DEF IdsOf
    <3>2. pref' \in [Clients -> [Chats -> Langs]]
      BY <2>1 DEF ChangeLanguage, StoreInv, StoreType
    <3> QED BY <2>1, <3>1, <3>2, EmitKeeps
            DEF ChangeLanguage, store, server, observer
  <2>2. ASSUME NEW c \in Clients, NEW s \in LiveIds, NewMessage(c, s)
        PROVE  StoreInv'
    <3>1. {s} \in SUBSET Ids /\ {ChatOf[s]} \in SUBSET Chats
      BY ChatsAssumption DEF Ids
    <3>2. pref[c][ChatOf[s]] \in Langs /\ pref' = pref
      BY <2>2, ChatsAssumption DEF NewMessage, Ids, StoreInv, StoreType
    <3>3. /\ Emit(c, pref[c][ChatOf[s]], {ChatOf[s]}, {s})
          /\ UNCHANGED <<text, trans, missing, toObserver, open, toHandler>>
      BY <2>2 DEF NewMessage, store, server, observer
    <3>4. pref' \in [Clients -> [Chats -> Langs]]
      BY <3>2 DEF StoreInv, StoreType
    <3> QED BY <3>1, <3>2, <3>3, <3>4, EmitKeeps
  <2>3. ASSUME NEW c \in Clients, NewHiddenMessage(c) PROVE StoreInv'
    <3>1. pref' \in [Clients -> [Chats -> Langs]]
      BY <2>3 DEF NewHiddenMessage, client, StoreInv, StoreType
    <3>2. Chats \in SUBSET Chats /\ {} \in SUBSET Ids OBVIOUS
    <3> QED BY <2>3, <3>1, <3>2, EmitKeeps, LangsAssumption
            DEF NewHiddenMessage, store, server, observer
  <2>4. CASE UNCHANGED <<pref, req, toServer, text, trans, missing, toObserver,
                         open, toHandler>>
    BY <2>4 DEF StoreInv, StoreType, OriginalKept, NeverRequested
  <2>5. ASSUME NEW c \in Clients, ApplyTranslations(c) PROVE StoreInv'
    BY <2>4, <2>5 DEF ApplyTranslations, store, server, observer
  <2>6. CASE UNCHANGED vars BY <2>4, <2>6 DEF vars, client, store, server, observer
  <2>7. ASSUME OutageNext PROVE StoreInv'
    <3>1. Shrinks
      BY <2>7, OutageShrinks
    <3>2. toServer' \in [Clients -> Seq(1..Len(req))]
      <4>1. PICK S : S = Seq(1..Len(req))
        OBVIOUS
      <4>2. toServer \in [Clients -> S] /\ <<>> \in S
        BY <4>1 DEF StoreInv, StoreType
      <4>3. toServer' \in [Clients -> S]
        BY <3>1, <4>2 DEF Shrinks
      <4> QED BY <4>1, <4>3
    <3> QED BY <3>1, <3>2
            DEF Shrinks, client, store, StoreInv, StoreType, OriginalKept, NeverRequested
  <2> QED
    BY <2>1, <2>2, <2>3, <2>5, <2>6, <2>7, RequestKeeps, ReplyKeeps, ObserverKeeps
       DEF Next, ClientNext, ServerNext, ObserverNext
<1> QED BY <1>1, <1>2, PTL DEF Spec

(***************************************************************************)
(* Whatever is requested, answered late, lost or evicted, a message that   *)
(* was not written in English keeps its author's words in the database.    *)
(***************************************************************************)
THEOREM WordingKept == Spec => []ForeignWordingKept
<1>1. StoreInv => ForeignWordingKept
  BY DEF StoreInv, OriginalKept, ForeignWordingKept
<1> QED BY <1>1, StoreInvariant, PTL

-----------------------------------------------------------------------------
(***************************************************************************)
(* A request is in one place at a time: not made yet or on its way to the  *)
(* server, on its way to the observer, open there, in a reply, answered.   *)
(***************************************************************************)
Queued(r) == \E c \in Clients : \E i \in 1..Len(toServer[c]) : toServer[c][i] = r
Replied(r) == \E m \in toHandler : m.req = r

\* The queue of a client holds its own requests, each once.
QueueInv ==
    \A c \in Clients :
        /\ \A i \in 1..Len(toServer[c]) : req[toServer[c][i]].client = c
        /\ \A i, j \in 1..Len(toServer[c]) : i < j => toServer[c][i] < toServer[c][j]

StageOf(r) ==
    /\ Queued(r) \/ r > Len(req) =>
          r \notin toObserver /\ r \notin open /\ ~Replied(r) /\ answers[r] = 0
    /\ r \in toObserver => r \notin open /\ ~Replied(r) /\ answers[r] = 0
    /\ r \in open => ~Replied(r) /\ answers[r] = 0
    /\ Replied(r) => answers[r] = 0
    /\ answers[r] <= 1

StageInv ==
    /\ answers \in [Requests -> Nat]
    /\ QueueInv
    /\ \A r \in Requests : StageOf(r)
    /\ \A m, n \in toHandler : m.req = n.req => m = n

(***************************************************************************)
(* A new request stands last in the queue of its client.                   *)
(***************************************************************************)
LEMMA EmitStages ==
    ASSUME StoreInv, StageInv, NEW c \in Clients, NEW l, NEW chats, NEW want,
           Emit(c, l, chats, want),
           UNCHANGED <<answers, toObserver, open, toHandler>>
    PROVE  StageInv'
<1> DEFINE new == [client |-> c, lang |-> l, chats |-> chats, want |-> want]
           n == Len(req) + 1
<1>1. /\ req' = Append(req, new)
      /\ toServer' = [toServer EXCEPT ![c] = Append(@, n)]
  BY DEF Emit
<1>2. /\ req \in Seq(Request) /\ Len(req) \in Nat
      /\ toServer \in [Clients -> Seq(1..Len(req))]
  BY DEF StoreInv, StoreType
<1>3. /\ Len(req') = n /\ req'[n].client = c
      /\ \A r \in 1..Len(req) : req'[r] = req[r]
  BY <1>1, <1>2
<1>4. ASSUME NEW d \in Clients
      PROVE  \/ toServer'[d] = toServer[d]
             \/ /\ d = c
                /\ Len(toServer'[d]) = Len(toServer[d]) + 1
                /\ toServer'[d][Len(toServer[d]) + 1] = n
                /\ \A i \in 1..Len(toServer[d]) : toServer'[d][i] = toServer[d][i]
  <2>1. toServer[d] \in Seq(1..Len(req))
    BY <1>2
  <2>2. toServer'[d] = IF d = c THEN Append(toServer[d], n) ELSE toServer[d]
    BY <1>1, <1>2
  <2> QED BY <2>1, <2>2
<1>5. \A d \in Clients : Len(toServer[d]) \in Nat
                         /\ \A i \in 1..Len(toServer[d]) : toServer[d][i] \in 1..Len(req)
  BY <1>2
<1>6. QueueInv'
  <2> SUFFICES ASSUME NEW d \in Clients
               PROVE  /\ \A i \in 1..Len(toServer'[d]) : req'[toServer'[d][i]].client = d
                      /\ \A i, j \in 1..Len(toServer'[d]) :
                            i < j => toServer'[d][i] < toServer'[d][j]
    BY DEF QueueInv
  <2>1. /\ \A i \in 1..Len(toServer[d]) : req'[toServer[d][i]].client = d
        /\ \A i, j \in 1..Len(toServer[d]) : i < j => toServer[d][i] < toServer[d][j]
    BY <1>3, <1>5 DEF StageInv, QueueInv
  <2>2. CASE toServer'[d] = toServer[d]
    BY <2>1, <2>2
  <2>3. CASE toServer'[d] # toServer[d]
    <3> DEFINE k == Len(toServer[d])
               t == toServer'[d]
    <3>1. /\ k \in Nat /\ Len(t) = k + 1 /\ t[k + 1] = n /\ d = c
          /\ \A i \in 1..k : t[i] = toServer[d][i] /\ t[i] < n
      BY <1>2, <1>4, <1>5, <2>3
    <3>2. \A i \in 1..k : req'[t[i]].client = d
      BY <2>1, <3>1
    <3>3. \A i, j \in 1..k : i < j => t[i] < t[j]
      BY <2>1, <3>1
    <3> HIDE DEF t, k
    <3>4. \A i \in 1..(k + 1) : i \in 1..k \/ i = k + 1
      BY <3>1
    <3>5. \A i \in 1..Len(t) : req'[t[i]].client = d
      BY <1>3, <3>1, <3>2, <3>4
    <3>6. ASSUME NEW i \in 1..Len(t), NEW j \in 1..Len(t), i < j PROVE t[i] < t[j]
      <4>1. i \in 1..k
        BY <3>1, <3>6
      <4> QED BY <3>1, <3>3, <3>4, <3>6, <4>1
    <3> QED BY <3>5, <3>6 DEF t
  <2> QED BY <2>2, <2>3
<1>7. ASSUME NEW r \in Requests PROVE StageOf(r)'
  <2>1. Queued(r)' => Queued(r) \/ r = n
    BY <1>4, <1>5 DEF Queued
  <2>2. r \in Nat
    BY BoundsAssumption DEF Requests
  <2>3. Queued(r)' \/ r > Len(req') => Queued(r) \/ r > Len(req)
    BY <1>2, <1>3, <2>1, <2>2
  <2>4. Replied(r)' <=> Replied(r)
    BY DEF Replied
  <2>5. StageOf(r)
    BY DEF StageInv
  <2> QED BY <2>3, <2>4, <2>5 DEF StageOf
<1> QED BY <1>6, <1>7 DEF StageInv

(***************************************************************************)
(* The server takes a request out of the queue and answers it, or passes   *)
(* it on.                                                                  *)
(***************************************************************************)
LEMMA RequestStages ==
    ASSUME StoreInv, StageInv, NEW c \in Clients, RequestTranslate(c)
    PROVE  StageInv'
<1> DEFINE r == Head(toServer[c])
           s == toServer[c]
<1>1. /\ s # <<>> /\ toServer' = [toServer EXCEPT ![c] = Tail(s)]
      /\ UNCHANGED <<req, open, toHandler>>
  BY DEF RequestTranslate, client, store, observer
<1>2. \/ answers' = [answers EXCEPT ![r] = @ + 1] /\ toObserver' = toObserver
      \/ /\ answers' = answers
         /\ toObserver' = toObserver \/ toObserver' = toObserver \cup {r}
  BY DEF RequestTranslate, Respond
<1>3. /\ req \in Seq(Request) /\ Len(req) \in 0..MaxRequests
      /\ toServer \in [Clients -> Seq(1..Len(req))] /\ s \in Seq(1..Len(req))
  BY BoundsAssumption DEF StoreInv, StoreType
<1>4. /\ Len(s) \in Nat \ {0} /\ r = s[1] /\ r \in 1..Len(req)
      /\ Len(Tail(s)) = Len(s) - 1
      /\ \A i \in 1..Len(Tail(s)) : Tail(s)[i] = s[i + 1]
  BY <1>1, <1>3
<1>5. r \in Requests /\ Queued(r)
  BY <1>3, <1>4, BoundsAssumption DEF Requests, Queued
<1>6. \A d \in Clients : toServer'[d] = IF d = c THEN Tail(s) ELSE toServer[d]
  BY <1>1, <1>3
<1>7. QueueInv'
  <2> SUFFICES ASSUME NEW d \in Clients
               PROVE  /\ \A i \in 1..Len(toServer'[d]) : req[toServer'[d][i]].client = d
                      /\ \A i, j \in 1..Len(toServer'[d]) :
                            i < j => toServer'[d][i] < toServer'[d][j]
    BY <1>1 DEF QueueInv
  <2>1. /\ \A i \in 1..Len(toServer[d]) : req[toServer[d][i]].client = d
        /\ \A i, j \in 1..Len(toServer[d]) : i < j => toServer[d][i] < toServer[d][j]
    BY DEF StageInv, QueueInv
  <2>2. CASE d # c
    BY <1>6, <2>1, <2>2
  <2>3. CASE d = c
    <3> DEFINE t == Tail(s)
    <3>1. toServer'[d] = t
      BY <1>6, <2>3
    <3>2. \A i \in 1..Len(t) : i \in Nat /\ i + 1 \in 1..Len(s) /\ t[i] = s[i + 1]
      BY <1>4
    <3> HIDE DEF t
    <3>3. \A i \in 1..Len(t) : req[t[i]].client = d
      BY <2>1, <2>3, <3>2
    <3>4. ASSUME NEW i \in 1..Len(t), NEW j \in 1..Len(t), i < j PROVE t[i] < t[j]
      <4>1. i + 1 \in 1..Len(s) /\ j + 1 \in 1..Len(s) /\ i + 1 < j + 1
        BY <3>2, <3>4
      <4> QED BY <2>1, <2>3, <3>2, <4>1
    <3> QED BY <3>1, <3>3, <3>4
  <2> QED BY <2>2, <2>3
<1>8. ASSUME NEW q \in Requests, Queued(q)' PROVE Queued(q) /\ q # r
  <2>1. PICK d \in Clients : \E i \in 1..Len(toServer'[d]) : toServer'[d][i] = q
    BY <1>8 DEF Queued
  <2>4. PICK i \in 1..Len(toServer'[d]) : toServer'[d][i] = q
    BY <2>1
  <2>2. CASE d # c
    <3>1. i \in 1..Len(toServer[d]) /\ toServer[d][i] = q
      BY <1>6, <2>4, <2>2
    <3>2. req[q].client = d /\ req[r].client = c
      BY <1>4, <3>1 DEF StageInv, QueueInv
    <3> QED BY <2>2, <3>1, <3>2 DEF Queued
  <2>3. CASE d = c
    <3>0. i \in 1..Len(Tail(s)) /\ Tail(s)[i] = q
      BY <1>6, <2>3, <2>4
    <3>1. i + 1 \in 1..Len(s) /\ 1 \in 1..Len(s) /\ 1 < i + 1 /\ s[i + 1] = q
      BY <1>4, <3>0
    <3>2. s[1] < s[i + 1] /\ s[1] \in Nat
      BY <1>3, <3>1 DEF StageInv, QueueInv
    <3>3. s[1] # q
      BY <3>1, <3>2
    <3> QED BY <1>4, <3>1, <3>3 DEF Queued
  <2> QED BY <2>2, <2>3
<1>9. ASSUME NEW q \in Requests PROVE StageOf(q)'
  <2>1. Replied(q)' <=> Replied(q)
    BY <1>1 DEF Replied
  <2>2. StageOf(q) /\ answers[q] \in Nat
    BY DEF StageInv
  <2>3. CASE q # r
    <3>1. answers'[q] = answers[q] /\ (q \in toObserver' <=> q \in toObserver)
      BY <1>2, <1>5, <2>3 DEF StageInv
    <3> QED BY <1>1, <1>8, <2>1, <2>2, <3>1 DEF StageOf
  <2>4. CASE q = r
    <3>1. r \notin toObserver /\ r \notin open /\ ~Replied(r) /\ answers[r] = 0
      BY <1>5, <2>2, <2>4 DEF StageOf
    <3>2. ~(q > Len(req)) /\ ~Queued(q)'
      <4>1. ~(q > Len(req))
        BY <1>3, <1>4, <2>4
      <4>2. ~Queued(q)'
        BY <1>8, <2>4
      <4> QED BY <4>1, <4>2
    <3>3. (answers'[r] = 1 /\ r \notin toObserver') \/ answers'[r] = 0
      BY <1>2, <1>5, <3>1 DEF StageInv
    <3>4. (Queued(q)' \/ q > Len(req')) <=> FALSE
      BY <1>1, <3>2
    <3>5. ~Replied(q)' /\ q \notin open'
      BY <1>1, <2>1, <2>4, <3>1
    <3> QED BY <2>4, <3>3, <3>4, <3>5 DEF StageOf
  <2> QED BY <2>3, <2>4
<1>10. answers' \in [Requests -> Nat]
  BY <1>2, <1>5 DEF StageInv
<1> QED BY <1>1, <1>7, <1>9, <1>10 DEF StageInv

(***************************************************************************)
(* A reply is consumed by its handler, which answers or drops it.          *)
(***************************************************************************)
LEMMA ReplyStages ==
    ASSUME StoreInv, StageInv, NEW m \in toHandler, GetNeonTranslations(m)
    PROVE  StageInv'
<1> DEFINE r == m.req
<1>1. /\ UNCHANGED <<req, toServer, toObserver, open>>
      /\ toHandler' = toHandler \ {m}
      /\ answers' = answers \/ answers' = [answers EXCEPT ![r] = @ + 1]
  BY DEF GetNeonTranslations, Respond, client, observer
<1>2. r \in Requests /\ Replied(r) BY DEF StoreInv, StoreType, Reply, Replied
<1>3. ~Replied(r)'
  BY <1>1 DEF StageInv, Replied
<1>4. \A q \in Requests : Queued(q)' <=> Queued(q)
  BY <1>1 DEF Queued
<1>5. ASSUME NEW q \in Requests PROVE StageOf(q)'
  <2>1. StageOf(q) /\ answers[q] \in Nat
    BY DEF StageInv
  <2>2. CASE q # r
    <3>1. answers'[q] = answers[q]
      BY <1>1, <1>2, <2>2 DEF StageInv
    <3>2. Replied(q)' => Replied(q)
      BY <1>1 DEF Replied
    <3> QED BY <1>1, <1>4, <2>1, <3>1, <3>2 DEF StageOf
  <2>3. CASE q = r
    <3>1. /\ ~Queued(r) /\ ~(r > Len(req)) /\ r \notin toObserver /\ r \notin open
          /\ answers[r] = 0
      BY <1>2, <2>1, <2>3 DEF StageOf
    <3>2. answers'[r] \in {0, 1}
      BY <1>1, <1>2, <3>1 DEF StageInv
    <3> QED BY <1>1, <1>3, <1>4, <2>3, <3>1, <3>2 DEF StageOf
  <2> QED BY <2>2, <2>3
<1>6. answers' \in [Requests -> Nat]
  BY <1>1, <1>2 DEF StageInv
<1>7. QueueInv'
  BY <1>1 DEF StageInv, QueueInv
<1> QED BY <1>1, <1>5, <1>6, <1>7 DEF StageInv

(***************************************************************************)
(* In the observer, who takes the request out of the table replies: the    *)
(* service's answer or the timer, never both.                              *)
(***************************************************************************)
LEMMA ObserverStages ==
    ASSUME StoreInv, StageInv, NEW r \in Requests,
           \/ RequestNeonTranslations(r)
           \/ OnNeonTranslationsResponse(r)
           \/ VoidCallback(r)
    PROVE  StageInv'
<1>1. UNCHANGED <<req, toServer, answers>>
  BY DEF RequestNeonTranslations, OnNeonTranslationsResponse, VoidCallback,
     client, store, server
<1>2. QueueInv' /\ \A q \in Requests : Queued(q)' <=> Queued(q)
  BY <1>1 DEF StageInv, QueueInv, Queued
<1>3. CASE RequestNeonTranslations(r)
  <2>1. /\ r \in toObserver /\ toObserver' = toObserver \ {r}
        /\ open' = open \cup {r} /\ toHandler' = toHandler
    BY <1>3 DEF RequestNeonTranslations
  <2>2. \A q \in Requests : StageOf(q) => StageOf(q)'
    BY <1>1, <1>2, <2>1 DEF StageOf, Replied
  <2> QED BY <1>1, <1>2, <2>1, <2>2 DEF StageInv
<1>4. ASSUME NEW full, SendTranslationResponse(r, full), toObserver' = toObserver
      PROVE  StageInv'
  <2> DEFINE reply == [req |-> r, full |-> full]
  <2>1. CASE r \notin open
    <3>1. open' = open /\ toHandler' = toHandler
      BY <1>4, <2>1 DEF SendTranslationResponse
    <3>2. \A q \in Requests : StageOf(q) => StageOf(q)'
      BY <1>1, <1>2, <1>4, <3>1 DEF StageOf, Replied
    <3> QED BY <1>1, <1>2, <3>1, <3>2 DEF StageInv
  <2>2. CASE r \in open
    <3>1. open' = open \ {r} /\ toHandler' = toHandler \cup {reply}
      BY <1>4, <2>2 DEF SendTranslationResponse
    <3>2. StageOf(r) /\ ~Replied(r)
      BY <2>2 DEF StageInv, StageOf
    <3>3. ASSUME NEW q \in Requests PROVE Replied(q)' <=> Replied(q) \/ q = r
      <4>1. reply.req = r /\ reply \in toHandler'
        BY <3>1
      <4>2. \A m \in toHandler' : m \in toHandler \/ m = reply
        BY <3>1
      <4> HIDE DEF reply
      <4> QED BY <3>1, <4>1, <4>2 DEF Replied
    <3>4. ASSUME NEW q \in Requests PROVE StageOf(q)'
      <4>1. StageOf(q)
        BY DEF StageInv
      <4>2. CASE q # r
        BY <1>1, <1>2, <1>4, <3>1, <3>3, <4>1, <4>2 DEF StageOf
      <4>3. CASE q = r
        BY <1>1, <1>2, <1>4, <2>2, <3>1, <3>2, <4>3 DEF StageOf
      <4> QED BY <4>2, <4>3
    <3>5. ASSUME NEW x \in toHandler', NEW y \in toHandler', x.req = y.req
          PROVE  x = y
      BY <3>1, <3>2, <3>5 DEF StageInv, Replied
    <3> QED BY <1>1, <1>2, <3>4, <3>5 DEF StageInv
  <2> QED BY <2>1, <2>2
<1>5. CASE OnNeonTranslationsResponse(r)
  BY <1>4, <1>5 DEF OnNeonTranslationsResponse
<1>6. CASE VoidCallback(r)
  BY <1>4, <1>6 DEF VoidCallback
<1> QED BY <1>3, <1>5, <1>6

(***************************************************************************)
(* An outage takes requests back to no place at all.                       *)
(***************************************************************************)
LEMMA OutageStages ==
    ASSUME StoreInv, StageInv, Shrinks
    PROVE  StageInv'
<1>1. /\ UNCHANGED <<req, answers>>
      /\ toObserver' \subseteq toObserver /\ toHandler' \subseteq toHandler /\ open' \subseteq open
  BY DEF Shrinks
<1>2. \A c \in Clients : toServer'[c] = toServer[c] \/ Len(toServer'[c]) = 0
  BY DEF Shrinks, StoreInv, StoreType
<1>3. QueueInv'
  BY <1>1, <1>2 DEF StageInv, QueueInv
<1>4. ASSUME NEW q \in Requests PROVE StageOf(q)'
  <2>1. Queued(q)' => Queued(q)
    BY <1>2 DEF Queued
  <2>2. Replied(q)' => Replied(q)
    BY <1>1 DEF Replied
  <2>3. StageOf(q)
    BY DEF StageInv
  <2> QED BY <1>1, <2>1, <2>2, <2>3 DEF StageOf
<1> QED BY <1>1, <1>3, <1>4 DEF StageInv

(***************************************************************************)
(* All actions together.                                                   *)
(***************************************************************************)
LEMMA StageInvariant == Spec => []StageInv
<1>1. Init => StageInv
  <2> SUFFICES ASSUME Init PROVE StageInv OBVIOUS
  <2>1. answers \in [Requests -> Nat] /\ \A r \in Requests : answers[r] = 0
    BY DEF Init
  <2>2. \A c \in Clients : Len(toServer[c]) = 0
    BY DEF Init
  <2>3. toObserver = {} /\ open = {} /\ toHandler = {}
    BY DEF Init
  <2>4. QueueInv
    BY <2>2 DEF QueueInv
  <2>5. \A r \in Requests : ~Replied(r)
    BY <2>3 DEF Replied
  <2>6. \A r \in Requests : StageOf(r)
    BY <2>1, <2>3, <2>5 DEF StageOf
  <2> QED BY <2>1, <2>3, <2>4, <2>6 DEF StageInv
<1>2. StoreInv /\ StageInv /\ [Next]_vars => StageInv'
  <2> SUFFICES ASSUME StoreInv, StageInv, [Next]_vars PROVE StageInv' OBVIOUS
  <2>1. ASSUME NEW c \in Clients, NEW l, NEW chats, NEW want, Emit(c, l, chats, want),
               UNCHANGED <<answers, toObserver, open, toHandler>>
        PROVE  StageInv'
    BY <2>1, EmitStages
  <2>2. ASSUME NEW c \in Clients, NEW k \in Chats, NEW l \in Langs, ChangeLanguage(c, k, l)
        PROVE  StageInv'
    BY <2>1, <2>2 DEF ChangeLanguage, server, observer
  <2>3. ASSUME NEW c \in Clients, NEW s \in LiveIds, NewMessage(c, s) PROVE StageInv'
    BY <2>1, <2>3 DEF NewMessage, server, observer
  <2>4. ASSUME NEW c \in Clients, NewHiddenMessage(c) PROVE StageInv'
    BY <2>1, <2>4 DEF NewHiddenMessage, server, observer
  <2>5. CASE UNCHANGED <<req, toServer, answers, toObserver, open, toHandler>>
    BY <2>5 DEF StageInv, QueueInv, StageOf, Queued, Replied
  <2>6. ASSUME NEW c \in Clients, ApplyTranslations(c) PROVE StageInv'
    BY <2>5, <2>6 DEF ApplyTranslations, server, observer
  <2>7. CASE UNCHANGED vars
    BY <2>5, <2>7 DEF vars, server, observer
  <2> QED
    BY <2>2, <2>3, <2>4, <2>6, <2>7, RequestStages, ReplyStages, ObserverStages,
       OutageShrinks, OutageStages
       DEF Next, ClientNext, ServerNext, ObserverNext
<1> QED BY <1>1, <1>2, StoreInvariant, PTL DEF Spec

(***************************************************************************)
(* AnsweredOnce: whatever the order of late answers, timers and evictions, *)
(* no request is answered twice.                                           *)
(***************************************************************************)
THEOREM AnswersAreSingle == Spec => []AnsweredOnce
<1>1. StageInv => AnsweredOnce
  BY DEF StageInv, StageOf, AnsweredOnce
<1> QED BY <1>1, StageInvariant, PTL

(***************************************************************************)
(* The chain implements RequestReply: a client that emits a request asks,  *)
(* the response is the answer, and every other step is a stutter.          *)
(***************************************************************************)
THEOREM Refinement == Spec => ImplementsRequestReply
<1>1. Init => Rpc!Init
  <2> SUFFICES ASSUME Init PROVE Rpc!Init OBVIOUS
  <2>1. Len(req) = 0 /\ answers = [r \in Requests |-> 0]
    BY DEF Init
  <2> QED BY <2>1 DEF Rpc!Init
<1>2. StoreInv /\ StageInv /\ [Next]_vars => [Rpc!Next]_Rpc!vars
  <2> SUFFICES ASSUME StoreInv, StageInv, [Next]_vars
               PROVE  Rpc!Next \/ UNCHANGED <<1..Len(req), answers>>
    BY DEF Rpc!vars
  <2>0. /\ req \in Seq(Request) /\ Len(req) \in 0..MaxRequests /\ MaxRequests \in Nat
        /\ toServer \in [Clients -> Seq(1..Len(req))]
    BY BoundsAssumption DEF StoreInv, StoreType
  <2>1. ASSUME NEW c \in Clients, NEW l, NEW chats, NEW want, Emit(c, l, chats, want),
               UNCHANGED answers
        PROVE  Rpc!Next
    <3> DEFINE r == Len(req) + 1
    <3>1. Len(req') = r /\ r \in Requests
      BY <2>0, <2>1 DEF Emit, Requests
    <3>2. r \notin 1..Len(req) /\ 1..Len(req') = (1..Len(req)) \cup {r}
      BY <2>0, <3>1
    <3> QED BY <2>1, <3>1, <3>2 DEF Rpc!Next, Rpc!Ask
  <2>2. ASSUME NEW r \in Requests, r <= Len(req), answers[r] = 0, UNCHANGED req,
               answers' = [answers EXCEPT ![r] = @ + 1]
        PROVE  Rpc!Next
    <3>1. answers' = [answers EXCEPT ![r] = 1]
      BY <2>2 DEF StageInv
    <3>2. r \in 1..Len(req)
      BY <2>0, <2>2 DEF Requests
    <3> QED BY <2>2, <3>1, <3>2 DEF Rpc!Next, Rpc!Answer
  <2>3. ASSUME NEW c \in Clients, RequestTranslate(c)
        PROVE  Rpc!Next \/ UNCHANGED <<1..Len(req), answers>>
    <3>1. toServer[c] # <<>> /\ toServer[c] \in Seq(1..Len(req))
      BY <2>0, <2>3 DEF RequestTranslate
    <3>2. PICK r \in 1..Len(req) : r = Head(toServer[c])
      BY <3>1, HeadTailProperties
    <3>3. r \in Requests /\ Queued(r)
      <4>1. Len(toServer[c]) \in Nat \ {0} /\ r = toServer[c][1]
        BY <3>1, <3>2
      <4> QED BY <2>0, <4>1 DEF Queued, Requests
    <3>4. r <= Len(req) /\ answers[r] = 0
      BY <2>0, <3>3 DEF StageInv, StageOf
    <3>5. /\ UNCHANGED req
          /\ answers' = answers \/ answers' = [answers EXCEPT ![r] = @ + 1]
      BY <2>3, <3>2 DEF RequestTranslate, Respond
    <3> QED BY <2>2, <3>3, <3>4, <3>5
  <2>4. ASSUME NEW m \in toHandler, GetNeonTranslations(m)
        PROVE  Rpc!Next \/ UNCHANGED <<1..Len(req), answers>>
    <3>1. m.req \in Requests /\ Replied(m.req)
      BY DEF StoreInv, StoreType, Reply, Replied
    <3>2. m.req <= Len(req) /\ answers[m.req] = 0
      BY <2>0, <3>1 DEF StageInv, StageOf, Requests
    <3>3. /\ UNCHANGED req
          /\ answers' = answers \/ answers' = [answers EXCEPT ![m.req] = @ + 1]
      BY <2>4 DEF GetNeonTranslations, Respond
    <3> QED BY <2>2, <3>1, <3>2, <3>3
  <2>5. ASSUME NEW c \in Clients, NEW k \in Chats, NEW l \in Langs, ChangeLanguage(c, k, l)
        PROVE  Rpc!Next
    BY <2>1, <2>5 DEF ChangeLanguage, server
  <2>6. ASSUME NEW c \in Clients, NEW s \in LiveIds, NewMessage(c, s) PROVE Rpc!Next
    BY <2>1, <2>6 DEF NewMessage, server
  <2>7. ASSUME NEW c \in Clients, NewHiddenMessage(c) PROVE Rpc!Next
    BY <2>1, <2>7 DEF NewHiddenMessage, server
  <2>8. ASSUME \/ \E c \in Clients : ApplyTranslations(c)
               \/ ObserverNext
               \/ OutageNext
               \/ UNCHANGED vars
        PROVE  UNCHANGED <<1..Len(req), answers>>
    BY <2>8, OutageShrinks DEF ApplyTranslations, ObserverNext, RequestNeonTranslations,
       OnNeonTranslationsResponse, VoidCallback, Shrinks, server, vars
  <2> QED
    BY <2>3, <2>4, <2>5, <2>6, <2>7, <2>8 DEF Next, ClientNext, ServerNext
<1> QED
  BY <1>1, <1>2, StoreInvariant, StageInvariant, PTL
  DEF Spec, ImplementsRequestReply, Rpc!Spec

-----------------------------------------------------------------------------
(***************************************************************************)
(* What the database had and what the service is asked for are all that    *)
(* was found, until the request is answered; so are the full answers on    *)
(* their way to the clients.                                               *)
(***************************************************************************)
SplitInv ==
    /\ populated \in [Requests -> SUBSET Shouts]
    /\ \A r \in Requests :
          r \in toObserver \/ r \in open \/ Replied(r) =>
             r \in 1..Len(req) /\ populated[r] \cup missing[r] = Found(r)

OnTheWay(c, m) == \E i \in 1..Len(toClient[c]) : toClient[c][i] = m

AnswerInv ==
    /\ toClient \in [Clients -> Seq(Response)]
    /\ \A c \in Clients, m \in Response :
          OnTheWay(c, m) => /\ m.req \in 1..Len(req)
                            /\ m.full => m.shouts = Found(m.req)

CompleteInv == SplitInv /\ AnswerInv

(***************************************************************************)
(* New requests change nothing about the older ones.                       *)
(***************************************************************************)
LEMMA EmitComplete ==
    ASSUME StoreInv, CompleteInv, NEW c \in Clients, NEW l, NEW chats, NEW want,
           Emit(c, l, chats, want),
           UNCHANGED <<populated, missing, toObserver, open, toHandler, toClient>>
    PROVE  CompleteInv'
<1>1. /\ req \in Seq(Request) /\ Len(req) \in Nat
      /\ Len(req') = Len(req) + 1 /\ \A r \in 1..Len(req) : req'[r] = req[r]
  BY DEF Emit, StoreInv, StoreType
<1>2. ASSUME NEW r \in 1..Len(req) PROVE r \in 1..Len(req') /\ Found(r)' = Found(r)
  BY <1>1 DEF Found
<1>3. SplitInv'
  <2>1. \A r : Replied(r)' <=> Replied(r)
    BY DEF Replied
  <2> QED BY <1>2, <2>1 DEF CompleteInv, SplitInv
<1>4. AnswerInv'
  <2>1. \A d \in Clients, m \in Response : OnTheWay(d, m)' <=> OnTheWay(d, m)
    BY DEF OnTheWay
  <2> QED BY <1>2, <2>1 DEF CompleteInv, AnswerInv
<1> QED BY <1>3, <1>4 DEF CompleteInv

(***************************************************************************)
(* An answer that covers what was found for its request.                   *)
(***************************************************************************)
LEMMA RespondComplete ==
    ASSUME StoreInv, AnswerInv, UNCHANGED req, NEW r \in 1..Len(req),
           NEW shouts \in SUBSET Shouts, NEW full \in BOOLEAN,
           Respond(r, shouts, full), full => shouts = Found(r)
    PROVE  AnswerInv'
<1> DEFINE k == req[r].client
           new == [req |-> r, shouts |-> shouts, full |-> full]
<1>1. r \in Requests /\ k \in Clients
  <2>1. req \in Seq(Request) /\ Len(req) \in Nat /\ Len(req) <= MaxRequests
    BY DEF StoreInv, StoreType
  <2>2. req[r] \in Request
    BY <2>1
  <2> QED BY <2>1, <2>2, BoundsAssumption DEF Request, Requests
<1>2. new \in Response /\ new.req = r /\ new.full = full /\ new.shouts = shouts
  BY <1>1 DEF Response
<1>0. toClient' = toClient \/ toClient' = [toClient EXCEPT ![k] = Append(@, new)]
  BY DEF Respond
<1> HIDE DEF new, k
<1>9. CASE toClient' = toClient
  BY <1>9 DEF AnswerInv, OnTheWay, Found
<1> SUFFICES ASSUME toClient' = [toClient EXCEPT ![k] = Append(@, new)] PROVE AnswerInv'
  BY <1>0, <1>9
<1>3. toClient' = [toClient EXCEPT ![k] = Append(@, new)]
  OBVIOUS
<1>4. \A d \in Clients : toClient[d] \in Seq(Response)
  BY DEF AnswerInv
<1>5. \A d \in Clients : toClient'[d] = IF d = k THEN Append(toClient[d], new) ELSE toClient[d]
  BY <1>1, <1>3 DEF AnswerInv
<1>6. toClient' \in [Clients -> Seq(Response)]
  BY <1>1, <1>2, <1>3, <1>4 DEF AnswerInv
<1>7. \A q : Found(q)' = Found(q)
  BY DEF Found
<1>8. ASSUME NEW d \in Clients, NEW m \in Response, OnTheWay(d, m)'
      PROVE  OnTheWay(d, m) \/ m = new
  <2>1. PICK i \in 1..Len(toClient'[d]) : toClient'[d][i] = m
    BY <1>8 DEF OnTheWay
  <2>2. CASE d # k
    BY <1>5, <2>1, <2>2 DEF OnTheWay
  <2>3. CASE d = k
    <3>1. toClient'[d] = Append(toClient[d], new) /\ toClient[d] \in Seq(Response)
      BY <1>4, <1>5, <2>3
    <3>2. Len(toClient[d]) \in Nat /\ Len(toClient'[d]) = Len(toClient[d]) + 1
      BY <1>2, <3>1
    <3>3. CASE i = Len(toClient[d]) + 1
      BY <1>2, <2>1, <3>1, <3>3
    <3>4. CASE i # Len(toClient[d]) + 1
      <4>1. i \in 1..Len(toClient[d])
        BY <3>2, <3>4
      <4>2. toClient'[d][i] = toClient[d][i]
        BY <1>2, <3>1, <4>1
      <4> QED BY <2>1, <4>1, <4>2 DEF OnTheWay
    <3> QED BY <3>3, <3>4
  <2> QED BY <2>2, <2>3
<1> QED BY <1>2, <1>6, <1>7, <1>8 DEF AnswerInv

(***************************************************************************)
(* request_translate splits what it finds in two.                          *)
(***************************************************************************)
LEMMA RequestComplete ==
    ASSUME StoreInv, StageInv, CompleteInv, NEW c \in Clients, RequestTranslate(c)
    PROVE  CompleteInv'
<1>1. toServer[c] # <<>> /\ toServer[c] \in Seq(1..Len(req))
  BY DEF RequestTranslate, StoreInv, StoreType
<1>2. PICK r \in 1..Len(req) : r = Head(toServer[c])
  BY <1>1, HeadTailProperties
<1>3. r \in Requests /\ Queued(r)
  <2>1. Len(toServer[c]) \in Nat \ {0} /\ r = toServer[c][1]
    BY <1>1, <1>2
  <2>2. r \in Requests
    BY BoundsAssumption DEF StoreInv, StoreType, Requests
  <2> QED BY <2>1, <2>2 DEF Queued
<1>4. /\ UNCHANGED <<req, open, toHandler>>
      /\ populated' = [populated EXCEPT ![r] = InStore(r)]
      /\ missing' = [missing EXCEPT ![r] = Found(r) \ InStore(r)]
      /\ \/ /\ Found(r) \subseteq InStore(r)
            /\ Respond(r, InStore(r), TRUE)
            /\ toObserver' = toObserver
         \/ /\ toObserver' = toObserver \/ toObserver' = toObserver \cup {r}
            /\ toClient' = toClient
  BY <1>2 DEF RequestTranslate, client, store, observer
<1>5. InStore(r) \subseteq Found(r) /\ Found(r) \subseteq Shouts
  BY DEF InStore, Found
<1>6. \A q : Found(q)' = Found(q) /\ (Replied(q)' <=> Replied(q))
  BY <1>4 DEF Found, Replied
<1>7. SplitInv'
  <2>1. populated' \in [Requests -> SUBSET Shouts]
    BY <1>4, <1>5 DEF CompleteInv, SplitInv
  <2>2. ASSUME NEW q \in Requests, q \in toObserver' \/ q \in open' \/ Replied(q)'
        PROVE  q \in 1..Len(req) /\ populated'[q] \cup missing'[q] = Found(q)
    <3>1. CASE q = r
      <4>1. populated'[r] = InStore(r) /\ missing'[r] = Found(r) \ InStore(r)
        BY <1>3, <1>4 DEF CompleteInv, SplitInv, StoreInv, StoreType
      <4> QED BY <1>5, <3>1, <4>1
    <3>2. CASE q # r
      <4>1. populated'[q] = populated[q] /\ missing'[q] = missing[q]
        BY <1>4, <3>2 DEF CompleteInv, SplitInv, StoreInv, StoreType
      <4>2. q \in toObserver \/ q \in open \/ Replied(q)
        BY <1>4, <1>6, <2>2, <3>2
      <4> QED BY <4>1, <4>2 DEF CompleteInv, SplitInv
    <3> QED BY <3>1, <3>2
  <2> QED BY <1>4, <1>6, <2>1, <2>2 DEF SplitInv
<1>8. AnswerInv'
  <2>1. CASE toClient' = toClient
    BY <1>4, <2>1 DEF CompleteInv, AnswerInv, OnTheWay, Found
  <2>2. CASE Found(r) \subseteq InStore(r) /\ Respond(r, InStore(r), TRUE)
    <3>1. InStore(r) = Found(r) /\ InStore(r) \in SUBSET Shouts
      BY <1>5, <2>2
    <3> QED BY <1>4, <2>2, <3>1, RespondComplete DEF CompleteInv
  <2> QED BY <1>4, <2>1, <2>2
<1> QED BY <1>7, <1>8 DEF CompleteInv

(***************************************************************************)
(* get_neon_translations puts the two parts together again.                *)
(***************************************************************************)
LEMMA ReplyComplete ==
    ASSUME StoreInv, CompleteInv, NEW m \in toHandler, GetNeonTranslations(m)
    PROVE  CompleteInv'
<1>1. PICK r \in Requests : r = m.req
  BY DEF StoreInv, StoreType, Reply
<1>2. r \in 1..Len(req) /\ populated[r] \cup missing[r] = Found(r)
  BY <1>1 DEF CompleteInv, SplitInv, Replied
<1>3. /\ UNCHANGED <<req, populated, missing, toObserver, open>>
      /\ toHandler' = toHandler \ {m}
      /\ \/ toClient' = toClient
         \/ Respond(r, missing[r] \cup populated[r], TRUE)
         \/ Respond(r, populated[r], FALSE)
  BY <1>1 DEF GetNeonTranslations, client, observer
<1>4. SplitInv'
  <2>1. \A q : Replied(q)' => Replied(q)
    BY <1>3 DEF Replied
  <2>2. \A q : Found(q)' = Found(q)
    BY <1>3 DEF Found
  <2> QED BY <1>3, <2>1, <2>2 DEF CompleteInv, SplitInv
<1>5. AnswerInv'
  <2>1. CASE toClient' = toClient
    BY <1>3, <2>1 DEF CompleteInv, AnswerInv, OnTheWay, Found
  <2>2. CASE Respond(r, missing[r] \cup populated[r], TRUE)
    <3>1. missing[r] \cup populated[r] = Found(r)
      BY <1>2
    <3>2. Found(r) \in SUBSET Shouts
      BY DEF Found
    <3> QED BY <1>2, <1>3, <2>2, <3>1, <3>2, RespondComplete DEF CompleteInv
  <2>3. CASE Respond(r, populated[r], FALSE)
    <3>1. populated[r] \in SUBSET Shouts
      BY DEF CompleteInv, SplitInv
    <3> QED BY <1>2, <1>3, <2>3, <3>1, RespondComplete DEF CompleteInv
  <2> QED BY <1>3, <2>1, <2>2, <2>3
<1> QED BY <1>4, <1>5 DEF CompleteInv

(***************************************************************************)
(* An outage drops answers on their way, but changes none.                 *)
(***************************************************************************)
LEMMA OutageComplete ==
    ASSUME StoreInv, CompleteInv, Shrinks
    PROVE  CompleteInv'
<1>1. /\ UNCHANGED <<req, populated, missing>>
      /\ toObserver' \subseteq toObserver /\ toHandler' \subseteq toHandler /\ open' \subseteq open
  BY DEF Shrinks
<1>2. \A q : (Replied(q)' => Replied(q)) /\ Found(q)' = Found(q)
  BY <1>1 DEF Replied, Found
<1>3. SplitInv'
  BY <1>1, <1>2 DEF CompleteInv, SplitInv
<1>4. /\ toClient' \in [Clients -> Seq(Response)]
      /\ \A c \in Clients : toClient'[c] = toClient[c] \/ toClient'[c] = <<>>
  BY QueueShrinks DEF CompleteInv, AnswerInv, StoreInv, StoreType
<1>5. \A c \in Clients, m \in Response : OnTheWay(c, m)' => OnTheWay(c, m)
  BY <1>4 DEF OnTheWay
<1>6. AnswerInv'
  BY <1>1, <1>2, <1>4, <1>5 DEF CompleteInv, AnswerInv
<1> QED BY <1>3, <1>6 DEF CompleteInv

(***************************************************************************)
(* All actions together.                                                   *)
(***************************************************************************)
LEMMA CompleteInvariant == Spec => []CompleteInv
<1>1. Init => CompleteInv
  <2> SUFFICES ASSUME Init PROVE CompleteInv OBVIOUS
  <2>1. SplitInv
    BY DEF Init, SplitInv, Replied
  <2>2. AnswerInv
    BY DEF Init, AnswerInv, OnTheWay
  <2> QED BY <2>1, <2>2 DEF CompleteInv
<1>2. StoreInv /\ StageInv /\ CompleteInv /\ [Next]_vars => CompleteInv'
  <2> SUFFICES ASSUME StoreInv, StageInv, CompleteInv, [Next]_vars PROVE CompleteInv'
    OBVIOUS
  <2>1. ASSUME NEW c \in Clients, NEW l, NEW chats, NEW want, Emit(c, l, chats, want),
               UNCHANGED <<populated, missing, toObserver, open, toHandler, toClient>>
        PROVE  CompleteInv'
    BY <2>1, EmitComplete
  <2>2. ASSUME NEW c \in Clients, NEW k \in Chats, NEW l \in Langs, ChangeLanguage(c, k, l)
        PROVE  CompleteInv'
    BY <2>1, <2>2 DEF ChangeLanguage, server, observer
  <2>3. ASSUME NEW c \in Clients, NEW s \in LiveIds, NewMessage(c, s) PROVE CompleteInv'
    BY <2>1, <2>3 DEF NewMessage, server, observer
  <2>4. ASSUME NEW c \in Clients, NewHiddenMessage(c) PROVE CompleteInv'
    BY <2>1, <2>4 DEF NewHiddenMessage, server, observer
  <2>5. ASSUME UNCHANGED <<req, populated, missing, toObserver, open, toHandler>>
        PROVE  SplitInv'
    <3>1. \A q : (Replied(q)' <=> Replied(q)) /\ Found(q)' = Found(q)
      BY <2>5 DEF Replied, Found
    <3> QED BY <2>5, <3>1 DEF CompleteInv, SplitInv
  <2>6. ASSUME NEW c \in Clients, ApplyTranslations(c) PROVE CompleteInv'
    <3>1. /\ UNCHANGED <<req, populated, missing, toObserver, open, toHandler>>
          /\ toClient[c] # <<>> /\ toClient' = [toClient EXCEPT ![c] = Tail(@)]
      BY <2>6 DEF ApplyTranslations, server, observer
    <3>2. \A d \in Clients : toClient[d] \in Seq(Response)
      BY DEF CompleteInv, AnswerInv
    <3>3. /\ toClient' \in [Clients -> Seq(Response)]
          /\ \A d \in Clients : \A i \in 1..Len(toClient'[d]) :
                \E j \in 1..Len(toClient[d]) : toClient'[d][i] = toClient[d][j]
      <4>1. /\ Tail(toClient[c]) \in Seq(Response)
            /\ \A i \in 1..Len(Tail(toClient[c])) :
                  i + 1 \in 1..Len(toClient[c]) /\ Tail(toClient[c])[i] = toClient[c][i + 1]
        BY <3>1, <3>2
      <4>2. \A d \in Clients :
               toClient'[d] = IF d = c THEN Tail(toClient[c]) ELSE toClient[d]
        BY <3>1 DEF CompleteInv, AnswerInv
      <4>3. toClient' \in [Clients -> Seq(Response)]
        BY <3>1, <4>1 DEF CompleteInv, AnswerInv
      <4> QED BY <4>1, <4>2, <4>3
    <3>4. \A d \in Clients, m \in Response : OnTheWay(d, m)' => OnTheWay(d, m)
      BY <3>3 DEF OnTheWay
    <3>5. \A q : Found(q)' = Found(q)
      BY <3>1 DEF Found
    <3>6. AnswerInv'
      BY <3>1, <3>3, <3>4, <3>5 DEF CompleteInv, AnswerInv
    <3> QED BY <2>5, <3>1, <3>6 DEF CompleteInv
  <2>7. ASSUME UNCHANGED toClient, UNCHANGED req PROVE AnswerInv'
    BY <2>7 DEF CompleteInv, AnswerInv, OnTheWay, Found
  <2>8. ASSUME NEW r \in Requests,
               \/ RequestNeonTranslations(r)
               \/ OnNeonTranslationsResponse(r)
               \/ VoidCallback(r)
        PROVE  CompleteInv'
    <3>1. UNCHANGED <<req, toClient, populated, missing>>
      BY <2>8 DEF RequestNeonTranslations, OnNeonTranslationsResponse, VoidCallback,
         client, store, server
    <3>2. \A q : Found(q)' = Found(q)
      BY <3>1 DEF Found
    <3>3. ASSUME NEW q, q \in toObserver' \/ q \in open' \/ Replied(q)'
          PROVE  q \in toObserver \/ q \in open \/ Replied(q)
      BY <2>8, <3>3 DEF RequestNeonTranslations, OnNeonTranslationsResponse, VoidCallback,
         SendTranslationResponse, Replied
    <3> QED BY <2>7, <3>1, <3>2, <3>3 DEF CompleteInv, SplitInv
  <2>9. CASE UNCHANGED vars
    BY <2>5, <2>7, <2>9 DEF vars, server, observer, CompleteInv
  <2> QED
    BY <2>2, <2>3, <2>4, <2>6, <2>8, <2>9, RequestComplete, ReplyComplete,
       OutageShrinks, OutageComplete
       DEF Next, ClientNext, ServerNext, ObserverNext
<1> QED BY <1>1, <1>2, StoreInvariant, StageInvariant, PTL DEF Spec

(***************************************************************************)
(* FullAnswersComplete: an answer of the translation service brings all    *)
(* messages of the request, whatever was stored while it was on its way.   *)
(***************************************************************************)
THEOREM FullAnswersAreComplete == Spec => []FullAnswersComplete
<1>1. CompleteInv => FullAnswersComplete
  <2> SUFFICES ASSUME CompleteInv, NEW c \in Clients, NEW i \in 1..Len(toClient[c])
               PROVE  toClient[c][i].full
                        => toClient[c][i].shouts = Found(toClient[c][i].req)
    BY DEF FullAnswersComplete
  <2>1. toClient[c][i] \in Response
    BY DEF CompleteInv, AnswerInv
  <2> QED BY <2>1 DEF CompleteInv, AnswerInv, OnTheWay
<1> QED BY <1>1, CompleteInvariant, PTL
-----------------------------------------------------------------------------
(***************************************************************************)
(* What the lemmas above do not need of the types: the page, the languages *)
(* of the database, the size of the cache, the observer's timers and jobs, *)
(* and the outages.                                                        *)
(***************************************************************************)
PageTyped ==
    /\ ui \in [Clients -> [Chats -> {"active", "updating"}]]
    /\ view \in [Clients -> [Ids -> Langs]]

WordsTyped ==
    /\ text \in [Shouts -> Writers \ {"nobody"}]
    /\ lang \in [Shouts -> Langs]

CacheTyped == cache \in Seq(Requests) /\ Len(cache) <= CacheSize

TasksTyped == timers \in SUBSET Requests /\ jobs \in SUBSET Requests

OutagesTyped ==
    /\ linked \in BOOLEAN /\ cut \in SUBSET Requests /\ gone \in SUBSET Requests
    /\ outages \in 0..MaxOutages

RestTyped == PageTyped /\ WordsTyped /\ CacheTyped /\ TasksTyped /\ OutagesTyped

\* The history of an outage names requests that were made.
LEMMA OutageTyped ==
    ASSUME StoreInv, RestTyped, OutageNext
    PROVE  RestTyped'
<1>1. Shrinks
  BY OutageShrinks
<1>2. PageTyped' /\ WordsTyped' /\ TasksTyped'
  BY <1>1 DEF Shrinks, client, store, RestTyped, PageTyped, WordsTyped, TasksTyped
<1>3. CacheTyped'
  <2>1. CASE cache' = cache
    BY <2>1 DEF RestTyped, CacheTyped
  <2>2. CASE cache' = <<>>
    BY <2>2, BoundsAssumption DEF CacheTyped
  <2> QED BY <1>1, <2>1, <2>2 DEF Shrinks
<1>4. /\ toObserver \in SUBSET Requests /\ open \in SUBSET Requests
      /\ \A U \in SUBSET toHandler : {m.req : m \in U} \subseteq Requests
      /\ 1..Len(req) \subseteq Requests
  BY BoundsAssumption DEF StoreInv, StoreType, Reply, Requests
<1>5. linked' \in BOOLEAN /\ outages' \in 0..MaxOutages
  <2>1. linked' \in BOOLEAN
    BY DEF OutageNext, Disconnect, Connect, RestartObserver, RestartServer, Resume, RestTyped,
       OutagesTyped
  <2>2. Fails \/ outages' = outages
    BY DEF OutageNext, Disconnect, Connect, RestartObserver, RestartServer, Resume
  <2>3. outages' \in 0..MaxOutages
    BY <2>2, BoundsAssumption DEF Fails, RestTyped, OutagesTyped
  <2> QED BY <2>1, <2>3
<1>6. cut' \in SUBSET Requests
  BY <1>4 DEF OutageNext, Disconnect, Connect, RestartObserver, RestartServer, Resume,
     RestTyped, OutagesTyped
<1>7. gone' \in SUBSET Requests
  <2>1. \A c : {r \in 1..Len(req) : req[r].client = c} \subseteq Requests
    BY <1>4
  <2> QED BY <1>4, <2>1 DEF OutageNext, Disconnect, Connect, RestartObserver, RestartServer,
             Resume, RestTyped, OutagesTyped
<1> QED BY <1>2, <1>3, <1>5, <1>6, <1>7 DEF RestTyped, OutagesTyped

\* __setitem__ makes room for one, get moves one to the end.
LEMMA InsertBounded ==
    ASSUME CacheTyped, NEW r \in Requests, Insert(r)
    PROVE  CacheTyped'
<1>1. PICK q : q = Append(cache, r)
  OBVIOUS
<1>2. q \in Seq(Requests) /\ Len(q) = Len(cache) + 1 /\ Len(cache) \in Nat
  BY <1>1 DEF CacheTyped
<1>3. cache' = IF Len(q) > CacheSize THEN Tail(q) ELSE q
  BY <1>1 DEF Insert
<1>4. CASE Len(q) > CacheSize
  <2>1. Tail(q) \in Seq(Requests) /\ Len(Tail(q)) = Len(q) - 1
    BY <1>2
  <2> QED BY <1>2, <1>3, <1>4, <2>1 DEF CacheTyped
<1>5. CASE ~(Len(q) > CacheSize)
  BY <1>2, <1>3, <1>5, BoundsAssumption DEF CacheTyped
<1> QED BY <1>4, <1>5

LEMMA TouchBounded ==
    ASSUME CacheTyped, NEW r \in Requests, Touch(r)
    PROVE  CacheTyped'
<1>1. PICK i \in 1..Len(cache) : cache' = Append(SubSeq(cache, 1, i - 1)
                                               \o SubSeq(cache, i + 1, Len(cache)), r)
  BY DEF Touch
<1>2. PICK pre, post, n : /\ pre = SubSeq(cache, 1, i - 1) /\ n = Len(cache)
                          /\ post = SubSeq(cache, i + 1, Len(cache))
  OBVIOUS
<1>3. n \in Nat /\ i \in 1..n /\ cache \in Seq(Requests) /\ \A k \in 1..n : cache[k] \in Requests
  BY <1>2 DEF CacheTyped
<1>4. pre \in Seq(Requests) /\ Len(pre) = i - 1
  BY <1>2, <1>3, SubSeqProperties
<1>5. post \in Seq(Requests) /\ Len(post) = n - i
  BY <1>2, <1>3, SubSeqProperties
<1>6. PICK rest : rest = pre \o post
  OBVIOUS
<1>7. rest \in Seq(Requests) /\ Len(rest) = Len(pre) + Len(post)
  BY <1>4, <1>5, <1>6
<1>8. Len(rest) = n - 1
  BY <1>3, <1>4, <1>5, <1>7
<1>9. cache' = Append(rest, r)
  BY <1>1, <1>2, <1>6
<1>10. cache' \in Seq(Requests) /\ Len(cache') = n
  BY <1>3, <1>7, <1>8, <1>9
<1> QED BY <1>2, <1>10 DEF CacheTyped

LEMMA MarkTyped ==
    ASSUME PageTyped, NEW c \in Clients, NEW k \in Chats, NEW l, MarkUpdating(c, k, l),
           UNCHANGED view
    PROVE  PageTyped'
BY DEF PageTyped, MarkUpdating

LEMMA ApplyTyped ==
    ASSUME StoreInv, CompleteInv, RestTyped, NEW c \in Clients, ApplyTranslations(c)
    PROVE  RestTyped'
<1>1. PICK m, shown : m = Head(toClient[c]) /\ shown = {s \in m.shouts : ChatOf[s] \in Displayed[c]}
  OBVIOUS
<1>2. /\ toClient[c] # <<>>
      /\ ui' = [ui EXCEPT ![c] = [k \in Chats |-> IF \E s \in shown : ChatOf[s] = k
                                                THEN "active" ELSE @[k]]]
      /\ view' = [view EXCEPT ![c] = [s \in Ids |-> IF s \in shown THEN req[m.req].lang ELSE @[s]]]
  BY <1>1 DEF ApplyTranslations
<1>3. req[m.req].lang \in Langs
  <2>1. toClient[c] \in Seq(Response)
    BY DEF CompleteInv, AnswerInv
  <2>2. m \in Response /\ m = toClient[c][1] /\ 1 \in 1..Len(toClient[c])
    BY <1>1, <1>2, <2>1
  <2>3. m.req \in 1..Len(req)
    BY <2>2 DEF CompleteInv, AnswerInv, OnTheWay
  <2>4. req[m.req] \in Request
    BY <2>3 DEF StoreInv, StoreType
  <2> QED BY <2>4 DEF Request
<1>4. PageTyped'
  <2>1. ui' \in [Clients -> [Chats -> {"active", "updating"}]]
    BY <1>2 DEF RestTyped, PageTyped
  <2>2. view' \in [Clients -> [Ids -> Langs]]
    BY <1>2, <1>3 DEF RestTyped, PageTyped
  <2> QED BY <2>1, <2>2 DEF PageTyped
<1>5. UNCHANGED <<text, lang, cache, timers, jobs, linked, cut, gone, outages>>
  BY DEF ApplyTranslations, store, server, observer, outage
<1> QED BY <1>4, <1>5 DEF RestTyped, WordsTyped, CacheTyped, TasksTyped, OutagesTyped

LEMMA RequestTyped ==
    ASSUME StoreInv, RestTyped, NEW c \in Clients, RequestTranslate(c)
    PROVE  RestTyped'
<1>1. PICK r : r = Head(toServer[c])
  OBVIOUS
<1>2. toServer[c] # <<>> /\ (Insert(r) \/ UNCHANGED cache)
  BY <1>1 DEF RequestTranslate
<1>3. r \in Requests
  <2>1. toServer[c] \in Seq(1..Len(req)) /\ Len(req) \in 0..MaxRequests
    BY BoundsAssumption DEF StoreInv, StoreType
  <2>2. r \in 1..Len(req)
    BY <1>1, <1>2, <2>1
  <2> QED BY <2>1, <2>2, BoundsAssumption DEF Requests
<1>4. CacheTyped'
  <2>1. CASE Insert(r)
    BY <1>3, <2>1, InsertBounded DEF RestTyped
  <2>2. CASE UNCHANGED cache
    BY <2>2 DEF RestTyped, CacheTyped
  <2> QED BY <1>2, <2>1, <2>2
<1>5. UNCHANGED <<ui, view, text, lang, timers, jobs, linked, gone, outages>>
  BY DEF RequestTranslate, client, store, observer
<1>6. cut' \in SUBSET Requests
  BY <1>1, <1>3 DEF RequestTranslate, RestTyped, OutagesTyped
<1> QED BY <1>4, <1>5, <1>6 DEF RestTyped, PageTyped, WordsTyped, TasksTyped, OutagesTyped

LEMMA ReplyTyped ==
    ASSUME StoreInv, CompleteInv, RestTyped, NEW m \in toHandler, GetNeonTranslations(m)
    PROVE  RestTyped'
<1>1. m.req \in Requests
  BY DEF StoreInv, StoreType, Reply
<1>2. /\ Touch(m.req) \/ UNCHANGED cache
      /\ SaveTranslations(m.req) \/ UNCHANGED store
      /\ UNCHANGED <<ui, view, timers, jobs, linked, cut, gone, outages>>
  BY DEF GetNeonTranslations, client, observer, outage
<1>3. CacheTyped'
  <2>1. CASE Touch(m.req)
    BY <1>1, <2>1, TouchBounded DEF RestTyped
  <2>2. CASE UNCHANGED cache
    BY <2>2 DEF RestTyped, CacheTyped
  <2> QED BY <1>2, <2>1, <2>2
<1>4. WordsTyped'
  <2>1. CASE UNCHANGED store
    BY <2>1 DEF RestTyped, WordsTyped, store
  <2>2. CASE SaveTranslations(m.req) /\ req[m.req].lang = "en"
    <3>1. /\ text' = [s \in Shouts |-> IF s \in missing[m.req] THEN "translator" ELSE text[s]]
          /\ lang' = [s \in Shouts |-> IF s \in missing[m.req] THEN "en" ELSE lang[s]]
      BY <2>2 DEF SaveTranslations
    <3>2. "translator" \in Writers \ {"nobody"}
      BY DEF Writers
    <3> QED BY <3>1, <3>2, LangsAssumption DEF RestTyped, WordsTyped
  <2>3. CASE SaveTranslations(m.req) /\ req[m.req].lang # "en"
    BY <2>3 DEF SaveTranslations, RestTyped, WordsTyped
  <2> QED BY <1>2, <2>1, <2>2, <2>3
<1> QED BY <1>2, <1>3, <1>4 DEF RestTyped, PageTyped, TasksTyped, OutagesTyped

LEMMA RestInvariant == Spec => []RestTyped
<1>1. Init => RestTyped
  <2> SUFFICES ASSUME Init PROVE RestTyped
    OBVIOUS
  <2>1. PageTyped
    BY LangsAssumption DEF Init, PageTyped
  <2>2. WordsTyped
    BY LangsAssumption DEF Init, WordsTyped, Writers
  <2>3. CacheTyped /\ TasksTyped /\ OutagesTyped
    BY BoundsAssumption DEF Init, CacheTyped, TasksTyped, OutagesTyped
  <2> QED BY <2>1, <2>2, <2>3 DEF RestTyped
<1>2. StoreInv /\ CompleteInv /\ RestTyped /\ [Next]_vars => RestTyped'
  <2> SUFFICES ASSUME StoreInv, CompleteInv, RestTyped, [Next]_vars PROVE RestTyped'
    OBVIOUS
  <2>1. ASSUME NEW c \in Clients, NEW k \in Chats, NEW l, MarkUpdating(c, k, l),
               UNCHANGED <<view, text, lang, cache, timers, jobs, outage>>
        PROVE  RestTyped'
    <3>1. PageTyped'
      BY <2>1, MarkTyped DEF RestTyped
    <3> QED BY <2>1, <3>1 DEF RestTyped, WordsTyped, CacheTyped, TasksTyped, OutagesTyped,
               outage
  <2>2. ASSUME NEW c \in Clients, NEW k \in Chats, NEW l \in Langs, ChangeLanguage(c, k, l)
        PROVE  RestTyped'
    BY <2>1, <2>2 DEF ChangeLanguage, store, server, observer
  <2>3. ASSUME NEW c \in Clients, NEW s \in LiveIds, NewMessage(c, s)
        PROVE  RestTyped'
    <3>1. PICK k \in Chats : k = ChatOf[s] /\ MarkUpdating(c, k, pref[c][k])
      BY <2>3, ChatsAssumption DEF NewMessage
    <3>2. UNCHANGED <<view, text, lang, cache, timers, jobs, outage>>
      BY <2>3 DEF NewMessage, store, server, observer
    <3> QED BY <2>1, <3>1, <3>2
  <2>4. CASE UNCHANGED <<ui, view, text, lang, cache, timers, jobs, outage>>
    BY <2>4 DEF RestTyped, PageTyped, WordsTyped, CacheTyped, TasksTyped, OutagesTyped, outage
  <2>5. ASSUME NEW c \in Clients, NewHiddenMessage(c)
        PROVE  RestTyped'
    BY <2>4, <2>5 DEF NewHiddenMessage, client, store, server, observer
  <2>6. ASSUME NEW r \in Requests,
               \/ RequestNeonTranslations(r)
               \/ OnNeonTranslationsResponse(r)
               \/ VoidCallback(r)
        PROVE  RestTyped'
    <3>1. UNCHANGED <<ui, view, text, lang, cache>>
      BY <2>6 DEF RequestNeonTranslations, OnNeonTranslationsResponse, VoidCallback,
         client, store, server
    <3>2. TasksTyped' /\ OutagesTyped'
      BY <2>6 DEF RequestNeonTranslations, OnNeonTranslationsResponse, VoidCallback,
         SendTranslationResponse, RestTyped, TasksTyped, OutagesTyped, outage
    <3> QED BY <3>1, <3>2 DEF RestTyped, PageTyped, WordsTyped, CacheTyped
  <2>7. CASE UNCHANGED vars
    BY <2>4, <2>7 DEF vars, client, store, server, observer
  <2> QED
    BY <2>2, <2>3, <2>5, <2>6, <2>7, ApplyTyped, RequestTyped, ReplyTyped, OutageTyped
       DEF Next, ClientNext, ServerNext, ObserverNext
<1> QED BY <1>1, <1>2, StoreInvariant, CompleteInvariant, PTL DEF Spec

(***************************************************************************)
(* TypeOK: among the rest, a queue never holds a request that was not      *)
(* made, and the cache never more than its maxsize.                        *)
(***************************************************************************)
THEOREM TypeCorrect == Spec => []TypeOK
<1>1. StoreInv /\ StageInv /\ CompleteInv /\ RestTyped => TypeOK
  <2> SUFFICES ASSUME StoreInv, StageInv, CompleteInv, RestTyped PROVE TypeOK
    OBVIOUS
  <2>1. toServer \in [Clients -> Seq(Requests)]
    <3>1. toServer \in [Clients -> Seq(1..Len(req))] /\ 1..Len(req) \subseteq Requests
      BY BoundsAssumption DEF StoreInv, StoreType, Requests
    <3> QED BY <3>1
  <2> QED
    BY <2>1 DEF TypeOK, StoreInv, StoreType, StageInv, CompleteInv, SplitInv, AnswerInv,
       RestTyped, PageTyped, WordsTyped, CacheTyped, TasksTyped, OutagesTyped
<1> QED BY <1>1, StoreInvariant, StageInvariant, CompleteInvariant, RestInvariant, PTL
=============================================================================
