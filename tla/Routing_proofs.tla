--------------------------- MODULE Routing_proofs ---------------------------
(***************************************************************************)
(* Proofs about Routing, for any messages, traffic, bots and instances of  *)
(* Neon: types, what the server stores of a dictionary that routing edits, *)
(* and which instance a search that nobody overlapped ends at.             *)
(***************************************************************************)
EXTENDS Routing, TLAPS

Requests == [msg : Messages, service : Services \cup {NoService},
             to : {"neon", "chatbots", "control", "error"}, names : SUBSET Bots]

(***************************************************************************)
(* The actions by what they do to a message.                               *)
(***************************************************************************)
Arrive(m) == NewMessage(m) \/ AudioRequest(m) \/ SubmindShout(m)
Pass(m) == \/ ForwardPromptData(m) \/ ForwardControl(m) \/ RejectBody(m)
           \/ FromService(m) \/ GetPrompt(m) \/ NeonResponse(m)
Route(m) == RouteToBots(m) \/ RouteToNeon(m)
Seek(m) == \/ Register(m) \/ LookUp(m) \/ Listen(m)
           \/ StopListening(m) \/ AskNeon(m)
Environment == \/ EndFlush \/ Disconnect \/ Connect \/ Reconnect \/ TimePasses
               \/ \E s \in Services : RestartNeon(s)
               \/ \E b \in Bots : LearnDefault(b)

LEMMA NextIs ==
    Next => \/ Environment \/ Announce
            \/ \E m \in Messages : \/ Arrive(m) \/ Pass(m) \/ Route(m) \/ Flush(m)
                                   \/ StartSearch(m) \/ Seek(m)
  BY DEF Next, Handle, Continue, Arrive, Pass, Route, Seek, Environment

\* How threads, texts and requests go.
LEMMA Moves ==
    ASSUME TypeOK, NEW m \in Messages
    PROVE  /\ Arrive(m) => pc[m] = "new" /\ Goto(m, "received") /\ UNCHANGED <<text, requests>>
           /\ Pass(m) => pc[m] = "new" /\ Goto(m, "done") /\ UNCHANGED text
           /\ Route(m) => pc[m] = "received" /\ Goto(m, "done")
           /\ Arrive(m) \/ Pass(m) \/ Route(m) => UNCHANGED <<search, shape>>
  BY DEF Arrive, Pass, Route, NewMessage, AudioRequest, SubmindShout, ForwardPromptData,
         ForwardControl, RejectBody, FromService, GetPrompt, NeonResponse, RouteToBots,
         RouteToNeon, world

-----------------------------------------------------------------------------
(***************************************************************************)
(* Types                                                                   *)
(***************************************************************************)
LEMMA ParticipantsAreBots ==
    ASSUME TypeOK, NEW m \in Messages
    PROVE  Participants(m) \subseteq Bots
<1>1. shape[m] \in Shapes
  BY TrafficAssumption DEF TypeOK
<1>2. shape[m].mentions \subseteq Bots
  BY <1>1 DEF Shapes
<1>3. CASE shape[m].prefix \in DOMAIN Helper
  <2>1. Helper[shape[m].prefix] \in Bots
    BY <1>3, TrafficAssumption
  <2> QED BY <1>3, <2>1 DEF Participants
<1>4. CASE shape[m].prefix \notin DOMAIN Helper
  BY <1>2, <1>4, TrafficAssumption DEF Participants
<1> QED BY <1>3, <1>4

\* What Send puts on the bus is of its message.
LEMMA SendOK ==
    ASSUME TypeOK, NEW m \in Messages, NEW to \in {"neon", "chatbots", "control", "error"},
           NEW names \in SUBSET Bots, NEW service \in Services \cup {NoService},
           Send(m, to, names, service)
    PROVE  requests' \subseteq Requests
  BY DEF TypeOK, Send, Requests

LEMMA EmitOK ==
    ASSUME TypeOK, NEW m \in Messages, Emit(m)
    PROVE  /\ stored' \in [Messages -> Texts \cup {"none", "refused"}]
           /\ waiting' \subseteq delayed' /\ delayed' \subseteq Messages
           /\ connected' \in BOOLEAN /\ dialing' \in BOOLEAN /\ flushing' \in BOOLEAN
<1>1. AsStored(text[m]) \in Texts \cup {"none", "refused"}
  BY DEF TypeOK, AsStored
<1> QED BY <1>1 DEF TypeOK, Emit, dial

LinkOK == /\ connected \in BOOLEAN /\ dialing \in BOOLEAN /\ flushing \in BOOLEAN
          /\ waiting \subseteq delayed /\ delayed \subseteq Messages
          /\ stored \in [Messages -> Texts \cup {"none", "refused"}]

LEMMA HandleTypes ==
    ASSUME TypeOK, NEW m \in Messages, Arrive(m) \/ Pass(m)
    PROVE  TypeOK'
<1>1. pc' \in [Messages -> Labels]
  BY Moves DEF TypeOK, Goto, Labels
<1>2. LinkOK'
  <2>1. UNCHANGED link \/ Emit(m)
    BY DEF Arrive, Pass, NewMessage, AudioRequest, SubmindShout, ForwardPromptData,
         ForwardControl, RejectBody, FromService, GetPrompt, NeonResponse
  <2> QED BY <2>1, EmitOK DEF TypeOK, LinkOK, link, dial
<1>3. requests' \subseteq Requests
  <2>1. \/ UNCHANGED requests
        \/ Send(m, "control", {}, NoService)
        \/ Send(m, "error", {}, NoService)
    BY DEF Arrive, Pass, NewMessage, AudioRequest, SubmindShout, ForwardPromptData,
         ForwardControl, RejectBody, FromService, GetPrompt, NeonResponse
  <2> QED BY <2>1, SendOK DEF TypeOK, Requests
<1>4. UNCHANGED <<text, defaults, search, idle, world>>
  BY DEF Arrive, Pass, NewMessage, AudioRequest, SubmindShout, ForwardPromptData,
         ForwardControl, RejectBody, FromService, GetPrompt, NeonResponse
<1> QED BY <1>1, <1>2, <1>3, <1>4 DEF TypeOK, LinkOK, Requests, search, consumers, world

(***************************************************************************)
(* Consumers.  There is one to look up and to start, and one that runs is  *)
(* held by a search, which joins it.                                       *)
(***************************************************************************)
ConsumersInv ==
    /\ \A m \in Messages : pc[m] = "registered" => registered \in Messages
    /\ \A m \in Messages : pc[m] \in {"looked", "searching"} => held[m] \in Messages
    /\ \A c \in listening : \E m \in Messages : pc[m] = "searching" /\ held[m] = c
    /\ Searchers # {} => installed \in Messages

\* A consumer that runs has an event to set.
HasEvent == listening # {} => installed \in Messages

LEMMA RunningHasEvent == ConsumersInv => HasEvent
  BY DEF ConsumersInv, HasEvent, Searchers

LEMMA ConsumersRest ==
    ASSUME TypeOK, ConsumersInv, NEW m, UNCHANGED <<consumers, installed>>,
           \/ UNCHANGED pc
           \/ /\ m \in Messages /\ pc[m] \in {"new", "received", "searched"}
              /\ \E l \in {"received", "done"} : pc' = [pc EXCEPT ![m] = l]
    PROVE  ConsumersInv'
  BY DEF TypeOK, ConsumersInv, consumers, Searchers

LEMMA SeekConsumers ==
    ASSUME TypeOK, ConsumersInv, NEW m \in Messages, StartSearch(m) \/ Seek(m)
    PROVE  ConsumersInv'
<1>1. CASE StartSearch(m)
  BY <1>1 DEF StartSearch, TypeOK, ConsumersInv, consumers, Searchers, Goto
<1>2. CASE Register(m)
  <2>1. /\ pc[m] = "installing" /\ pc'[m] = "registered"
        /\ \A n \in Messages \ {m} : pc'[n] = pc[n]
        /\ registered' = m /\ listening' \subseteq listening
        /\ UNCHANGED <<held, installed>>
    BY <1>2 DEF Register, Goto, TypeOK
  <2> QED BY <2>1 DEF ConsumersInv, Searchers
<1>3. CASE LookUp(m)
  <2>1. /\ pc[m] = "registered" /\ pc'[m] = "looked" /\ held'[m] = registered
        /\ \A n \in Messages \ {m} : pc'[n] = pc[n] /\ held'[n] = held[n]
        /\ UNCHANGED <<registered, listening, installed>>
    BY <1>3 DEF LookUp, Goto, TypeOK
  <2> QED BY <2>1 DEF ConsumersInv, Searchers
<1>4. CASE Listen(m)
  <2>1. /\ pc[m] = "looked" /\ pc'[m] \in {"lost", "searching"}
        /\ \A n \in Messages \ {m} : pc'[n] = pc[n]
        /\ listening' \subseteq listening \cup {held[m]}
        /\ held[m] \in listening' => held[m] \in listening \/ pc'[m] = "searching"
        /\ UNCHANGED <<registered, held, installed>>
    BY <1>4 DEF Listen, Goto, TypeOK
  <2> QED BY <2>1 DEF ConsumersInv, Searchers
<1>5. CASE StopListening(m)
  <2>1. /\ pc[m] = "searching" /\ pc'[m] = "searched"
        /\ \A n \in Messages \ {m} : pc'[n] = pc[n]
        /\ listening' = listening \ {held[m]}
        /\ UNCHANGED <<registered, held, installed>>
    BY <1>5 DEF StopListening, Goto, TypeOK
  <2> QED BY <2>1 DEF ConsumersInv, Searchers
<1>6. CASE AskNeon(m)
  <2>1. pc[m] = "searched" /\ pc' = [pc EXCEPT ![m] = "done"] /\ UNCHANGED search
    BY <1>6 DEF AskNeon, Goto
  <2> QED BY <2>1, ConsumersRest DEF search
<1> QED BY <1>1, <1>2, <1>3, <1>4, <1>5, <1>6 DEF Seek

LEMMA RouteTypes ==
    ASSUME TypeOK, ConsumersInv, NEW m \in Messages,
           Route(m) \/ StartSearch(m) \/ Seek(m)
    PROVE  TypeOK'
<1>1. pc' \in [Messages -> Labels]
  BY DEF TypeOK, Labels, Goto, Route, RouteToBots, RouteToNeon, StartSearch, Seek, Register, LookUp, Listen,
         StopListening, AskNeon
<1>2. text' \in [Messages -> Texts]
  <2>1. Preprocessed(m) \in Texts /\ "popped" \in Texts
    BY DEF Preprocessed, TypeOK, Texts
  <2> QED BY <2>1 DEF TypeOK, Route, RouteToBots, RouteToNeon, StartSearch, Seek, Register, LookUp,
             Listen, StopListening, AskNeon, Popped
<1>3. requests' \subseteq Requests
  <2>1. serviceId \in Services \cup {NoService} /\ Participants(m) \in SUBSET Bots
    BY ParticipantsAreBots DEF TypeOK
  <2>2. \/ UNCHANGED requests
        \/ Send(m, "chatbots", Participants(m), NoService)
        \/ Send(m, "neon", {}, serviceId)
        \/ Send(m, "neon", {}, NoService)
    BY DEF Route, RouteToBots, RouteToNeon, StartSearch, Seek, Register, LookUp, Listen,
         StopListening, AskNeon
  <2> QED BY <2>1, <2>2, SendOK DEF TypeOK, Requests
<1>4. UNCHANGED <<link, defaults, world>>
  BY DEF Route, RouteToBots, RouteToNeon, StartSearch, Seek, Register, LookUp, Listen,
         StopListening, AskNeon
<1>5. idle' \in BOOLEAN
  BY DEF TypeOK, Route, RouteToBots, RouteToNeon, StartSearch, Seek, Register, LookUp, Listen,
         StopListening, AskNeon
<1>6. /\ serviceId' \in Services \cup {NoService} /\ found' \subseteq Messages
      /\ installed' \in Messages \cup {NoMessage}
      /\ alone' \subseteq Messages /\ heard' \in [Messages -> SUBSET Services]
  BY DEF TypeOK, Route, RouteToBots, RouteToNeon, StartSearch, Seek, Register, LookUp, Listen,
         StopListening, AskNeon, search, Searchers
<1>7. /\ registered' \in Messages \cup {NoMessage}
      /\ held' \in [Messages -> Messages \cup {NoMessage}]
  BY DEF TypeOK, Route, RouteToBots, RouteToNeon, StartSearch, Seek, Register, LookUp, Listen,
         StopListening, AskNeon, search, consumers
<1>8. started' \subseteq Messages /\ listening' \subseteq Messages
  <2>1. pc[m] = "looked" => held[m] \in Messages
    BY DEF ConsumersInv
  <2> QED BY <2>1 DEF TypeOK, Route, RouteToBots, RouteToNeon, StartSearch, Seek, Register, LookUp,
             Listen, StopListening, AskNeon, search, consumers
<1> QED BY <1>1, <1>2, <1>3, <1>4, <1>5, <1>6, <1>7, <1>8 DEF TypeOK, Requests, link, dial, world

LEMMA OtherTypes ==
    ASSUME TypeOK, HasEvent, NEW m,
           (m \in Messages /\ Flush(m)) \/ Announce \/ Environment
    PROVE  TypeOK'
<1>1. CASE m \in Messages /\ Flush(m)
  <2>1. AsStored(text[m]) \in Texts \cup {"none", "refused"}
    BY <1>1 DEF TypeOK, AsStored
  <2> QED BY <1>1, <2>1 DEF TypeOK, Flush, search, consumers, dial, world
<1>2. CASE Announce
  BY <1>2 DEF TypeOK, HasEvent, Announce, link, dial, consumers, world
<1>3. CASE Disconnect \/ \E s \in Services : RestartNeon(s)
  <2>1. breaks' \in 0..MaxOutages /\ restarts' \in 0..MaxOutages
    BY <1>3, BoundAssumption DEF TypeOK, Disconnect, RestartNeon
  <2> QED BY <1>3, <2>1 DEF TypeOK, Disconnect, RestartNeon, search, consumers, world, link, dial
<1>4. CASE EndFlush \/ Connect \/ Reconnect \/ TimePasses \/ \E b \in Bots : LearnDefault(b)
  BY <1>4 DEF TypeOK, EndFlush, Connect, Reconnect, TimePasses, LearnDefault, search, consumers,
             world, link, dial
<1> QED BY <1>1, <1>2, <1>3, <1>4 DEF Environment

-----------------------------------------------------------------------------
(***************************************************************************)
(* Wording.  Until a message is routed its text is as it was said, only    *)
(* what users and bots say is routed, and only what bots say can be routed *)
(* while it waits.                                                         *)
(***************************************************************************)
Said(m) == /\ pc[m] = "new" => text[m] = "said"
           /\ shape[m].by \notin {"user", "audio", "bot"} =>
                 text[m] = "said" /\ pc[m] \in {"new", "done"}
           /\ shape[m].by \in {"user", "audio"} => m \notin waiting
           /\ stored[m] \in {"none", "said"} \/ (shape[m].by = "bot" /\ m \in delayed)

WordingInv == \A m \in Messages : Said(m)

\* A step of one message leaves the others as they are.
LEMMA Others ==
    ASSUME TypeOK, WordingInv, NEW m \in Messages,
           \A n \in Messages \ {m} :
              pc'[n] = pc[n] /\ text'[n] = text[n] /\ stored'[n] = stored[n],
           waiting' \subseteq waiting \cup {m}, delayed \subseteq delayed',
           shape' = shape, Said(m)'
    PROVE  WordingInv'
  BY DEF WordingInv, Said

LEMMA EmitSays ==
    ASSUME TypeOK, NEW m \in Messages, Emit(m), text[m] = "said", Said(m)
    PROVE  /\ stored'[m] \in {"none", "said"} \/ (shape[m].by = "bot" /\ m \in delayed')
           /\ waiting' \subseteq waiting \cup {m} /\ delayed \subseteq delayed'
           /\ \A n \in Messages \ {m} : stored'[n] = stored[n]
  BY DEF TypeOK, Emit, AsStored, Said

LEMMA HandleSays ==
    ASSUME TypeOK, WordingInv, NEW m \in Messages, Arrive(m) \/ Pass(m)
    PROVE  WordingInv'
<1>1. Said(m) /\ pc[m] = "new" /\ text[m] = "said"
  BY Moves DEF WordingInv, Said
<1>2. /\ \A n \in Messages \ {m} : pc'[n] = pc[n]
      /\ text' = text /\ shape' = shape
      /\ pc'[m] = IF Arrive(m) THEN "received" ELSE "done"
  BY Moves DEF TypeOK, Goto
<1>3. UNCHANGED link \/ (Emit(m) /\ shape[m].by \notin {"user", "audio"})
  BY DEF Arrive, Pass, NewMessage, AudioRequest, SubmindShout, ForwardPromptData,
         ForwardControl, RejectBody, FromService, GetPrompt, NeonResponse
<1>4. Arrive(m) => shape[m].by \in {"user", "audio", "bot"}
  BY DEF Arrive, NewMessage, AudioRequest, SubmindShout
<1>5. /\ stored'[m] \in {"none", "said"} \/ (shape[m].by = "bot" /\ m \in delayed')
      /\ waiting' \subseteq waiting \cup {m} /\ delayed \subseteq delayed'
      /\ \A n \in Messages \ {m} : stored'[n] = stored[n]
      /\ shape[m].by \in {"user", "audio"} => waiting' = waiting
  BY <1>1, <1>3, EmitSays DEF link, Said
<1>6. Said(m)'
  BY <1>1, <1>2, <1>4, <1>5 DEF Said
<1> QED BY <1>2, <1>5, <1>6, Others

LEMMA RouteSays ==
    ASSUME TypeOK, WordingInv, NEW m \in Messages,
           Route(m) \/ StartSearch(m) \/ Seek(m)
    PROVE  WordingInv'
<1>1. Said(m) /\ pc[m] \notin {"new", "done"}
  BY DEF WordingInv, Route, RouteToBots, RouteToNeon, StartSearch, Seek, Register, LookUp, Listen,
         StopListening, AskNeon
<1>2. /\ \A n \in Messages \ {m} : pc'[n] = pc[n] /\ text'[n] = text[n]
      /\ pc'[m] # "new" /\ UNCHANGED <<link, shape>>
  BY DEF TypeOK, Goto, Route, RouteToBots, RouteToNeon, StartSearch, Seek, Register, LookUp, Listen,
         StopListening, AskNeon,
         Popped, world
<1>3. Said(m)'
  BY <1>1, <1>2 DEF Said, link
<1> QED BY <1>2, <1>3, Others DEF link

LEMMA OtherSays ==
    ASSUME TypeOK, WordingInv, NEW m,
           (m \in Messages /\ Flush(m)) \/ Announce \/ Environment
    PROVE  WordingInv'
<1>1. CASE m \in Messages /\ Flush(m)
  <2>1. /\ m \in Messages /\ m \in waiting /\ m \in delayed /\ Said(m)
        /\ waiting' \subseteq waiting /\ stored' = [stored EXCEPT ![m] = AsStored(text[m])]
        /\ UNCHANGED <<pc, text, delayed, shape>>
    BY <1>1 DEF Flush, WordingInv, TypeOK, world
  <2>2. stored'[m] = AsStored(text[m]) /\ \A n \in Messages \ {m} : stored'[n] = stored[n]
    BY <2>1 DEF TypeOK
  <2>3. Said(m)'
    BY <2>1, <2>2 DEF Said, AsStored
  <2> QED BY <2>1, <2>2, <2>3, Others
<1>2. CASE Announce \/ Environment
  <2>1. UNCHANGED <<pc, text, waiting, stored, delayed, shape>>
    BY <1>2 DEF Announce, Environment, EndFlush, Disconnect, Connect, Reconnect, TimePasses,
         RestartNeon, LearnDefault, link, world
  <2> QED BY <2>1 DEF WordingInv, Said
<1> QED BY <1>1, <1>2

-----------------------------------------------------------------------------
(***************************************************************************)
(* The search.  What matters is that a search that nobody overlapped is    *)
(* the only one there is: then the event that is installed is its own, and *)
(* a consumer that runs is one it holds.                                   *)
(***************************************************************************)
Outcome(m) == IF heard[m] = {} THEN serviceId = NoService ELSE serviceId \in heard[m]

Stage(m) == /\ pc[m] \in {"installing", "registered", "looked"} =>
                  m \notin found /\ heard[m] = {}
            /\ pc[m] = "searching" => IF heard[m] = {} THEN m \notin found
                                      ELSE m \in found /\ serviceId \in heard[m]
            /\ pc[m] = "searched" => Outcome(m)

SearchInv ==
    /\ \A m \in Messages : pc[m] \in {"new", "received"} =>
          m \notin alone /\ heard[m] = {} /\ m \notin found /\ m # installed
    /\ \A m \in alone : Stage(m) /\ (m \in Searchers => installed = m /\ Searchers = {m})
    /\ installed = NoMessage => Searchers = {}

RequestsInv == \A r \in requests : r.to = "neon" =>
                  pc[r.msg] = "done" /\ (r.msg \in alone => IF heard[r.msg] = {} THEN r.service = NoService
                                                            ELSE r.service \in heard[r.msg])

LEMMA SearchMeans == RequestsInv => SearchDecides
  BY DEF RequestsInv, SearchDecides

\* Neither the search nor any searcher is touched.
LEMMA SearchRests ==
    ASSUME TypeOK, SearchInv, RequestsInv, NEW m \in Messages,
           UNCHANGED search,
           pc[m] \in {"new", "received"}, pc' = [pc EXCEPT ![m] = "received"] \/ pc' = [pc EXCEPT ![m] = "done"],
           \A r \in requests' : r \in requests \/ r.msg = m,
           pc'[m] = "received" => requests' = requests /\ pc[m] = "new"
    PROVE  SearchInv' /\ RequestsInv'
<1>1. /\ \A n \in Messages \ {m} : pc'[n] = pc[n]
      /\ pc'[m] \in {"received", "done"}
  BY DEF TypeOK
<1>2. Searchers' = Searchers /\ m \notin Searchers
  BY <1>1 DEF Searchers
<1>3. m \notin alone
  BY DEF SearchInv
<1>4. SearchInv'
  <2>1. \A n \in Messages : pc'[n] \in {"new", "received"} =>
          n \notin alone' /\ heard'[n] = {} /\ n \notin found' /\ n # installed'
    BY <1>1 DEF SearchInv, search
  <2>3. \A n \in alone' : Stage(n)' /\ (n \in Searchers' => installed' = n /\ Searchers' = {n})
    BY <1>1, <1>2, <1>3 DEF SearchInv, Stage, Outcome, search, TypeOK
  <2>4. installed' = NoMessage => Searchers' = {}
    BY <1>2 DEF SearchInv, search
  <2> QED BY <2>1, <2>3, <2>4 DEF SearchInv
<1>5. RequestsInv'
  <2>1. \A r \in requests : r.msg \in Messages
    BY DEF TypeOK
  <2> QED BY <1>1, <1>3, <2>1 DEF RequestsInv, search
<1> QED BY <1>4, <1>5

LEMMA HandleSearches ==
    ASSUME TypeOK, SearchInv, RequestsInv, NEW m \in Messages, Arrive(m) \/ Pass(m) \/ Route(m)
    PROVE  SearchInv' /\ RequestsInv'
<1>1. \A r \in requests' : r \in requests \/ r.msg = m
  <2>1. \A to, names, service :
          Send(m, to, names, service) => \A r \in requests' : r \in requests \/ r.msg = m
    BY DEF Send
  <2>2. \/ UNCHANGED requests
        \/ \E to, names, service : Send(m, to, names, service)
    BY DEF Arrive, Pass, Route, NewMessage, AudioRequest, SubmindShout, ForwardPromptData,
         ForwardControl, RejectBody, FromService, GetPrompt, NeonResponse, RouteToBots,
         RouteToNeon
  <2> QED BY <2>1, <2>2
<1>2. CASE Arrive(m)
  BY <1>1, <1>2, Moves, SearchRests DEF Goto
<1>3. CASE Pass(m) \/ Route(m)
  <2>1. pc[m] \in {"new", "received"} /\ pc' = [pc EXCEPT ![m] = "done"] /\ UNCHANGED search
    BY <1>3, Moves DEF Goto
  <2>2. pc'[m] = "done"
    BY <2>1 DEF TypeOK
  <2> QED BY <1>1, <2>1, <2>2, SearchRests
<1> QED BY <1>2, <1>3

LEMMA OtherSearches ==
    ASSUME TypeOK, SearchInv, RequestsInv, NEW m,
           (m \in Messages /\ Flush(m)) \/ Environment
    PROVE  SearchInv' /\ RequestsInv'
<1>1. UNCHANGED <<pc, requests, search>>
  BY DEF Flush, Environment, EndFlush, Disconnect, Connect, Reconnect, TimePasses, RestartNeon,
         LearnDefault
<1> QED BY <1>1 DEF SearchInv, RequestsInv, Stage, Outcome, Searchers, search

LEMMA StartSearches ==
    ASSUME TypeOK, SearchInv, RequestsInv, NEW m \in Messages, StartSearch(m)
    PROVE  SearchInv' /\ RequestsInv'
<1>1. /\ pc[m] = "received" /\ pc'[m] = "installing" /\ installed' = m
      /\ \A n \in Messages \ {m} : pc'[n] = pc[n]
      /\ UNCHANGED <<requests, serviceId, found, heard>>
      /\ alone' = IF Searchers = {} THEN alone \cup {m} ELSE alone \ Searchers
  BY DEF StartSearch, Goto, TypeOK
<1>2. Searchers' = Searchers \cup {m}
  BY <1>1 DEF Searchers
<1>3. m \notin alone /\ heard[m] = {} /\ m \notin found /\ m # installed /\ m # NoMessage
  BY <1>1, NoneAssumption DEF SearchInv
<1>5. SearchInv'
  <2>1. \A n \in Messages : pc'[n] \in {"new", "received"} =>
          n \notin alone' /\ heard'[n] = {} /\ n \notin found' /\ n # installed'
    BY <1>1, <1>2 DEF SearchInv
  <2>3. ASSUME NEW n \in alone'
        PROVE  Stage(n)' /\ (n \in Searchers' => installed' = n /\ Searchers' = {n})
    <3>1. CASE n = m
      <4>1. Searchers = {}
        BY <1>1, <1>3, <2>3, <3>1
      <4> QED BY <1>1, <1>2, <1>3, <3>1, <4>1 DEF Stage
    <3>2. CASE n # m
      <4>1. n \in alone /\ n \notin Searchers /\ n \in Messages
        BY <1>1, <2>3, <3>2 DEF TypeOK
      <4> QED BY <1>1, <1>2, <3>2, <4>1 DEF Stage, Outcome, Searchers
    <3> QED BY <3>1, <3>2
  <2>4. installed' # NoMessage
    BY <1>1, <1>3
  <2> QED BY <2>1, <2>3, <2>4 DEF SearchInv
<1>6. RequestsInv'
  <2>1. \A r \in requests : r.msg \in Messages
    BY DEF TypeOK
  <2> QED BY <1>1, <2>1 DEF RequestsInv
<1> QED BY <1>5, <1>6

LEMMA ListenSearches ==
    ASSUME TypeOK, SearchInv, RequestsInv, NEW m \in Messages,
           Register(m) \/ LookUp(m) \/ Listen(m)
    PROVE  SearchInv' /\ RequestsInv'
<1>1. /\ \/ pc[m] = "installing" /\ pc'[m] = "registered"
         \/ pc[m] = "registered" /\ pc'[m] = "looked"
         \/ pc[m] = "looked" /\ pc'[m] \in {"searching", "lost"}
      /\ \A n \in Messages \ {m} : pc'[n] = pc[n]
      /\ UNCHANGED <<requests, serviceId, installed, found, heard, alone>>
  BY DEF Register, LookUp, Listen, Goto, TypeOK
<1>2. /\ m \in Searchers
      /\ Searchers' = IF pc'[m] = "lost" THEN Searchers \ {m} ELSE Searchers
  BY <1>1 DEF Searchers
<1>3. SearchInv'
  <2>1. \A n \in Messages : pc'[n] \in {"new", "received"} =>
          n \notin alone' /\ heard'[n] = {} /\ n \notin found' /\ n # installed'
    BY <1>1 DEF SearchInv
  <2>2. ASSUME NEW n \in alone'
        PROVE  Stage(n)' /\ (n \in Searchers' => installed' = n /\ Searchers' = {n})
    <3>1. n \in alone /\ n \in Messages
      BY <1>1, <2>2 DEF TypeOK
    <3>2. Stage(n)'
      BY <1>1, <3>1 DEF SearchInv, Stage, Outcome
    <3> QED BY <1>1, <1>2, <3>1, <3>2 DEF SearchInv
  <2>3. installed' = NoMessage => Searchers' = {}
    BY <1>1, <1>2 DEF SearchInv
  <2> QED BY <2>1, <2>2, <2>3 DEF SearchInv
<1>4. RequestsInv'
  <2>1. \A r \in requests : r.msg \in Messages
    BY DEF TypeOK
  <2> QED BY <1>1, <2>1 DEF RequestsInv
<1> QED BY <1>3, <1>4

LEMMA AnnounceSearches ==
    ASSUME TypeOK, ConsumersInv, SearchInv, RequestsInv, Announce
    PROVE  SearchInv' /\ RequestsInv'
<1>1. /\ listening # {} /\ serviceId' = live /\ found' = found \cup {installed}
      /\ UNCHANGED <<pc, requests, installed, alone>>
  BY DEF Announce
<1>2. PICK w \in Messages : w \in Listeners
  BY <1>1 DEF ConsumersInv, Listeners
<1>3. /\ \A n \in Messages : heard'[n] = IF n \in Listeners THEN heard[n] \cup {live} ELSE heard[n]
      /\ \A n \in Listeners : pc[n] = "searching"
      /\ w \in Searchers /\ installed \in Messages
  BY <1>2 DEF Announce, Listeners, Searchers, ConsumersInv
<1>4. SearchInv'
  <2>1. \A n \in Messages : pc'[n] \in {"new", "received"} =>
          n \notin alone' /\ heard'[n] = {} /\ n \notin found' /\ n # installed'
    BY <1>1, <1>2, <1>3 DEF SearchInv
  <2>3. ASSUME NEW n \in alone'
        PROVE  Stage(n)' /\ (n \in Searchers' => installed' = n /\ Searchers' = {n})
    <3>1. n \in alone /\ n \in Messages /\ Searchers' = Searchers
      BY <1>1, <2>3 DEF TypeOK, Searchers
    <3>2. CASE n \in Searchers
      <4>1. installed = n /\ w = n
        BY <1>3, <3>1, <3>2 DEF SearchInv
      <4> QED BY <1>1, <1>2, <1>3, <3>1, <4>1 DEF SearchInv, Stage
    <3>3. CASE n \notin Searchers
      BY <1>1, <3>1, <3>3 DEF Stage, Searchers
    <3> QED BY <3>2, <3>3
  <2>4. installed' # NoMessage
    BY <1>1, <1>3, NoneAssumption
  <2> QED BY <2>1, <2>3, <2>4 DEF SearchInv
<1>5. RequestsInv'
  <2>1. \A r \in requests : r.msg \in Messages
    BY DEF TypeOK
  <2> QED BY <1>1, <1>2, <1>3, <2>1 DEF RequestsInv
<1> QED BY <1>4, <1>5

LEMMA StopSearches ==
    ASSUME TypeOK, SearchInv, RequestsInv, NEW m \in Messages, StopListening(m)
    PROVE  SearchInv' /\ RequestsInv'
<1>1. /\ pc[m] = "searching" /\ pc'[m] = "searched"
      /\ serviceId' = IF installed \in found THEN serviceId ELSE NoService
      /\ \A n \in Messages \ {m} : pc'[n] = pc[n]
      /\ UNCHANGED <<requests, installed, found, heard, alone>>
  BY DEF StopListening, Goto, TypeOK
<1>2. Searchers' = Searchers /\ m \in Searchers
  BY <1>1 DEF Searchers
<1>3. SearchInv'
  <2>1. \A n \in Messages : pc'[n] \in {"new", "received"} =>
          n \notin alone' /\ heard'[n] = {} /\ n \notin found' /\ n # installed'
    BY <1>1 DEF SearchInv
  <2>3. ASSUME NEW n \in alone'
        PROVE  Stage(n)' /\ (n \in Searchers' => installed' = n /\ Searchers' = {n})
    <3>1. n \in alone /\ n \in Messages
      BY <1>1, <2>3 DEF TypeOK
    <3>2. CASE n \in Searchers
      <4>1. installed = n /\ n = m
        BY <1>2, <3>1, <3>2 DEF SearchInv
      <4> QED BY <1>1, <1>2, <3>1, <4>1 DEF SearchInv, Stage, Outcome
    <3>3. CASE n \notin Searchers
      BY <1>1, <1>2, <3>1, <3>3 DEF Stage, Searchers
    <3> QED BY <3>2, <3>3
  <2>4. installed' = NoMessage => Searchers' = {}
    BY <1>1, <1>2 DEF SearchInv
  <2> QED BY <2>1, <2>3, <2>4 DEF SearchInv
<1>4. RequestsInv'
  <2>1. \A r \in requests : r.msg \in Messages
    BY DEF TypeOK
  <2> QED BY <1>1, <2>1 DEF RequestsInv
<1> QED BY <1>3, <1>4

LEMMA AskSearches ==
    ASSUME TypeOK, SearchInv, RequestsInv, NEW m \in Messages, AskNeon(m)
    PROVE  SearchInv' /\ RequestsInv'
<1>1. /\ pc[m] = "searched" /\ pc'[m] = "done"
      /\ requests' = requests \cup {[msg |-> m, to |-> "neon", names |-> {}, service |-> serviceId]}
      /\ \A n \in Messages \ {m} : pc'[n] = pc[n]
      /\ UNCHANGED search
  BY DEF AskNeon, Goto, Send, TypeOK
<1>2. Searchers' = Searchers \ {m} /\ m \in Searchers
  BY <1>1 DEF Searchers
<1>4. SearchInv'
  <2>1. \A n \in Messages : pc'[n] \in {"new", "received"} =>
          n \notin alone' /\ heard'[n] = {} /\ n \notin found' /\ n # installed'
    BY <1>1 DEF SearchInv, search
  <2>3. \A n \in alone' : Stage(n)' /\ (n \in Searchers' => installed' = n /\ Searchers' = {n})
    BY <1>1, <1>2 DEF SearchInv, Stage, Outcome, TypeOK, search
  <2>4. installed' = NoMessage => Searchers' = {}
    BY <1>1, <1>2 DEF SearchInv, search
  <2> QED BY <2>1, <2>3, <2>4 DEF SearchInv
<1>5. RequestsInv'
  <2>1. \A r \in requests : r.msg \in Messages
    BY DEF TypeOK
  <2>2. m \in alone => Outcome(m)
    BY <1>1 DEF SearchInv, Stage
  <2> QED BY <1>1, <2>1, <2>2 DEF RequestsInv, Outcome, search
<1> QED BY <1>4, <1>5

-----------------------------------------------------------------------------
(***************************************************************************)
(* The inductive invariant and the theorems                                *)
(***************************************************************************)
IInv == TypeOK /\ ConsumersInv /\ WordingInv /\ SearchInv /\ RequestsInv

LEMMA InvInit == Init => IInv
<1> SUFFICES ASSUME Init PROVE IInv
  OBVIOUS
<1>1. TypeOK
  <2>1. /\ pc \in [Messages -> Labels] /\ text \in [Messages -> Texts]
        /\ stored \in [Messages -> Texts \cup {"none", "refused"}]
    BY DEF Init, Texts, Labels
  <2>2. breaks \in 0..MaxOutages /\ restarts \in 0..MaxOutages
    BY BoundAssumption DEF Init
  <2> QED BY <2>1, <2>2 DEF Init, TypeOK
<1>2. WordingInv
  BY DEF Init, WordingInv, Said
<1>3. ConsumersInv
  BY DEF Init, ConsumersInv, Searchers
<1>4. SearchInv /\ RequestsInv
  BY NoneAssumption DEF Init, SearchInv, RequestsInv, Searchers
<1> QED BY <1>1, <1>2, <1>3, <1>4 DEF IInv

LEMMA InvStep == IInv /\ [Next]_vars => IInv'
<1> SUFFICES ASSUME IInv, [Next]_vars PROVE IInv'
  OBVIOUS
<1> USE DEF IInv
<1>0. HasEvent
  BY RunningHasEvent
<1>1. CASE \E m \in Messages : Arrive(m) \/ Pass(m)
  <2>1. ConsumersInv'
    BY <1>1, Moves, ConsumersRest DEF Goto, search
  <2> QED BY <1>1, <2>1, HandleTypes, HandleSays, HandleSearches
<1>2. CASE \E m \in Messages : Route(m)
  <2>1. ConsumersInv'
    BY <1>2, Moves, ConsumersRest DEF Goto, search
  <2> QED BY <1>2, <2>1, RouteTypes, RouteSays, HandleSearches
<1>3. CASE \E m \in Messages : StartSearch(m) \/ Seek(m)
  BY <1>3, RouteTypes, RouteSays, SeekConsumers, StartSearches, ListenSearches, StopSearches,
     AskSearches DEF Seek
<1>4. CASE Environment \/ \E m \in Messages : Flush(m)
  <2>1. UNCHANGED <<pc, consumers, installed>>
    BY <1>4 DEF Flush, Environment, EndFlush, Disconnect, Connect, Reconnect, TimePasses,
         RestartNeon, LearnDefault, search
  <2>2. ConsumersInv'
    BY <2>1, ConsumersRest
  <2> QED BY <1>0, <1>4, <2>2, OtherTypes, OtherSays, OtherSearches
<1>5. CASE Announce
  <2>1. ConsumersInv'
    BY <1>5, ConsumersRest DEF Announce
  <2> QED BY <1>0, <1>5, <2>1, OtherTypes, OtherSays, AnnounceSearches
<1>6. CASE UNCHANGED vars
  <2> USE <1>6 DEF vars, link, dial, search, consumers, world
  <2>1. TypeOK'
    BY DEF TypeOK
  <2>2. WordingInv'
    BY DEF WordingInv, Said
  <2>3. ConsumersInv' /\ SearchInv' /\ RequestsInv'
    BY DEF ConsumersInv, SearchInv, RequestsInv, Stage, Outcome, Searchers
  <2> QED BY <2>1, <2>2, <2>3
<1> QED BY <1>1, <1>2, <1>3, <1>4, <1>5, <1>6, NextIs

LEMMA Inductive == Spec => []IInv
  BY InvInit, InvStep, PTL DEF Spec

\* Every variable keeps its type; what waits for the link is counted as such.
THEOREM TypeCorrect == Spec => []TypeOK
<1>1. IInv => TypeOK
  BY DEF IInv
<1> QED BY <1>1, Inductive, PTL

\* For any traffic and any losses of the link: routing, which edits the same
\* dictionary, changes nothing of what the server stores, but of a bot's shout
\* that had to wait.
THEOREM WordsKept == Spec => []NoMisquote
<1>1. IInv => NoMisquote
  BY DEF IInv, WordingInv, Said, NoMisquote
<1> QED BY <1>1, Inductive, PTL

\* For any number of messages and instances of Neon: a search that no other
\* overlapped decides where its message goes.
THEOREM SearchRight == Spec => []SearchDecides
<1>1. IInv => SearchDecides
  BY SearchMeans DEF IInv
<1> QED BY <1>1, Inductive, PTL
=============================================================================
