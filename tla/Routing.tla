------------------------------ MODULE Routing ------------------------------
(***************************************************************************)
(* How the observer (services/klatchat_observer/controller.py) takes       *)
(* messages to the services on the message bus and what they say back to   *)
(* the chat server, and how it looks for the instance of Neon to ask.      *)
(*                                                                         *)
(* Every Socket.IO event and every bus consumer is a thread of its own.  A *)
(* message is one dictionary: its thread edits it while it looks for the   *)
(* recipient, and when the link to the server is down the very same        *)
(* dictionary waits in sio_queued_messages.  Only connect_sio empties that *)
(* queue, after a dial of its own (ObserverLink has its threads, timers    *)
(* and flags and the order of the queue).                                  *)
(***************************************************************************)
EXTENDS Naturals, FiniteSets

CONSTANTS Messages,      \* every body that arrives from the server or the bus
          Traffic,       \* subset of [Messages -> Shapes], what may arrive
          Question,      \* [Messages -> Messages], what an answer of Neon is to
          Bots,          \* names that a text may mention
          FullName,      \* [Bots -> Bots], id of a persona with its default_llm
          Services,      \* ids of instances of Neon
          NoService,     \* __neon_service_id = ""
          NoMessage,     \* neon_service_event is None
          NeonDetection, \* SCAN_NEON_SERVICE
          MaxOutages     \* bound on lost connections and restarts of Neon, together

\* The prefixes that call for one of the subminds, and the submind.
Helper == [prompt |-> "proctor", score |-> "scorekeeper", auto |-> "automator"]

\* by: "user" (new_message), "audio" (get_stt, get_tts), "data" (prompt_data),
\* "control" (bans, participants, prompts), "asker" (get_prompt), "bot" (submind_response), "neon"
\* (neon_chat_api_response), "service" (answers that are passed on as they are).
\* leading: the text has no mention in front, "some", or "only" mentions.
Shapes == [by : {"user", "audio", "data", "control", "asker", "bot", "neon", "service"},
           complete : BOOLEAN,
           prefix : DOMAIN Helper \cup {"neon", "none"},
           mentions : SUBSET Bots,
           leading : {"no", "some", "only"}]

ASSUME TrafficAssumption == /\ Traffic \subseteq [Messages -> Shapes]
                          /\ Question \in [Messages -> Messages]
                          /\ FullName \in [Bots -> Bots]
                          /\ {Helper[p] : p \in DOMAIN Helper} \subseteq Bots
ASSUME NoneAssumption == NoService \notin Services /\ NoMessage \notin Messages
ASSUME BoundAssumption == MaxOutages \in Nat /\ NeonDetection \in BOOLEAN

VARIABLES shape,      \* what arrives, fixed from the start
          pc,         \* the thread of each message
          text,       \* messageText of its dictionary
          requests,   \* what the observer has put on the bus
          connected,  \* the link to the chat server
          dialing,    \* a thread or a timer of connect_sio will dial
          flushing,   \* a flush loop of connect_sio runs
          waiting,    \* dictionaries in sio_queued_messages
          stored,     \* what the server has made of each user_message
          defaults,   \* personas in default_persona_llms
          serviceId,  \* __neon_service_id
          idle,       \* last_neon_request is 60 seconds ago
          installed,  \* whose event neon_service_event is
          found,      \* whose events are set
          registered, \* whose consumer consumers["neon_service_sync_consumer"] is
          held,       \* whose consumer a search has looked up
          started,    \* whose consumers have been started, which goes once
          listening,  \* whose consumers run
          live,       \* the instance of Neon that runs
          breaks,     \* lost connections
          restarts,   \* restarts of Neon
          delayed,    \* history: messages that have waited
          heard,      \* history: ids announced during the search of a message
          alone       \* history: messages whose search no other overlapped

dial      == <<connected, dialing, flushing>>
link      == <<dial, waiting, stored, delayed>>
consumers == <<registered, held, started, listening>>
search    == <<serviceId, installed, found, consumers, heard, alone>>
world     == <<live, breaks, restarts, shape>>
vars == <<pc, text, requests, link, defaults, search, idle, world>>

Texts == {"said", "stripped", "hello", "popped"}
Labels == {"new", "received", "installing", "registered", "looked", "searching",
           "searched", "done", "lost"}

TypeOK ==
    /\ shape \in Traffic
    /\ pc \in [Messages -> Labels]
    /\ text \in [Messages -> Texts]
    /\ requests \subseteq [msg : Messages, service : Services \cup {NoService},
                           to : {"neon", "chatbots", "control", "error"},
                           names : SUBSET Bots]
    /\ connected \in BOOLEAN /\ dialing \in BOOLEAN /\ flushing \in BOOLEAN
    /\ waiting \subseteq delayed /\ delayed \subseteq Messages
    /\ stored \in [Messages -> Texts \cup {"none", "refused"}]
    /\ defaults \subseteq Bots
    /\ serviceId \in Services \cup {NoService}
    /\ idle \in BOOLEAN
    /\ installed \in Messages \cup {NoMessage}
    /\ found \subseteq Messages /\ alone \subseteq Messages
    /\ registered \in Messages \cup {NoMessage}
    /\ held \in [Messages -> Messages \cup {NoMessage}]
    /\ started \subseteq Messages /\ listening \subseteq Messages
    /\ live \in Services /\ breaks \in 0..MaxOutages /\ restarts \in 0..MaxOutages
    /\ heard \in [Messages -> SUBSET Services]

Init ==
    /\ shape \in Traffic
    /\ pc = [m \in Messages |-> "new"]
    /\ text = [m \in Messages |-> "said"]
    /\ requests = {}
    /\ connected = TRUE /\ dialing = FALSE /\ flushing = FALSE
    /\ waiting = {} /\ delayed = {}
    /\ stored = [m \in Messages |-> "none"]
    /\ defaults = {}
    /\ serviceId = NoService
    /\ idle = TRUE
    /\ installed = NoMessage /\ found = {} /\ alone = {}
    /\ registered = NoMessage
    /\ held = [m \in Messages |-> NoMessage]
    /\ started = {} /\ listening = {}
    /\ live \in Services /\ breaks = 0 /\ restarts = 0
    /\ heard = [m \in Messages |-> {}]

Goto(m, label) == pc' = [pc EXCEPT ![m] = label]

Send(m, to, names, service) ==
    requests' = requests \cup {[msg |-> m, to |-> to, names |-> names,
                                service |-> service]}

-----------------------------------------------------------------------------
(***************************************************************************)
(* The link to the chat server                                             *)
(***************************************************************************)

\* user_message fails where messageText is missing.
AsStored(t) == IF t = "popped" THEN "refused" ELSE t

\* _sio_emit: a packet is written at once and no longer depends on the
\* dictionary; a thread that finds the link down leaves the dictionary itself in
\* the queue and dials, unless sio_connecting seems to be set.  The link may be
\* up again by then, and the dial be none.
Emit(m) ==
    \/ /\ connected
       /\ stored' = [stored EXCEPT ![m] = AsStored(text[m])]
       /\ UNCHANGED <<dial, waiting, delayed>>
    \/ /\ breaks > 0
       /\ waiting' = waiting \cup {m}
       /\ delayed' = delayed \cup {m}
       /\ dialing' \in IF connected THEN {dialing} ELSE {dialing, TRUE}
       /\ UNCHANGED <<connected, flushing, stored>>

\* The loop of connect_sio: an event that has waited is sent as its dictionary
\* is by now.  An event that finds the link down goes back and is dialled for.
Flush(m) ==
    /\ flushing /\ connected
    /\ m \in waiting
    /\ waiting' = waiting \ {m}
    /\ stored' = [stored EXCEPT ![m] = AsStored(text[m])]
    /\ UNCHANGED <<pc, text, requests, dial, delayed, defaults, search,
                   idle, world>>

\* Mutant: the loop sends one event.
EndFlushAfterOne ==
    /\ flushing /\ connected
    /\ delayed \ waiting # {}
    /\ flushing' = FALSE
    /\ UNCHANGED <<pc, text, requests, connected, dialing, waiting, stored,
                   delayed, defaults, search, idle, world>>

\* It ends at the sight of an empty queue: later events wait for the next dial.
EndFlush ==
    /\ flushing
    /\ waiting = {}
    /\ flushing' = FALSE
    /\ UNCHANGED <<pc, text, requests, connected, dialing, waiting, stored,
                   delayed, defaults, search, idle, world>>

\* The link breaks, or the observer itself closes it, as for a login.
Disconnect ==
    /\ connected
    /\ breaks + restarts < MaxOutages
    /\ connected' = FALSE
    /\ breaks' = breaks + 1
    /\ UNCHANGED <<pc, text, requests, dialing, flushing, waiting, stored,
                   delayed, defaults, search, idle, live, restarts, shape>>

\* A dial of connect_sio succeeds, by a thread that has an event, by the timer
\* after a failure or by a loop that runs; then its loop begins.
Connect ==
    /\ ~connected
    /\ dialing \/ flushing
    /\ connected' = TRUE /\ dialing' = FALSE /\ flushing' = TRUE
    /\ UNCHANGED <<pc, text, requests, waiting, stored, delayed, defaults,
                   search, idle, world>>

\* The client library redials, which starts no loop; a dial under way returns
\* without one, or with one if it fails for being late.
Reconnect ==
    /\ ~connected
    /\ connected' = TRUE /\ dialing' = FALSE
    /\ flushing' \in {flushing, flushing \/ dialing}
    /\ UNCHANGED <<pc, text, requests, waiting, stored, delayed, defaults,
                   search, idle, world>>

-----------------------------------------------------------------------------
(***************************************************************************)
(* What arrives                                                            *)
(***************************************************************************)

\* register_sio_handlers: new_message starts a thread.
NewMessage(m) ==
    /\ pc[m] = "new"
    /\ shape[m].by = "user"
    /\ Goto(m, "received")
    /\ UNCHANGED <<text, requests, link, defaults, search, idle, world>>

\* handle_get_stt and handle_get_tts name the recipient.
AudioRequest(m) ==
    /\ pc[m] = "new"
    /\ shape[m].by = "audio"
    /\ Goto(m, "received")
    /\ UNCHANGED <<text, requests, link, defaults, search, idle, world>>

\* forward_prompt_data drops data without a receiver.
ForwardPromptData(m) ==
    /\ pc[m] = "new"
    /\ shape[m].by = "data"
    /\ IF shape[m].complete THEN Send(m, "control", {}, NoService)
                            ELSE UNCHANGED requests
    /\ Goto(m, "done")
    /\ UNCHANGED <<text, link, defaults, search, idle, world>>

\* The handlers of bans, participants and prompts pass their data to the bus.
ForwardControl(m) ==
    /\ pc[m] = "new"
    /\ shape[m].by = "control"
    /\ Send(m, "control", {}, NoService)
    /\ Goto(m, "done")
    /\ UNCHANGED <<text, link, defaults, search, idle, world>>

\* A body without the required keys goes back to the bus as an error.
RejectBody(m) ==
    /\ pc[m] = "new"
    /\ shape[m].by \in {"bot", "service"}
    /\ ~shape[m].complete
    /\ Send(m, "error", {}, NoService)
    /\ Goto(m, "done")
    /\ UNCHANGED <<text, link, defaults, search, idle, world>>

\* Answers to requests for audio, prompts and states of subminds are passed on.
FromService(m) ==
    /\ pc[m] = "new"
    /\ shape[m].by = "service"
    /\ shape[m].complete
    /\ Emit(m)
    /\ Goto(m, "done")
    /\ UNCHANGED <<text, requests, defaults, search, idle, world>>

\* handle_get_prompt skips a request without a nick.
GetPrompt(m) ==
    /\ pc[m] = "new"
    /\ shape[m].by = "asker"
    /\ IF shape[m].complete THEN Emit(m) ELSE UNCHANGED link
    /\ Goto(m, "done")
    /\ UNCHANGED <<text, requests, defaults, search, idle, world>>

\* Mutant: the shout is routed before it is sent to the server.
SubmindShoutRoutedFirst(m) ==
    /\ pc[m] = "new"
    /\ shape[m].by = "bot" /\ shape[m].complete
    /\ connected
    /\ stored' = [stored EXCEPT ![m] =
                    IF shape[m].leading = "no" THEN "said" ELSE "stripped"]
    /\ Goto(m, "received")
    /\ UNCHANGED <<text, requests, dial, waiting, delayed, defaults, search,
                   idle, world>>

\* handle_submind_shout sends the shout to the server, then routes it.
SubmindShout(m) ==
    /\ pc[m] = "new"
    /\ shape[m].by = "bot"
    /\ shape[m].complete
    /\ Emit(m)
    /\ Goto(m, "received")
    /\ UNCHANGED <<text, requests, defaults, search, idle, world>>

\* handle_neon_response and handle_neon_error: Neon has read the queue of the
\* request.  An error or a response without sentences is only logged.
NeonResponse(m) ==
    /\ pc[m] = "new"
    /\ shape[m].by = "neon"
    /\ \E r \in requests : /\ r.msg = Question[m]
                           /\ r.to = "neon"
                           /\ r.service \in {live, NoService}
    /\ IF shape[m].complete THEN Emit(m) ELSE UNCHANGED link
    /\ Goto(m, "done")
    /\ UNCHANGED <<text, requests, defaults, search, idle, world>>

\* The personas are fetched: their default models are added, none is removed.
LearnDefault(b) ==
    /\ FullName[b] # b
    /\ b \notin defaults
    /\ defaults' = defaults \cup {b}
    /\ UNCHANGED <<pc, text, requests, link, search, idle, world>>

-----------------------------------------------------------------------------
(***************************************************************************)
(* handle_message                                                          *)
(***************************************************************************)

\* get_recipient_from_prefix; "undefined" is no more resolved than no prefix.
FromPrefix(m) == IF shape[m].prefix \in DOMAIN Helper THEN "chatbots"
                 ELSE IF shape[m].prefix = "neon" THEN "neon" ELSE "unresolved"

\* get_recipient_from_message
FromMessage(m) ==
    IF FromPrefix(m) = "unresolved" /\ shape[m].mentions # {} THEN "chatbots"
    ELSE FromPrefix(m)

\* _should_skip_recipient_detection leaves the recipient of requests for audio;
\* it asks for is_bot as well, which no body from the bus has.
Recipient(m) == IF shape[m].by = "audio" THEN "neon" ELSE FromMessage(m)

\* get_recipient_from_body, or the submind of the prefix.
Participants(m) ==
    IF shape[m].prefix \in DOMAIN Helper THEN {Helper[shape[m].prefix]}
    ELSE {IF b \in defaults THEN FullName[b] ELSE b : b \in shape[m].mentions}

\* _preprocess_message_data
Preprocessed(m) ==
    IF shape[m].by = "audio" \/ shape[m].leading = "no" THEN text[m]
    ELSE IF shape[m].leading = "some" THEN "stripped" ELSE "hello"

\* _handle_chatbot_recipient, or a message for nobody.
RouteToBots(m) ==
    /\ pc[m] = "received"
    /\ Recipient(m) # "neon"
    /\ text' = [text EXCEPT ![m] = Preprocessed(m)]
    /\ IF Recipient(m) = "chatbots"
       THEN Send(m, "chatbots", Participants(m), NoService)
       ELSE UNCHANGED requests
    /\ Goto(m, "done")
    /\ UNCHANGED <<link, defaults, search, idle, world>>

Popped(m) == IF shape[m].by = "audio" THEN text ELSE [text EXCEPT ![m] = "popped"]

\* neon_service_id
NeedsSearch == NeonDetection /\ (serviceId = NoService \/ idle)

\* _handle_neon_recipient takes messageText out of the dictionary.  The id of
\* the last search is used as it is ...
RouteToNeon(m) ==
    /\ pc[m] = "received"
    /\ Recipient(m) = "neon"
    /\ ~NeedsSearch
    /\ text' = Popped(m)
    /\ Send(m, "neon", {}, IF NeonDetection THEN serviceId ELSE NoService)
    /\ idle' = IF NeonDetection THEN FALSE ELSE idle
    /\ Goto(m, "done")
    /\ UNCHANGED <<link, defaults, search, world>>

Searchers == {m \in Messages : pc[m] \in {"installing", "registered", "looked",
                                          "searching", "searched"}}

\* ... or get_neon_service replaces the event ...
StartSearch(m) ==
    /\ pc[m] = "received"
    /\ Recipient(m) = "neon"
    /\ NeedsSearch
    /\ text' = Popped(m)
    /\ installed' = m
    /\ alone' = IF Searchers = {} THEN alone \cup {m} ELSE alone \ Searchers
    /\ Goto(m, "installing")
    /\ UNCHANGED <<requests, link, defaults, serviceId, found, consumers, heard,
                   idle, world>>

\* ... and the consumer: register_consumer stops the one of that name and
\* leaves a new one in its place ...
Register(m) ==
    /\ pc[m] = "installing"
    /\ registered' = m
    /\ listening' = listening \ {registered}
    /\ Goto(m, "registered")
    /\ UNCHANGED <<text, requests, link, defaults, serviceId, installed, found,
                   held, started, heard, alone, idle, world>>

\* ... which is looked up by the name, and may be another search's by now ...
LookUp(m) ==
    /\ pc[m] = "registered"
    /\ held' = [held EXCEPT ![m] = registered]
    /\ Goto(m, "looked")
    /\ UNCHANGED <<text, requests, link, defaults, serviceId, installed, found,
                   registered, started, listening, heard, alone, idle, world>>

\* ... and started.  A consumer is a thread, which starts once: the second
\* start raises, and the message is lost with the thread that handles it.
Listen(m) ==
    /\ pc[m] = "looked"
    /\ IF held[m] \in started
       THEN Goto(m, "lost") /\ UNCHANGED <<started, listening>>
       ELSE /\ Goto(m, "searching")
            /\ started' = started \cup {held[m]}
            /\ listening' = listening \cup {held[m]}
    /\ UNCHANGED <<text, requests, link, defaults, serviceId, installed, found,
                   registered, held, heard, alone, idle, world>>

\* The searches whose consumer runs.
Listeners == {m \in Messages : pc[m] = "searching" /\ held[m] \in listening}

\* handle_neon_sync, run by a consumer: the instance that runs announces
\* itself, which sets the event that is installed now.
Announce ==
    /\ listening # {}
    /\ serviceId' = live
    /\ found' = found \cup {installed}
    /\ heard' = [m \in Messages |-> IF m \in Listeners THEN heard[m] \cup {live}
                                    ELSE heard[m]]
    /\ UNCHANGED <<pc, text, requests, link, defaults, installed, consumers,
                   alone, idle, world>>

\* Mutant: a search without an answer leaves the id of the search before.
StopListeningKeeping(m) ==
    /\ pc[m] = "searching"
    /\ listening' = listening \ {held[m]}
    /\ Goto(m, "searched")
    /\ UNCHANGED <<text, requests, link, defaults, serviceId, installed, found,
                   registered, held, started, heard, alone, idle, world>>

\* Mutant: the search never ends without an answer.
StopListeningWhenFound(m) ==
    /\ pc[m] = "searching"
    /\ installed \in found
    /\ listening' = listening \ {held[m]}
    /\ Goto(m, "searched")
    /\ UNCHANGED <<text, requests, link, defaults, serviceId, installed, found,
                   registered, held, started, heard, alone, idle, world>>

\* The event is set or ten seconds are over; the consumer is joined, and the
\* id is cleared if the event that is installed by now is not set.
StopListening(m) ==
    /\ pc[m] = "searching"
    /\ listening' = listening \ {held[m]}
    /\ serviceId' = IF installed \in found THEN serviceId ELSE NoService
    /\ Goto(m, "searched")
    /\ UNCHANGED <<text, requests, link, defaults, installed, found, registered,
                   held, started, heard, alone, idle, world>>

\* The id as it is now names the queue; without one the common queue is used.
AskNeon(m) ==
    /\ pc[m] = "searched"
    /\ Send(m, "neon", {}, serviceId)
    /\ idle' = IF serviceId = NoService THEN idle ELSE FALSE
    /\ Goto(m, "done")
    /\ UNCHANGED <<text, link, defaults, search, world>>

TimePasses ==
    /\ ~idle
    /\ idle' = TRUE
    /\ UNCHANGED <<pc, text, requests, link, defaults, search, world>>

RestartNeon(s) ==
    /\ s # live
    /\ breaks + restarts < MaxOutages
    /\ live' = s
    /\ restarts' = restarts + 1
    /\ UNCHANGED <<pc, text, requests, link, defaults, search, idle, breaks, shape>>

\* The consumers and handlers the observer registers when it starts.
Handle(m) == \/ NewMessage(m) \/ AudioRequest(m) \/ GetPrompt(m) \/ ForwardPromptData(m)
             \/ ForwardControl(m) \/ RejectBody(m) \/ FromService(m)
             \/ SubmindShout(m) \/ NeonResponse(m)

Continue(m) == \/ RouteToBots(m) \/ RouteToNeon(m) \/ StartSearch(m) \/ Register(m)
               \/ LookUp(m) \/ Listen(m) \/ StopListening(m) \/ AskNeon(m)

Next == \/ \E m \in Messages : Handle(m) \/ Continue(m) \/ Flush(m)
        \/ EndFlush \/ Disconnect \/ Connect \/ Reconnect \/ Announce \/ TimePasses
        \/ \E s \in Services : RestartNeon(s)
        \/ \E b \in Bots : LearnDefault(b)

Spec == Init /\ [][Next]_vars

\* A thread that has started goes on, the wait for the event included, which
\* ends after ten seconds.  Where connect_sio dials, its timer repeats the dial
\* until it succeeds, and its loop goes on until the queue is empty.  Nothing
\* makes anybody dial, and an event that no loop comes to may wait for ever.
LiveSpec == /\ Spec
            /\ WF_vars(Connect)
            /\ \A m \in Messages : WF_vars(Continue(m)) /\ WF_vars(Flush(m))

-----------------------------------------------------------------------------
(***************************************************************************)
(* Properties                                                              *)
(***************************************************************************)

\* The server stores what a bot or Neon said, although routing the same
\* dictionary takes the mentions or the whole text away; only a shout of a bot
\* that has waited for the link may be stored in another wording or be refused.
NoMisquote ==
    \A m \in Messages :
        \/ stored[m] \in {"none", "said"}
        \/ shape[m].by = "bot" /\ m \in delayed

\* A search that no other search overlapped decides where its message goes: to
\* an instance that announced itself meanwhile, and to the common queue if
\* none did, never to the instance of an earlier search.
SearchDecides ==
    \A r \in requests :
        r.to = "neon" /\ r.msg \in alone =>
            IF heard[r.msg] = {} THEN r.service = NoService
                                 ELSE r.service \in heard[r.msg]

\* No thread stays in the search for Neon, whatever instances do: neither an
\* event that another search replaced nor a consumer that it stopped holds a
\* message back; and only where searches overlap may the message be lost.
SearchEnds ==
    \A m \in Messages :
        pc[m] = "received" ~> pc[m] = "done" \/ (pc[m] = "lost" /\ m \notin alone)

\* Every event that waits while a loop of connect_sio runs leaves the queue,
\* even if the link breaks meanwhile and the server will refuse what routing has
\* left of it.  An event that comes after the loop's last look has no promise.
QueueDrains == \A m \in Messages : flushing /\ m \in waiting ~> m \notin waiting

\* Neither the search nor a loop that has begun holds a message back for ever.
NothingStuck == SearchEnds /\ QueueDrains

\* What the comment in _should_skip_recipient_detection promises: a shout of a
\* bot is not taken for a request, which other bots would answer in turn.
NoRecursion == \A r \in requests : shape[r.msg].by = "bot" => r.to = "error"
=============================================================================
