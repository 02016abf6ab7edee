---------------------------- MODULE Translations ----------------------------
(***************************************************************************)
(* Translation of conversations, end to end: the chat client's language    *)
(* selector (chat_client/static/js/language_utils.js), the server's        *)
(* handlers request_translate and get_neon_translations with their LRU     *)
(* cache of open requests, the stored shouts, and the observer that asks   *)
(* the translation service over MQ and gives up after two minutes.         *)
(*                                                                         *)
(* A server handler runs without interruption up to its first await; the   *)
(* observer runs every event in a thread of its own, so its events are     *)
(* handled in any order.  What the server emits while no observer is       *)
(* connected is dropped, a connection may break with events on it, and the *)
(* server and the observer forget their requests when they restart.        *)
(***************************************************************************)
EXTENDS Naturals, Sequences, FiniteSets

CONSTANTS Clients,
          Chats,
          Shouts,        \* messages stored in the database
          LiveIds,       \* messages displayed under an id only clients know
          ChatOf,        \* [Shouts \cup LiveIds -> Chats]
          Origin,        \* [Shouts -> Langs], the language of the author
          Langs,
          Displayed,     \* [Clients -> SUBSET Chats], chats on the page
          MaxRequests,   \* bound on translation requests
          CacheSize,     \* maxsize of the LRU cache
          MaxOutages     \* bound on broken connections and restarts

ASSUME LangsAssumption == /\ "en" \in Langs
                          /\ Origin \in [Shouts -> Langs]
ASSUME ChatsAssumption == /\ ChatOf \in [Shouts \cup LiveIds -> Chats]
                          /\ Shouts \cap LiveIds = {}
                          /\ Displayed \in [Clients -> SUBSET Chats]
ASSUME BoundsAssumption == /\ MaxRequests \in Nat /\ CacheSize \in Nat \ {0}
                           /\ MaxOutages \in Nat

Requests == 1..MaxRequests

VARIABLES pref,       \* client: preferred language per chat
          ui,         \* client: state of each displayed chat
          view,       \* client: language each message is displayed in
          req,        \* requests made so far, oldest first
          toServer,   \* request_translate events, in order for each client
          toClient,   \* translation_response events, in order for each client
          text,       \* database: who wrote message_text
          lang,       \* database: message_lang
          trans,      \* database: who wrote translations[lang], if anyone
          populated,  \* what the database had for a request
          missing,    \* what the translation service is asked for
          cache,      \* server: open requests, least recently used first
          toObserver, \* request_neon_translations events
          open,       \* observer: __translation_requests
          timers,     \* observer: void_callback_timer running
          jobs,       \* requests at the translation service
          toHandler,  \* get_neon_translations events
          answers,    \* translation_response events emitted per request
          linked,     \* the observer is connected to the server
          cut,        \* history: requests an outage came across between the
                      \* server and the translation service
          gone,       \* requests made by a session that has ended since
          outages

client   == <<pref, ui, view>>
store    == <<text, lang, trans>>
server   == <<populated, missing, cache, answers>>
observer == <<open, timers, jobs>>
outage   == <<linked, cut, gone, outages>>
vars == <<client, req, toServer, toClient, store, server, toObserver,
          observer, toHandler, outage>>

Writers == {"nobody", "author", "translator"}
Ids == Shouts \cup LiveIds
IdsOf(k) == {s \in Ids : ChatOf[s] = k}

Request == [client : Clients, lang : Langs, chats : SUBSET Chats,
            want : SUBSET Ids]
Response == [req : Requests, shouts : SUBSET Shouts, full : BOOLEAN]
Reply == [req : Requests, full : BOOLEAN]

TypeOK ==
    /\ pref \in [Clients -> [Chats -> Langs]]
    /\ ui \in [Clients -> [Chats -> {"active", "updating"}]]
    /\ view \in [Clients -> [Ids -> Langs]]
    /\ req \in Seq(Request) /\ Len(req) <= MaxRequests
    /\ toServer \in [Clients -> Seq(Requests)]
    /\ toClient \in [Clients -> Seq(Response)]
    /\ text \in [Shouts -> Writers \ {"nobody"}]
    /\ lang \in [Shouts -> Langs]
    /\ trans \in [Shouts -> [Langs -> Writers]]
    /\ populated \in [Requests -> SUBSET Shouts]
    /\ missing \in [Requests -> SUBSET Shouts]
    /\ cache \in Seq(Requests) /\ Len(cache) <= CacheSize
    /\ toObserver \in SUBSET Requests
    /\ open \in SUBSET Requests
    /\ timers \in SUBSET Requests
    /\ jobs \in SUBSET Requests
    /\ toHandler \in SUBSET Reply
    /\ answers \in [Requests -> Nat]
    /\ linked \in BOOLEAN /\ cut \in SUBSET Requests /\ gone \in SUBSET Requests
    /\ outages \in 0..MaxOutages

\* user_message stores a foreign message as message_text and under its own
\* language in translations; an English one has no translations.
Init ==
    /\ pref = [c \in Clients |-> [k \in Chats |-> "en"]]
    /\ ui = [c \in Clients |-> [k \in Chats |-> "active"]]
    /\ view = [c \in Clients |-> [s \in Ids |->
                  IF s \in Shouts THEN Origin[s] ELSE "en"]]
    /\ req = <<>>
    /\ toServer = [c \in Clients |-> <<>>]
    /\ toClient = [c \in Clients |-> <<>>]
    /\ text = [s \in Shouts |-> "author"]
    /\ lang = Origin
    /\ trans = [s \in Shouts |-> [l \in Langs |->
                   IF l = Origin[s] /\ l # "en" THEN "author" ELSE "nobody"]]
    /\ populated = [r \in Requests |-> {}]
    /\ missing = [r \in Requests |-> {}]
    /\ cache = <<>>
    /\ toObserver = {}
    /\ open = {}
    /\ timers = {}
    /\ jobs = {}
    /\ toHandler = {}
    /\ answers = [r \in Requests |-> 0]
    /\ linked = TRUE /\ cut = {} /\ gone = {} /\ outages = 0

-----------------------------------------------------------------------------
(***************************************************************************)
(* The client                                                              *)
(***************************************************************************)
Emit(c, l, chats, want) ==
    /\ Len(req) < MaxRequests
    /\ req' = Append(req, [client |-> c, lang |-> l, chats |-> chats,
                           want |-> want])
    /\ toServer' = [toServer EXCEPT ![c] = Append(@, Len(req) + 1)]

\* setChatState(cid, 'updating', 'Applying New Language...')
MarkUpdating(c, k, l) ==
    ui' = IF l # "en" /\ IdsOf(k) # {}
          THEN [ui EXCEPT ![c][k] = "updating"] ELSE ui

\* setPreferredLanguage, once the preference is stored: every message of the
\* chat is requested in the new language.
ChangeLanguage(c, k, l) ==
    /\ k \in Displayed[c]
    /\ l # pref[c][k]
    /\ pref' = [pref EXCEPT ![c][k] = l]
    /\ MarkUpdating(c, k, l)
    /\ Emit(c, l, {k}, IdsOf(k))
    /\ UNCHANGED <<view, toClient, store, server, toObserver, observer,
                   toHandler, outage>>

\* socket.on('new_message'): a message that is not in the preferred language
\* is requested by the id the sender's client chose.
NewMessage(c, s) ==
    /\ s \in LiveIds
    /\ ChatOf[s] \in Displayed[c]
    /\ LET k == ChatOf[s]
       IN /\ pref[c][k] # "en"
          /\ MarkUpdating(c, k, pref[c][k])
          /\ Emit(c, pref[c][k], {k}, {s})
    /\ UNCHANGED <<pref, view, toClient, store, server, toObserver, observer,
                   toHandler, outage>>

\* The same for a chat that is not displayed: requestTranslation falls back to
\* the whole language mapping, which names neither shouts nor a language.
NewHiddenMessage(c) ==
    /\ Displayed[c] # Chats
    /\ Emit(c, "en", Chats, {})
    /\ UNCHANGED <<client, toClient, store, server, toObserver, observer,
                   toHandler, outage>>

\* Mutant: the spinner is left to the next new_message.
ApplyWithoutState(c) ==
    /\ toClient[c] # <<>>
    /\ LET m == Head(toClient[c])
           shown == {s \in m.shouts : ChatOf[s] \in Displayed[c]}
       IN view' = [view EXCEPT ![c] = [s \in Ids |->
                      IF s \in shown THEN req[m.req].lang ELSE @[s]]]
    /\ toClient' = [toClient EXCEPT ![c] = Tail(@)]
    /\ UNCHANGED <<pref, ui, req, toServer, store, server, toObserver,
                   observer, toHandler, outage>>

\* applyTranslations
ApplyTranslations(c) ==
    /\ toClient[c] # <<>>
    /\ LET m == Head(toClient[c])
           l == req[m.req].lang
           shown == {s \in m.shouts : ChatOf[s] \in Displayed[c]}
       IN /\ ui' = [ui EXCEPT ![c] = [k \in Chats |->
                       IF \E s \in shown : ChatOf[s] = k
                       THEN "active" ELSE @[k]]]
          /\ view' = [view EXCEPT ![c] = [s \in Ids |->
                         IF s \in shown THEN l ELSE @[s]]]
    /\ toClient' = [toClient EXCEPT ![c] = Tail(@)]
    /\ UNCHANGED <<pref, req, toServer, store, server, toObserver, observer,
                   toHandler, outage>>

-----------------------------------------------------------------------------
(***************************************************************************)
(* The server                                                              *)
(***************************************************************************)

\* fetch_shout_data: an empty list of ids means all shouts of the chat.
Found(r) == {s \in Shouts : /\ ChatOf[s] \in req[r].chats
                            /\ req[r].want = {} \/ s \in req[r].want}

\* get_translations: what the database can answer.  English is never answered
\* from the database, since it is no key of translations.
InStore(r) == {s \in Found(r) : /\ req[r].lang # "en"
                                /\ trans[s][req[r].lang] # "nobody"}

\* Mutant: the cache grows without limit.
InsertUnbounded(r) == cache' = Append(cache, r)

\* LRUCache.__setitem__ and get
Insert(r) == cache' = LET q == Append(cache, r)
                      IN  IF Len(q) > CacheSize THEN Tail(q) ELSE q
Touch(r) == \E i \in 1..Len(cache) :
               /\ cache[i] = r
               /\ cache' = Append(SubSeq(cache, 1, i - 1)
                                  \o SubSeq(cache, i + 1, Len(cache)), r)
Cached(r) == \E i \in 1..Len(cache) : cache[i] = r

\* What is emitted to a session that has ended reaches nobody.
Respond(r, shouts, full) ==
    /\ toClient' = IF r \in gone THEN toClient
                   ELSE [toClient EXCEPT ![req[r].client] =
                            Append(@, [req |-> r, shouts |-> shouts,
                                       full |-> full])]
    /\ answers' = [answers EXCEPT ![r] = @ + 1]

\* request_translate.  Nobody learns that no observer got the request.
RequestTranslate(c) ==
    /\ toServer[c] # <<>>
    /\ toServer' = [toServer EXCEPT ![c] = Tail(@)]
    /\ LET r == Head(toServer[c])
       IN /\ populated' = [populated EXCEPT ![r] = InStore(r)]
          /\ missing' = [missing EXCEPT ![r] = Found(r) \ InStore(r)]
          /\ \/ /\ InStore(r) # {} /\ Found(r) \subseteq InStore(r)
                /\ Respond(r, InStore(r), TRUE)
                /\ UNCHANGED <<cache, toObserver, cut>>
             \/ /\ InStore(r) = {} \/ ~(Found(r) \subseteq InStore(r))
                /\ Insert(r)
                /\ IF linked
                   THEN toObserver' = toObserver \cup {r} /\ UNCHANGED cut
                   ELSE cut' = cut \cup {r} /\ UNCHANGED toObserver
                /\ UNCHANGED <<toClient, answers>>
    /\ UNCHANGED <<client, req, store, observer, toHandler, linked, gone,
                   outages>>

\* Mutant: the dictionary of translations is always emptied first.
SaveResetsTranslations(r) ==
    LET l == req[r].lang
    IN  IF l = "en"
        THEN /\ text' = [s \in Shouts |-> IF s \in missing[r]
                                          THEN "translator" ELSE text[s]]
             /\ lang' = [s \in Shouts |-> IF s \in missing[r]
                                          THEN "en" ELSE lang[s]]
             /\ trans' = [s \in Shouts |-> IF s \in missing[r]
                                           THEN [x \in Langs |-> "nobody"]
                                           ELSE trans[s]]
        ELSE /\ trans' = [s \in Shouts |->
                            IF s \in missing[r]
                            THEN [x \in Langs |-> IF x = l THEN "translator"
                                                  ELSE "nobody"]
                            ELSE trans[s]]
             /\ UNCHANGED <<text, lang>>

\* save_translations
SaveTranslations(r) ==
    LET l == req[r].lang
    IN  IF l = "en"
        THEN /\ text' = [s \in Shouts |-> IF s \in missing[r]
                                          THEN "translator" ELSE text[s]]
             /\ lang' = [s \in Shouts |-> IF s \in missing[r]
                                          THEN "en" ELSE lang[s]]
             /\ UNCHANGED trans
        ELSE /\ trans' = [s \in Shouts |->
                            IF s \in missing[r]
                            THEN [trans[s] EXCEPT ![l] = "translator"]
                            ELSE trans[s]]
             /\ UNCHANGED <<text, lang>>

\* A reply that an outage came across is in the observer's queue, which may be
\* flushed once the observer is connected again.
Arrives(m) == m \in toHandler /\ (m.req \in cut => linked)

\* Mutant: the reply is not merged with what the database had.
GetNeonTranslationsUnmerged(m) ==
    /\ Arrives(m)
    /\ toHandler' = toHandler \ {m}
    /\ \/ /\ ~Cached(m.req)
          /\ UNCHANGED <<toClient, answers, cache, store>>
       \/ /\ Cached(m.req)
          /\ Touch(m.req)
          /\ IF m.full
             THEN /\ SaveTranslations(m.req)
                  /\ Respond(m.req, missing[m.req], TRUE)
             ELSE /\ UNCHANGED store
                  /\ Respond(m.req, {}, FALSE)
    /\ UNCHANGED <<client, req, toServer, populated, missing, toObserver,
                   observer, outage>>

\* Mutant: an empty reply is ignored.
GetIgnoringEmpty(m) ==
    /\ Arrives(m)
    /\ toHandler' = toHandler \ {m}
    /\ \/ /\ ~Cached(m.req) \/ ~m.full
          /\ UNCHANGED <<toClient, answers, cache, store>>
       \/ /\ Cached(m.req) /\ m.full
          /\ Touch(m.req)
          /\ SaveTranslations(m.req)
          /\ Respond(m.req, missing[m.req] \cup populated[m.req], TRUE)
    /\ UNCHANGED <<client, req, toServer, populated, missing, toObserver,
                   observer, outage>>

\* get_neon_translations: a reply to a request that has left the cache is
\* dropped; an empty reply (full = FALSE) leaves what the database had.
GetNeonTranslations(m) ==
    /\ Arrives(m)
    /\ toHandler' = toHandler \ {m}
    /\ \/ /\ ~Cached(m.req)
          /\ UNCHANGED <<toClient, answers, cache, store>>
       \/ /\ Cached(m.req)
          /\ Touch(m.req)
          /\ IF m.full
             THEN /\ SaveTranslations(m.req)
                  /\ Respond(m.req, missing[m.req] \cup populated[m.req], TRUE)
             ELSE /\ UNCHANGED store
                  /\ Respond(m.req, populated[m.req], FALSE)
    /\ UNCHANGED <<client, req, toServer, populated, missing, toObserver,
                   observer, outage>>

-----------------------------------------------------------------------------
(***************************************************************************)
(* The observer and the translation service                                *)
(***************************************************************************)

\* request_neon_translations
RequestNeonTranslations(r) ==
    /\ r \in toObserver
    /\ toObserver' = toObserver \ {r}
    /\ open' = open \cup {r}
    /\ timers' = timers \cup {r}
    /\ jobs' = jobs \cup {r}
    /\ UNCHANGED <<client, req, toServer, toClient, store, server, toHandler,
                   outage>>

\* Mutant: nobody checks whether the request is still open.
SendUnchecked(r, full) ==
    /\ open' = open \ {r}
    /\ toHandler' = toHandler \cup {[req |-> r, full |-> full]}
    /\ cut' = IF linked THEN cut ELSE cut \cup {r}

\* send_translation_response: the first caller takes the request.  A reply that
\* _sio_emit cannot send is queued.
SendTranslationResponse(r, full) ==
    /\ open' = open \ {r}
    /\ toHandler' = IF r \in open
                    THEN toHandler \cup {[req |-> r, full |-> full]}
                    ELSE toHandler
    /\ cut' = IF r \in open /\ ~linked THEN cut \cup {r} ELSE cut

\* The service answers: on_neon_translations_response.
OnNeonTranslationsResponse(r) ==
    /\ r \in jobs
    /\ jobs' = jobs \ {r}
    /\ SendTranslationResponse(r, TRUE)
    /\ UNCHANGED <<client, req, toServer, toClient, store, server, toObserver,
                   timers, linked, gone, outages>>

\* Two minutes have passed: the timer sends the void callback.
VoidCallback(r) ==
    /\ r \in timers
    /\ timers' = timers \ {r}
    /\ SendTranslationResponse(r, FALSE)
    /\ UNCHANGED <<client, req, toServer, toClient, store, server, toObserver,
                   jobs, linked, gone, outages>>

-----------------------------------------------------------------------------
(***************************************************************************)
(* Connections that break and processes that restart.  An event that was   *)
(* on its way arrived before, or is lost; who emitted it is not told.      *)
(***************************************************************************)
Fails == outages < MaxOutages /\ outages' = outages + 1

\* The observer's connection breaks, also by its own login, after which nobody
\* may dial again.
Disconnect ==
    /\ Fails
    /\ linked
    /\ linked' = FALSE
    /\ \E lost \in SUBSET toObserver, unsent \in SUBSET toHandler :
          /\ toObserver' = toObserver \ lost
          /\ toHandler' = toHandler \ unsent
          /\ cut' = cut \cup lost \cup {m.req : m \in unsent}
    /\ UNCHANGED <<client, req, toServer, toClient, store, server, observer, gone>>

Connect ==
    /\ ~linked
    /\ linked' = TRUE
    /\ UNCHANGED <<client, req, toServer, toClient, store, server, toObserver,
                   observer, toHandler, cut, gone, outages>>

\* The observer restarts: its table, its timers and its queue are gone.
RestartObserver ==
    /\ Fails
    /\ linked' = FALSE
    /\ open' = {} /\ timers' = {}
    /\ toObserver' = {} /\ toHandler' = {}
    /\ cut' = cut \cup open \cup toObserver \cup {m.req : m \in toHandler}
    /\ UNCHANGED <<client, req, toServer, toClient, store, server, jobs, gone>>

\* A browser connects again, under another session id: its requests are
\* answered to the old one.
Resume(c) ==
    /\ Fails
    /\ toServer' = [toServer EXCEPT ![c] = <<>>]
    /\ toClient' = [toClient EXCEPT ![c] = <<>>]
    /\ gone' = gone \cup {r \in 1..Len(req) : req[r].client = c}
    /\ UNCHANGED <<client, req, store, server, toObserver, observer, toHandler,
                   linked, cut>>

\* The server restarts without its cache, so that it would drop every reply,
\* and everybody has to connect again.
RestartServer ==
    /\ Fails
    /\ linked' = FALSE
    /\ cache' = <<>>
    /\ toServer' = [c \in Clients |-> <<>>]
    /\ toClient' = [c \in Clients |-> <<>>]
    /\ toObserver' = {} /\ toHandler' = {}
    /\ cut' = cut \cup 1..Len(req)
    /\ gone' = 1..Len(req)
    /\ UNCHANGED <<client, req, store, populated, missing, answers, observer>>

-----------------------------------------------------------------------------
ClientNext == \E c \in Clients :
                 \/ \E k \in Chats, l \in Langs : ChangeLanguage(c, k, l)
                 \/ \E s \in LiveIds : NewMessage(c, s)
                 \/ NewHiddenMessage(c)
                 \/ ApplyTranslations(c)

ServerNext == \/ \E c \in Clients : RequestTranslate(c)
              \/ \E m \in toHandler : GetNeonTranslations(m)

ObserverNext == \E r \in Requests : \/ RequestNeonTranslations(r)
                                    \/ OnNeonTranslationsResponse(r)
                                    \/ VoidCallback(r)

OutageNext == \/ Disconnect \/ Connect \/ RestartObserver \/ RestartServer
              \/ \E c \in Clients : Resume(c)

Next == ClientNext \/ ServerNext \/ ObserverNext \/ OutageNext

Spec == Init /\ [][Next]_vars

(***************************************************************************)
(* Events that arrive are handled and timers expire.  The translation      *)
(* service need not answer, the observer need not connect again, and what  *)
(* an outage has left in its queue need not be flushed.                    *)
(***************************************************************************)
Fairness ==
    /\ \A c \in Clients : /\ WF_vars(ApplyTranslations(c))
                          /\ WF_vars(RequestTranslate(c))
    /\ WF_vars(\E m \in toHandler : m.req \notin cut /\ GetNeonTranslations(m))
    /\ \A r \in Requests : /\ WF_vars(RequestNeonTranslations(r))
                           /\ WF_vars(VoidCallback(r))

FairSpec == Spec /\ Fairness
-----------------------------------------------------------------------------
(***************************************************************************)
(* The void callback, a late answer of the translation service and the     *)
(* cache race for the same request: the client is answered at most once.   *)
(***************************************************************************)
AnsweredOnce == \A r \in Requests : answers[r] <= 1

(***************************************************************************)
(* The wording of an author who does not write English survives every      *)
(* translation: save_translations replaces message_text by the English     *)
(* text only while translations still has the original.                    *)
(***************************************************************************)
ForeignWordingKept ==
    \A s \in Shouts : Origin[s] # "en" =>
                      \/ text[s] = "author"
                      \/ trans[s][Origin[s]] = "author"

(***************************************************************************)
(* A reply merged with what the database had covers all messages of the    *)
(* request that the database knows, whatever was translated meanwhile, so  *)
(* that no message of the chat is left in the old language.                *)
(***************************************************************************)
FullAnswersComplete ==
    \A c \in Clients : \A i \in 1..Len(toClient[c]) :
        LET m == toClient[c][i]
        IN  m.full => m.shouts = Found(m.req)

(***************************************************************************)
(* Seen from a client that makes requests, the server, the cache, the      *)
(* observer and its timer together are a RequestReply service.             *)
(***************************************************************************)
Rpc == INSTANCE RequestReply WITH asked <- 1..Len(req)
ImplementsRequestReply == Rpc!Spec

(***************************************************************************)
(* A request is answered, or an outage came across it, or it has been      *)
(* evicted by later ones that the cache had no room for: nothing else (a   *)
(* silent service, a late answer, an outage that others met) can starve it.*)
(***************************************************************************)
Waiting(r) == \E i \in 1..Len(toServer[req[r].client]) :
                 toServer[req[r].client][i] = r
Evicted(r) == /\ ~Waiting(r) /\ ~Cached(r) /\ answers[r] = 0
              /\ Len(req) > CacheSize
Disturbed(r) == r \in cut \cup gone
AnsweredOrEvicted ==
    \A r \in Requests :
        r <= Len(req) ~> /\ r <= Len(req)
                         /\ answers[r] > 0 \/ Evicted(r) \/ Disturbed(r)

(***************************************************************************)
(* CHAT_STATES in chat_utils.js: "updating" is "temporary unavailable", so *)
(* a chat that is updating becomes active again.  The code sees to that as *)
(* long as the service beats the two minute timer, but for a chat of which *)
(* a request was evicted, or met an outage, or was for a message that only *)
(* the client knows, which no response names.                              *)
(***************************************************************************)
InTime == \A r \in jobs : r \in timers \/ Disturbed(r)
Nameless(r, k) == ~\E s \in Found(r) : ChatOf[s] = k
UpdatingIsTemporary ==
    []InTime =>
        \A c \in Clients, k \in Chats :
            ui[c][k] = "updating" ~>
                \/ ui[c][k] = "active"
                \/ \E r \in 1..Len(req) :
                      /\ req[r].client = c /\ k \in req[r].chats
                      /\ Evicted(r) \/ Disturbed(r) \/ Nameless(r, k)

=============================================================================
