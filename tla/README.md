# Klatchat in TLA+

pyklatchat is a chat platform: people and conversational agents ("subminds") talk in the same conversations, and a
*prompt* is a question the agents discuss and vote on. This directory holds TLA+ models of its core, the TLC
configurations that check them on small instances, and proofs for every instance. Paths below are relative to the
repository.

1. [The system](#1-the-system) – components, state, interactions, what is hard
2. [The modules](#2-the-modules) – how each one corresponds to the code
3. [The runs](#3-the-runs) – what is checked, with which bounds and fairness
4. [The proofs](#4-the-proofs)
5. [Where the code and its docs disagree](#5-where-the-code-and-its-docs-disagree)
6. [What is not modelled](#6-what-is-not-modelled)
7. [Plan](#7-plan)

To repeat the work: `tlc -config <file>.cfg <module>` for each run of section 3, `tlapm <module>.tla` for the modules
`*_proofs`. `PROJECT.json` maps every definition to the lines it stands for.

## 1. The system

```
 browser (chat_client/static/js)        other services on RabbitMQ:
   cards, IndexedDB, timers               subminds, controller, translation, Neon, STT/TTS, LLMs
        |  Socket.IO + HTTP                           |  MQ
   chat_server (one asyncio process) --Socket.IO-- klatchat_observer (threads)
        |
   MongoDB, SFTP
```

| Component | State | Operations | Correct when | Module |
|---|---|---|---|---|
| Observer's Socket.IO channel, `services/klatchat_observer/controller.py` | flags `sio_connecting`, `connected`; queue of 256 events; retry timers | `connect_sio`, `_sio_emit`, `_login_to_klat_server` | an event is neither lost nor doubled inside the observer; a broken link is dialed again | ObserverLink |
| Observer's session, the same and `sio/utils.py` | token, header of the link, notices `auth_expired` | `login_required`, `_handle_auth_expired`, `_login_to_klat_server`, `_fetch_klat_server` | the link talks under the token that is kept; the observer gets out of an expired session | ObserverSession |
| Routing in the observer | dictionaries of messages, default models of personas | `handle_message`, the MQ consumers, `forward_prompt_data`, controls | the server stores what was said; nothing waits for ever | Routing |
| Neon discovery in the observer | service id, an event, a consumer | `neon_service_id`, `get_neon_service`, `handle_neon_sync` | a search decides where its message goes, and ends | Routing |
| Translations, `language_utils.js`, `sio/handlers/translation.py`, `dao/shouts.py`, the observer's `__translation_requests` | preferred languages, LRU cache of open requests, translations of each shout, timers of two minutes | language change, `request_translate`, `get_neon_translations`, `save_translations`, void callback | every request is answered once, in full; no original wording is lost | Translations |
| Messages and prompts, `sio/handlers/user_message.py`, `prompt.py`, `dao/prompts.py` | chats, shouts, prompts | `user_message`, `new_prompt`, `prompt_completed` | a prompt refers to stored messages, lists a user once, and is final when completed | Conversation |
| Popularity, `services/popularity_counter.py` | a list of records, its age | `init_data`, `increment_cid_popularity`, `add_new_chat`, search | one record for a chat; its number is that of the messages, up to double counts | Conversation |
| History, `blueprints/chat.py`, `mongo_queries.py`, `chat_utils.js`, `message_utils.js`, `sio.js` | the card in the document, the mark in IndexedDB, `all_messages_displayed`, loads under way | open, close, scroll, page, live events | what is on the card has no hole nobody knows of | History |
| Chats and queries, `utils/database_utils`, `blueprints/chat.py`, `admin.py` | chats; filters of a query | create, search, live, overview; pages of messages and prompts | the merged filters select what each of them describes; a name is one chat's | Queries, Chats |
| Speech and files, `tts.py`, `stt.py`, `files_api.py`, `users.py`, `dao/shouts.py` | files on the SFTP store, what the database names, transcripts | request and answer of speech, uploads, avatars | the database names no missing file; a session hears what it asked for | Media |
| Personas, `blueprints/personas.py`, observer | a table; a kept answer of 15 s | list, add, set, toggle, delete; news for the language models | the models end up with the set in the table; an answer holds the asker's personas | Personas |
| Accounts and sessions, `auth.py`, `users.py`, `dao/users.py`, `user_utils.js`, `http_utils.js` | users; tokens; the browser's token; what pages show | sign up, log in and out, guests, refresh, profile, bots | a page acts as the account it shows; a session ends; names are unique | Accounts |
| Layout of chats, `chat_utils.js`, `db.js` | cards, table `chat_alignment` | open, restore, close, create, change the skin | the stored layout is the one on the page | ChatLayout |
| Preferences, configs, languages, admin, client pages, scripts, migration | little or none | – | – | – |

**Interactions.** A browser's `user_message` is stored, recorded in its prompt, announced to all other sockets and
counted, with the event loop free at every emit. The observer is one of those sockets: it routes each announced message
to a service on MQ, each in a thread of the library, and sends what comes back as a Socket.IO event through `_sio_emit`,
under a session that expires and is renewed. A language change goes browser, server, observer, translation service and
back, with a timer in the observer and a cache in the server. A browser merges three sources into one card: pages of
history, live messages, and translations.

**What is hard.** (a) The observer's threads share flags and a queue without a lock. (b) Handlers of the server
interleave at awaits with a process-wide cache and counter. (c) Timers race answers. (d) The client's handlers resume
after awaits on cards that were closed or opened again. (e) Restarts lose what is in memory but not the database.
(f) Bounded structures (the queue of 256, the LRU cache) block or evict at their limit. (g) A file and the document
that names it are written by two calls. (h) Tabs share a token, and handlers share a dictionary or a kept answer that
one of them edits. (i) The filters of a query are merged by key. The list with line numbers is `hazards` in
`PROJECT.json`; each names the properties that cover it, or says why none does.

## 2. The modules

### EventChannel, ObserverLink (observer's channel)

`EventChannel` is the promise: an event handed over reaches the server at most once, nothing else reaches it, order
and delivery are left open. `ObserverLink` is the code, with a program counter `pc[t]` for each thread. `emit`, `send`,
`requeue`, `park`, `ask` are the points of `_sio_emit`; `connect`, `mark`, `dial`, `verdict`, `flush`, `get` those of
`connect_sio`; `depth[t]` counts the flush loops on the stack, because a failed emit in a flush loop calls
`connect_sio` again. Every test of a shared flag and every access to the queue is a step of its own, since nothing
locks them. `put` and `get` block as `queue.Queue` does, so their guards disable the thread. `Workers` run MQ and
Socket.IO handlers, `TimerThreads` the `Timer(5, connect_sio)`, `Main` the constructor. `Drop` and `LibReconnect` are
the library's own reconnection (external). `Login` is `_login_to_klat_server`, whose disconnect nothing follows up.
The payload of an event is a value that does not change. The variables `accepted` and `sent` are the history that
`EventChannel` sees.

### RequestReply, Translations (translation of conversations)

`RequestReply` is the promise to whoever asks for work that another service does: only what was asked is answered, and
once. `Translations` models the chain. On
the client: `ChangeLanguage` (setPreferredLanguage), `NewMessage` (a live message in a foreign language),
`NewHiddenMessage` (the same for a chat that is not on the page, which asks for a mapping without shouts) and
`ApplyTranslations`. On the server: `RequestTranslate` with the lookup (`Found`, `InStore`) and the cache (`Insert`
evicts the oldest, `Touch` moves an entry to the end), and `GetNeonTranslations`, which merges and saves. In the
observer: `RequestNeonTranslations`, `OnNeonTranslationsResponse`, `VoidCallback`, the last two of which compete in
`SendTranslationResponse`. A text is abstracted to who wrote it (`author` or `translator`), which is what the
properties tell apart; `lang` and `trans` are the stored language and the dictionary of translations. Events to one
client keep their order; those to the observer do not, for it handles each in a thread. `linked` says whether the
observer is connected: what the server emits to it meanwhile is dropped (`Fails`), and its own replies wait in its
queue, possibly for ever. `Disconnect`, `RestartObserver`, `RestartServer` (which forgets the cache of open requests)
and `Resume`, a page that is connected again under another session, are the outages; each takes the events on the broken
connection with it. `Connect` is the observer's dial, to which nobody is obliged. `cut` and `gone` are history variables:
the requests that such an outage met on their way to and from the translation service, and those whose session has ended.

### Conversation (messages, prompts, popularity)

`user_message` is cut at its awaits: `ReceiveMessage` or `RejectMessage` up to the first emit, `AnnounceInPrompt`
between the two emits of a message in a prompt, `CountMessage` after the emit of `new_message`. Between them any other
handler runs. `AddParticipant` and `AddAnswer` are `add_shout_to_prompt`, which pushes a participant only after
reading the list, and replaces an answer. `IncrementPopularity` first takes `CurrentRecords`, since `get_data` recounts
an empty or expired list; `records[k]` is the sequence of records of chat k, as the code's list may hold more than one.
`Expire` is the passing of the hour, `Restart` loses the counter and the handlers and keeps the database. Between two
writes of one handler nothing else runs, but a call of the database may fail or the process be killed: `FailReceiving`
ends after the message was stored, after its chat was marked as `recent`, or after the participant was pushed and before
the answer is set; `FailConversation` and `FailCounting` are the same for new chats and for the counter. `SetCompleted`
writes the winner or the votes that a `prompt_completed` brings (`outcome`), again for one that is repeated.

### History (one chat on one client)

Server: `NewestOf` is the sorted and limited query (any choice among messages of the same second), `PageOf` the
replacement of messages by their prompt in the prompts skin (`Fetched`: without any prompt in the page, all prompts of
the chat), `Readable` the KeyError of a prompt without participants. Client: `DisplayConversation`, `ServeFirst` or
`FailFirst`, `BuildConversation` open the chat; `Scroll`, `ServeOlder` or `FailOlder`, `AddOldMessages`, `Settle` load
older messages; `AddToClosed` is a load that comes back to a card that was closed, or closed and opened again.
`MarkAfter` is `initPagination`. `RowsOf` is empty because `fetch_prompt_data` has replaced ids by nicknames that the
markup cannot resolve. `NewPrompt` and `UserMessage` are the live events. `created_on` is a small number whose ties are
the messages of one second. `unseen`, `strayed` and `broken` are history variables: which messages the card had no
place for when they were announced, whether a load of an earlier card changed this one, whether a load failed.

### ChatLayout (the chats of a page)

A handler that opens a chat and the card that it builds are one slot `job[h]`: *asked* until the server has answered,
*building* until the row is written and the HTML there (`addNewCID`, `buildConversationHTML`), *shown* until the
recorder and the language selectors are there, *ready* when its buttons work. `SearchChat` is `displayConversation` up
to its fetch, `OpenFound` what follows, with `isDisplayed`; `Create`, `RestoreLive` and `RestoreNext` are the callers of
`buildConversation` that test nothing (`OpenUnseen`). `RestoreFromCache` reads the rows once; `RestoreNext` is a pass of
the loop, which waits for the card before, and `NotFound` removes a row that cannot be restored. `FailToShow` is a
template that cannot be fetched: `buildHTMLFromTemplate` swallows the error, "undefined" is inserted, and
`buildConversation` throws at the card that is not there. `Attach` leads from *shown* to *ready*; if the template of the
language selector cannot be fetched instead (`FailToAttach`), the card stays as it is, *bare*, and the exception ends
the loop that restores the others. `SwitchSkin` closes the card and opens it again with a fetch in between. `Reload` may
come at any moment; only `layout`, the stored rows, survives it. `doubled` and `forsaken` are history variables for what
the property excepts.

### Routing (observer, message bus, Neon)

A message is one dictionary and one thread `pc[m]`; `shape[m]` says what arrived: by whom, with which prefix and
mentions, complete or not. `text[m]` is its `messageText`: *said*, *stripped* of leading mentions, *hello* if nothing
else was in it, or *popped* by `_handle_neon_recipient`. `Emit` writes a packet at once while the link is up; a thread
that finds the link down leaves the dictionary itself in the queue and dials, unless somebody seems to be dialing. The
queue is emptied nowhere but in `connect_sio`: `Connect` is a dial that succeeds and begins a flush loop, `Flush` sends
one dictionary as it is by then, and `EndFlush` is the loop's last look, after which an event may be queued that nothing
sends. `Reconnect` is the library's own, which flushes nothing. This is how routing and delivery meet. `Recipient`,
`Participants` and `Preprocessed` are the recipient detection. The search for Neon is cut where threads can interleave:
`StartSearch` replaces the event, `Register` the consumer (registering one stops the one before), `LookUp` takes
whatever consumer stands under the name, `Listen` starts it. Two overlapping searches can start the same one, which a
thread does not allow: the second handler raises and its message is *lost*. `Announce` is `handle_neon_sync`, which sets
the event that is installed *now*, `StopListening` clears the id if that event is not set, `AskNeon` uses the id as it
is *now*. `Disconnect` and `RestartNeon` are the environment. `NeonResponse` needs a request in a queue that the running
instance reads. Lost connections and restarts share one bound.

### ObserverSession (the observer's login)

A token is known by its creation time, `None` is no token. `Guard` is the wrapper of `login_required` with the four
outcomes of `Status`: 404 without a header, 401 expired, 403 without the role (the event goes on to its handler all the
same), 200. Of the observer's events only `broadcast` is guarded. `Notice`, `LoginOk` or `LoginFail`, `Store` and
`Disconnect` are the steps of one thread from `auth_expired` through `_login_to_klat_server`; any number of threads may
be in them. `Dial` takes the token of its moment; the library's reconnection keeps the headers it has. The first dial is
made by the constructor, without a token, so the first guarded event is refused. `crossed` and `failed` are history
variables for the two causes that the properties except. What ObserverLink says of threads inside `connect_sio` is one
step here.

### Personas

`AddPersona`, `SetPersona`, `DeletePersona`, `TogglePersona` are the API, with its permissions (`Permitted`); `Publish`
is the event that the editor sends along. `TellDeleted` and `TellUpdated` send one message of the fan-out each, models
that lost the persona first; `LoseNews` ends a fan-out in the middle. `Reply` narrows the *kept* dictionary to the
asker's personas and gives it the asker's id if it has none, as `on_get_configured_personas` does; `AnswerFresh`,
`AnswerKept`, `FetchUnavailable` and `FetchRefused` are the ways to come by it. A persona is abstracted to its revision,
the number of the change that made it.

### Media (speech, recordings, uploads)

`files` maps names on the store to contents, `audio`, `attached`, `avatar` and the text of a recording name them in the
database. Every save is a put and then an update; `FailSaving` is the call that fails at any point, with the empty file
that a failed put may leave. The content of a speech file is the wording it says; the name of the file is given by
message, language and gender and shared by all who ask. `to_neon_lang` and `to_system_lang` are part of the round trip
of a request; speech that comes with a message (`Voiced`) is saved without them, under Neon's own codes. An answer names
a gender, and `request_tts` looks for the female voice only: `Sought` is what it can find, `Unsought` the rest.
`GiveUp` is a client that never sends the message of its upload. `wanted`, `worded` and `abandoned` are history
variables. A transcript needs the request before the message is stored: for a stored one without a transcript
`request_stt` answers an error.

### Accounts (users, sessions, tabs)

`users` is the collection in the order of insertion, because `get_user` takes the first match. A token is its account,
creation and last refresh; `Refreshed` keeps the creation time. A page is *loading*, *open* or *leaving* (about to
reload), `shown` is what it displays, `stored` the one token of the browser. Requests of a page carry the token of when
they were sent; the answer is handled with the reception (`ShowUser`, `ShowGuest`, `ShowNobody`, `Login`, `Signup`,
`Logout`). `SetSessionToken` reloads the page if another token was there. `GetBotData` marks or creates the account of a
bot. `Call` is any other request of the API. `stale`, `given` and `taken` are history variables.

### Queries, Chats (database layer)

`Queries` are operators without state: a query document is a set of entries *key, operator, argument*; `BuildFilters` is
`build_filters` over `deep_merge`, in which a later filter gives way to an earlier one; `Accepted` says that no merge
raises and that MongoDB would take the result. `MCChats` compares `BuildFilters` with the loop of the code, as a fold,
for all sequences of three filters over two keys. `Chats` has the queries of `ChatsDAO`, `get_prompts`,
`fetch_shout_data`, `list_contains`, `get_item`, and `new_conversation` as the action that depends on one of them. Its
properties compare what a query returns with what its conditions describe, in every state. `OverviewLimit` is the limit
of the admin's overview; `Leading` is the first of those that match, in the stored order.

## 3. The runs

| Run | Shows |
|---|---|
| `link_safety` | `NothingLost`, `NothingCopied`, `LinkAttended`, and `ImplementsChannel`: the channel implements `EventChannel` |
| `link_live` | `Persistent`: once faults stop, the observer ends up connected for good |
| `observer_session` | `FreshHeader`, `RefusalAttended`; `Recovers`: an observer that goes on emitting gets out of an expired session |
| `routing` | `NoMisquote`, `SearchDecides`; `NothingStuck`: every search for Neon ends, and loses its message only if another one overlapped it; a flush loop that has begun leaves nothing behind of what waits |
| `translations` | `ForeignWordingKept`, `FullAnswersComplete`; `ImplementsRequestReply`: the chain implements `RequestReply`; `AnsweredOrEvicted`: only eviction, or an outage that the request met, starves it; `UpdatingIsTemporary`: without timeouts no chat whose requests met neither stays in the state *updating* |
| `conv_safety` | `AnswersStored`, `PopularityBounds`; `ParticipateOnce`: nobody is listed twice, or without an answer unless a handler of theirs was cut short; `CompletedIsFinal`: the answers of a completed prompt stay, whatever is repeated |
| `hist_safety` | `NoUnknownGaps`, `EndIsComplete`, `LoadingHasCause` |
| `chat_layout` | `LayoutAgrees`: rows and cards are the same chats in the same skins, but for chats that two handlers open at a time and rows that could not be shown |
| `chats` | `NamesUnique`, `QueriesAccepted`; `SearchFinds`: everybody finds the public chats and their own by id and name, and the overview those it has room for; `ReadsExact`: every read, pages included, returns what its conditions describe |
| `media` | `FilesAccountedFor`: the database names no missing file, and a file that nobody finds has one of the causes listed; `HeardAsAsked` |
| `personas` | `ToldLast`, `AnswerRight` |
| `accounts` | `SessionBounded`, `PageActsAsShown`, `NicksUnique`, and as an action property `SessionKept` |

`translations`, `hist_safety`, `chat_layout` and `accounts` also check the type invariant. The type invariant of every
component is a theorem (section 4).

**Bounds, and why they are enough.**

* *ObserverLink.* Two emitting threads, one timer thread and the constructor, two events, a queue of one slot
  (`QueueCap`, 256 in the code), two faults (`MaxFaults`) and one login (`MaxLogins`). Two flush loops at once need two
  threads; a full queue needs one event more than slots; nested flush loops need a failed emit within a flush; the
  second fault hits the recovery from the first. `link_live` has two timer threads and a queue with room for all
  events, without which a thread that must dial can block in `put` (see the hazard at line 1060).
* *Translations.* Two requests (`MaxRequests`) over a cache of one entry, so that the second evicts. Two clients, of
  which one hides the chat and so makes requests of the other form. A French and an English message, since the two are
  stored differently, and one live message under an id that the server does not know. Languages `en` and `fr`: English
  is treated apart by the code and all others alike. Two outages (`MaxOutages`): a connection breaks and the one after
  it as well, or the server restarts meanwhile. `AnsweredOrEvicted` excepts requests that an outage met (`Disturbed`),
  for nothing repeats them; `UpdatingIsTemporary` has as premise that the service beats the timer (`InTime`), and
  excepts a chat of which a request was evicted, met an outage or was for a message that only the client knows.
  `MCTranslationsThree.cfg` checks the safety properties for three requests, a cache of two and one outage (1,984,947
  states), where an entry also moves in the cache; the proofs cover every size.
* *Conversation.* Five messages of two users in two chats and one prompt: two responses of one user, a vote, a
  message in a state that the prompt does not keep, a plain message. `MaxOutages = 2` lets an expiration and a restart, or
  a failing write and a restart, fall into one handler.
* *History.* Three messages, one of them in a prompt, pages of one message, three seconds (`MaxCreated`), two loads and
  two openings: the scroll event can fire twice before the first load has come back, and a load can outlive its card.
  Every assignment of creation times is an initial state. Pages of ten in the code only matter relative to the number
  of messages.

* *Routing.* Three messages in five scenarios (`MCTraffic`): a user and a bot that ask Neon at once, with Neon's answer;
  a request for audio; bots that mention bots, with a command and a control; bodies that lack a key; requests for
  prompts. Two instances of Neon and two outages (`MaxOutages`, for lost connections and restarts of Neon together): a
  search can be overlapped by another one while the instance is replaced, the link can break before a shout and come
  back after its routing, and break again during the flush.
* *ObserverSession.* Two threads that log in, so that the older token can be stored last; four instants (`MaxTime`) with
  a lifetime of one, so that every token but the last expires; two notices (`MaxNotices`) and one fault (`MaxFaults`).
* *Media.* A message of Neon that comes with speech and may be translated, a recording, two sessions, two languages of
  which one is spelled differently by Neon, two uploads, two different requests (`MaxRequests`), one failing call
  (`MaxFailures`). Two requests for one utterance in two wordings are the case that shares a file name. The message
  comes with speech under Neon's code `en-us` and under `uk`, and answers come in two genders, so that each cause of
  `Unsought` occurs.
* *Personas.* One persona of everybody and one of a user, two models, three changes (`MaxEdits`: add, change, delete or
  change again), two requests (`MaxAsks`: the second meets what the first has left), one failure (`MaxFailures`), a
  guest, a user and an administrator as editors.
* *Accounts.* Two tabs, one nickname for which a person, a bot and Neon compete, three accounts (`MaxUsers`), three
  instants (`MaxClock`): a session is created, refreshed and expired; one failing request (`MaxFailures`).
* *ChatLayout.* A chat of before and one that is created, three handlers or cards, a page for one card (`PageLimit`,
  4 in the code), so that the limit is met, passed and then not tested any more. Two chats are two rows to restore, the
  second of which waits for the first; three handlers are a card, one that opens and one that restores.
* *Chats.* Global and two more chats of two users, one of them an administrator, named also after ids, two items,
  three instants: ties of creation times, two live chats, a private one before a public one. The overview shows two chats
  (`OverviewLimit`, 100 in the code), so that three that match are one too many.

Where messages, threads, events, loads, tabs or models play the same part, symmetry is used, in runs without liveness
only. No run but `observer_session`, in which the observer can always emit, checks for deadlock: in the other models
users may stop acting.

**Fairness.** `ObserverLink`: weak fairness of each thread (the interpreter schedules it), of timers (they expire) and
of the library (it retries without limit, `reconnection_attempts = 0` by default). No handler is obliged to emit, log in
or fail. `Translations`: weak fairness of the event handlers of server and clients, of the observer's handler of an
event that has reached it, and of the timers; of a reply to the server only while its request is not `cut`. The
translation service need not answer, no client is obliged to ask, and nobody to connect again. `Routing`: a handler that
has started goes on, its wait for an announcement included, which ends after ten seconds; a dial that a thread or a
timer of `connect_sio` owes is repeated until it succeeds, and a flush loop goes on. Nobody is obliged to dial, so an
event may wait for ever while none does, and the library's reconnection is not assumed. Neon need not announce itself,
and nothing need arrive. `ObserverSession`: threads run, timers fire and a dial gets an answer; that the observer goes
on emitting is not assumed but the premise of `Recovers`, for without an emission nobody dials after a login.

**Strength.** Each property of a passing run has a mutant in `PROJECT.json`: a definition changed the way a plausible
bug would change the code (a dropped test, a flag not reset, a merge left out, an event put back twice), under which
the run reports that property violated. The mutated forms stand in the modules, marked `Mutant`, and are used nowhere.

## 4. The proofs

The theorems hold for all sets of threads, events, messages, users and so on, all queue and cache sizes and all bounds,
under the named assumptions on the constants only.

* **ObserverLink_proofs**: `TypeCorrect`, `NoCopies`, `NoLosses`, `Refinement` (the channel implements
  `EventChannel`), `AlwaysAttended`. `NothingCopied` is not inductive alone: a thread must not reach `send` with an
  event that is still in the queue. `HoldsWhileEmitting` ties what a thread holds to where it is, and `FlushHasFrame`
  says that a thread in a flush loop has a frame to return from. `Apart` collects the three ways in which two places
  could share an event, with one lemma for putting an event into the queue (or the server's list) and one for taking
  it out. `LinkAttended` needs `FlagMeansDialing`: when a thread is turned away because somebody is connecting, that
  somebody exists.
* **Translations_proofs**: `TypeCorrect`, `WordingKept`, `AnswersAreSingle`, `FullAnswersAreComplete`, `Refinement` (the
  chain implements `RequestReply`, with the requests made as `asked`). `ForeignWordingKept` is a disjunction, but what
  is inductive is stronger: the translations of a foreign message hold its original (`OriginalKept`), because no request
  for the author's language ever has that message among those it asks the service for (`NeverRequested`), so no reply,
  however late or after whatever other saves, writes to that entry. `StoreType` is the part of the type invariant that
  this rests on. `AnsweredOnce`, and with it the refinement, follows from `StageInv`: a request is in one place at a
  time, the client's queue, the way to the observer, open there, or the way back. `FullAnswersComplete` needs `SplitInv`
  (what the database had and what the service is asked for are together all that was found) and `AnswerInv`, the same
  for the answers on their way to a client. `TypeCorrect` comes last, for it needs them: that the page shows only known
  languages rests on every answer naming a request that was made (`AnswerInv`), and that the cache keeps to its size on
  `get` moving an entry and never adding one (`TouchBounded`). An outage only takes events away, which `StageInv`,
  `SplitInv` and `AnswerInv` bear (`OutageStages`, `OutageComplete`).
* **Conversation_proofs**: `TypeCorrect`, `PromptsSound`, `Participation`, `CompletedFinal`, `SingleRecords`, `Counted`.
  `Participation` allows a participant without an answer only if a message of theirs to that prompt has failed after it
  was stored, the one trace that a handler cut short between its two writes leaves; `CompletedFinal` is about the
  answers and participants, and of the outcome says only that it does not vanish. `SingleRecords` needs that records
  belong to existing chats (`RecordsOfChats`), else `add_new_chat` could meet a record. `Counted`, that each finished
  message is counted and none more than twice, needs `StoredFirst` (a message is stored before it is announced) and is
  inductive only for a list that has not expired (`BoundsInv`); an expired or empty list is replaced by a recount before
  it is used.
* **Chats_proofs**, for `Chats`: `TypeCorrect`, `NamesAreUnique`, `SearchIsExact`, `ReadsAreExact`,
  `QueriesAreAccepted`. The invariant `NamesInv` adds to the uniqueness that a name which is an id is that of an older
  chat (`NamedAfterOlder`), since ids are random and nobody can name a chat after one that does not exist yet.
  `ListReplaces` is the fact on which the names turn: a list of alternatives replaces the filter on private chats that
  follows it, so the test of `new_conversation` sees the chats of everybody. Reads turn on the opposite, `ApartMerge`:
  filters that are `Apart`, no two about one operator of one column and a demanded value alone with its column, lose
  nothing when they are merged, so the merged query is their conjunction; `ApartAccepted` says that nobody refuses them.
  `SearchIsExact` promises the overview a chat only while fewer than `OverviewLimit` others match (`OverviewMatches`,
  `OverviewLists`). `LiveQuery`, `ShoutQuery`, `PromptQuery`, `IdQuery` and `IdsQuery` show that each caller's filters
  are of this kind (a prompt before which and a time after which are both about `created_on`, with different operators),
  and `NewestIsPage` that a sorted and limited query is a page of what was asked for. The fallback of
  `get_live_conversation` needs that Global stays the first chat (`GlobalFirst`).
* **Chats_proofs**, for `ChatLayout`: `LayoutTypeCorrect`, `LayoutFollowsPage`. `LayoutAgrees` is inductive together with
  `OneWaits` (a chat waits to be restored at most once), `WaitingAgrees` (one that waits has no card yet, and waits in
  the skin of its row) and `NoneBefore` (nothing is restored before the rows are read). Without `WaitingAgrees` the
  pass of the loop that asks for the chat could open it in another skin than its row has. A card that fails while it is
  restored makes the rows after it `forsaken` (`FailToShow`, `FailToAttach`).
* **Chats_proofs**, for `History`: `HistoryTypeCorrect`, `LoadingCaused`, `GapsAreKnown`, `TheEndIsComplete`. The types
  say what pages consist of (`PagesTyped`, `SkinsTyped`). A chat that is shown as loading waits for a load that *this*
  card began (`LoadOfCard`); loads of earlier cards do not count. `NoUnknownGaps` speaks of the mark, but a page that is
  on its way was made by a query of an earlier state, so `GapsInv` follows pages from the query to the card:
  `FirstCovers` and `LoadCovers` say that a page, with what stands on the card, accounts for all it reaches.
  `PageAccounts` proves this of a page when it is made, for any choice among messages of one second; `NothingIsOlder` of
  an empty one; `StaysAccounted` that it remains so while messages and prompts are added.
* **Sessions_proofs**, for `ObserverSession`: `TypeCorrect`, `HeaderIsFresh`, `RefusalIsAttended`. `HeaderInv` extends
  `FreshHeader` to a link that is being dialed: it has the headers of the kept token unless a thread is about to
  disconnect, or a dial or the library kept old ones.
* **Sessions_proofs**, for `Accounts`: `AccountsTypeCorrect`, `SessionsAreBounded`, `PagesActAsShown`,
  `NicknamesAreUnique`, and the action property `SessionIsKept`. `AccountsInv` adds to the three invariants that
  a session of a person, in the browser or sent along with a request, was made no later than the password was last given
  (`TokensGiven`), and that before now (`GivenBefore`), that an answer to a form finds the page that sent it
  (`FormsOpen`), and that no page shows anybody before the browser has a token (`NoPageYet`). `OneOfAName` is
  `NicksUnique` without a number, which is what adding an account preserves.
* **Media_proofs**: `TypeCorrect`, `StoreAgrees`, `HeardRight`. `FilesInv` says that what is named or about to be named
  (`Kept`) is on the store, that every other file is `abandoned`, and that nothing is attached to a message before it is
  stored. `Kept` counts the speech that nobody looks for, too, for the database goes on naming it. `HeardInv` follows a
  wording from the request (`Sound`) over the file that several requests share (`Says`) to the session that hears it.
* **Personas_proofs**: `TypeCorrect`, `ModelsFollow`, `AnswersRight`. `ToldInv`: an unspoiled persona has one event at a
  time, which brings what the table holds (`Current`), and a model that this event will not tell knows what is due.
  `CacheInv`: the kept answer is the part of a listing of its user that earlier askers have left, and has the id of a
  request.
* **Routing_proofs**: `TypeCorrect`, `WordsKept`, `SearchRight`. `WordingInv` says what may happen to a dictionary
  before it is routed and while it waits for the link. In `SearchInv` a search that nobody overlapped is the only one
  there is, so that the event that is installed and the consumer that it has registered, looked up and started are its own
  (`Stage` says what it has heard at each point). `ConsumersInv` says that a consumer that runs is held by a search,
  so that there is an event for it to set.

**Assumptions.** Each component module names its own: bounds are natural numbers, and the constants that describe the
traffic (who wrote a message, what it answers, which personas are whose) have the types of the code's arguments.
`MediaAssumption` also says that recordings are not spoken by Neon as they arrive, and that `en` is a code of the system
and `en-us` is not; speech may come under either. `OverviewAssumption` says that the overview has room for one chat.

`Chats_proofs` and `Sessions_proofs` each hold the proofs of several components, whose constants and variables have
different names, so no theorem assumes anything about another component. Of the components of `Chats_proofs` only
`Chats` uses `Queries`.

**Model-checked only.** Liveness (`Persistent`, `Recovers`, `NothingStuck`, `AnsweredOrEvicted`,
`UpdatingIsTemporary`) is beyond the proof system, which has neither fairness nor ENABLED. So is induction over data:
that `BuildFilters` is what the loop of `build_filters` computes is compared by `MCChats` for sequences of three
filters, and the theorems start from `BuildFilters`. Every invariant, action property and refinement of the runs in
section 3 is a theorem.

## 5. Where the code and its docs disagree

The configurations named here state what a doc or a comment says, and TLC finds it violated by what the code does. They
are not among the runs of section 3, all of which pass.

* `MCObserverLinkReliable.cfg` (`Reliable`): `_sio_emit` promises to emit events "ensuring reliability". An event that
  is queued between the flush loop's last look at the queue and the return of `connect_sio` waits for a next dial, which
  may never come.
* `MCObserverLinkLogin.cfg` (`Persistent` with logins): `connect_sio` promises a "persistent connection".
  `_login_to_klat_server` disconnects and nobody connects until the next emission; a client that disconnects itself is
  not reconnected by the library.
* `MCConversationPopularity.cfg` (`PopularityIsLength`): popularity "considers length of number of message container".
  The message that finds the list empty or expired is counted by the recount and again by its own handler.
* `MCConversationDuplicate.cfg` (`NoDuplicateData`): `add_shout_to_prompt` logs that somebody "tried to duplicate data";
  its test looks for the user under a key that no document has, so a second answer replaces the first.
* `MCHistoryGap.cfg` (`NextOlder`): the comment on `addOldMessages` says "Gets list of the next n-older messages". In the
  prompts skin the oldest item of a page may be a prompt; its creation time becomes the mark, and messages between it and
  the rest of the page are never asked for.
* `MCHistoryAnswers.cfg` (`PromptAnswers`): `fetch_prompt_data` "returns list of matching prompt data along with matching
  messages and users". The participants of a prompt come as nicknames, its answers keyed by id, and the table stays
  empty.
* `MCRoutingRecursion.cfg` (`NoRecursion`): `_should_skip_recipient_detection` leaves out shouts of bots "to prevent
  recursive scenarios". It reads `is_bot`, and messages on the bus carry `bot`, so a bot's mention of a bot is a request
  again.
* `MCMediaRecording.cfg` (`TextNamesRecording`): a comment in `user_message` says that the text of an audio message is
  the name of its file. A translation of the chat replaces the text, and the recording is not found any more.
* `MCPersonasKept.cfg` (`AnswerComplete`): `on_get_configured_personas` answers "requests to get all defined personas for
  a specific LLM service". It narrows the kept answer in place, so within 15 seconds the next model gets what the first
  had a use for, under the first request's id.
* `MCChatsPrivate.cfg` (`PrivateIsOwn`): the docstring of `get_chats` says of its owner that it is "used to find owned
  private conversations". A search on behalf of a user finds everybody's private chats, for the list of alternatives
  takes the place of the filter on privacy when the two are merged.
* `MCChatLayoutLimit.cfg` (`PageLimitKept`): the alert of `displayConversation` says "Up to" four chats are "allowed per
  page". The number is compared before the fetch, for equality, and not at all for chats that are new, live or restored.

Smaller ones that the models contain, without a configuration of their own:

* *Observer.* The first link has no session header, so its first guarded event is refused (404); of its events only
  `broadcast` is guarded, a refused event is not repeated, and a refusal for a missing role (403) still runs the handler.
  Overlapping logins may store the older token last. `get_recipient_from_message` always returns a dictionary with
  something in it, so `get_recipient_from_bound_service` is never reached. Of two overlapping searches for Neon the second
  may start the consumer of the first, which raises, and its message is lost (`controller.py:314-322`).
* *Translations.* After a void callback with nothing in the database the response names no chat, so the chat stays
  *updating* (`language_utils.js:229`; hence the premise `InTime`). Answers to two changes of a language are applied
  in the order of their arrival (`language_utils.js:257`), and nothing promises another. A request that the server emits
  while no observer is connected is dropped, and nothing repeats it (`translation.py:74`): its chat stays *updating*.
* *Messages.* A prompt message in a state without store properties raises after the message was stored
  (`dao/prompts.py:143`, the failing branch of `ReceiveMessage`). `get_prompt_data` without an id looks for `[None]` and
  finds nothing, with an unknown one it raises an IndexError; in `fetch_shout_data` the user's `_id` replaces the shout's.
* *Messages and failures.* A kill between the push of a participant and the answer (`dao/prompts.py:137,154`) leaves one
  without an answer; a repeated `prompt_completed` replaces winner and votes (`dao/prompts.py:62-67`).
* *Media.* Speech that Neon gives another gender than female, or that comes with a message under Neon's code `en-us`, is
  saved and never found, so it is asked for again (`tts.py:76,127`, `user_message.py:158-166`). For a stored message
  without a transcript `request_stt` answers an error, so a transcript needs a request that comes before the message is
  stored, and the message's own audio data, which the JavaScript does not send.
* *Accounts.* A profile update may take any nickname, though signup keeps it unique (`blueprints/auth.py:61`).
  A failing answer about the current user stores "undefined" as the session (`user_utils.js:146`). `get_bot_data` marks a
  person's account as a bot. Two logins in one second give the same token and no reload; a default beside `Annotated`
  is ignored by FastAPI, so expired sessions come back as guests that nobody knows.
* *Queries.* Because a search loses its filter on private chats (`PrivateIsOwn` above), names are unique across
  everybody. The overview's pattern is compiled twice, so that names never match (`dao/chats.py:121`).
* *Layout.* A language selector whose template fails leaves a card without working buttons and ends the restoring of the
  others (`language_utils.js:172-174`).

## 6. What is not modelled

* *In the modelled components.* ObserverLink: contents and order of events, which the code does not promise.
  ObserverSession: who waits inside `connect_sio` (ObserverLink's part). Routing: contents of requests other than the
  text, prompts' answers, and the room in the queue of waiting events (ObserverLink's part). Translations: reply
  previews, `minify` variants, access checks, the limit of 100 shouts. Conversation: `full_nickname`, reads;
  announcements behave as messages without a prompt; emits do not fail (the server's Socket.IO emit queues); the window
  of seven days contains all messages. History: the order and multiplicity of items, senders' data, attachments and
  replies, several chats and the reload of the page (ChatLayout), the limit of 100 prompts; removing a card and clearing
  its state is one step although the table's row goes in between. Media: mime types and sizes that are refused, the
  local store, playing and recording in the browser. ChatLayout: a row whose write is lost when the page is left, the
  order of cards, a failing template of a chat that has another card (it is *doubled*), several tabs, the Nano client.
  Personas: the editor that emits the news, which is not in this repository. Accounts: nano tokens, passwords and their
  hashes.
* *The database.* A query is one atomic step. The handlers of the server await nothing between queries except where a
  model has a step boundary, and there is one server process (`chat_server/__main__.py`). Connections of the connectors
  and the MySQL connector, which nothing uses, are left out.
* *Components left out* (`PROJECT.json` has each with its sources). Start-up and configuration run before anything
  modelled. Preferences, languages and configs are single reads and writes; Kubernetes and RabbitMQ are administered by
  calls that keep no state here. The chat client's Python side passes requests on. `klatchatNano.js` is generated from
  the scripts that are modelled, by a builder that is run by hand. The migration cannot run: `shouts.py` imports
  `chat_server.server_utils.db_utils`, which does not exist, `sql_utils` imports `collections.Iterable`, and `update` is
  no command of MongoDB.

## 7. Plan

Done, in this order: the observer's channel, since every service depends on it; translations, the longest chain with
the most races; messages, prompts and popularity, the core data; history, where a user sees the rest; routing with the
search for Neon; speech and files; personas; accounts; queries and chats; the observer's session; the chats of a page
with their layout; then theorems for every safety property, component by component.

Left, by importance:

1. `History` with the order and multiplicity of items, that is, two loads that insert the same message, and its card as
   one of those of `ChatLayout`.
2. Routing over the channel: `Emit` and `Flush` as instances of `EventChannel`, composed with `ObserverSession`.
