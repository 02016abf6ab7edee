------------------------------ MODULE Personas ------------------------------
(***************************************************************************)
(* Personas: the HTTP API that stores them (blueprints/personas.py), the   *)
(* events with which their editor, a client outside this repository,       *)
(* tells the observer of a change, what the observer then tells the        *)
(* language models, and what it answers when one of them asks for its      *)
(* personas, out of an answer of the API that it keeps for 15 seconds.     *)
(*                                                                         *)
(* Every event has a thread of its own.  Requests for personas come from   *)
(* one queue and are handled one after the other.                          *)
(***************************************************************************)
EXTENDS Naturals, FiniteSets

CONSTANTS Personas,    \* ids, name or name_user
          Owner,       \* [Personas -> Users \cup {Everybody}], user_id
          Users,
          Everybody,   \* user_id = None
          Accounts,    \* callers of the API
          Guests,      \* those that are temporary
          Admins,      \* those with the role of an administrator
          Observer,    \* the account of the observer
          Llms,
          MaxEdits,    \* bound on changes of personas
          MaxAsks,     \* bound on requests of language models
          MaxFailures  \* bound on events and calls that fail

ASSUME PersonasAssumption == /\ Owner \in [Personas -> Users \cup {Everybody}]
                             /\ Everybody \notin Users
ASSUME AccountsAssumption == /\ Users \cup Guests \cup Admins \cup {Observer} \subseteq Accounts
                             /\ Everybody \notin Accounts
ASSUME BoundAssumption == MaxEdits \in Nat /\ MaxAsks \in Nat /\ MaxFailures \in Nat

VARIABLES stored,   \* database: revision of each persona, 0 if there is none
          supports, \* database: supported_llms
          enabled,  \* database: personas that are enabled
          news,     \* events in the hands of the observer, with what is left to do
          known,    \* revision of each persona that a model was last told
          cache,    \* the kept answer of the API for each user_id
          answer,   \* what the last step answered a model, if it did
          edits, asks, failures,
          spoiled   \* history: personas with a failed event or two at a time

database == <<stored, supports, enabled>>
counters == <<edits, asks, failures>>
vars == <<database, news, known, cache, answer, counters, spoiled>>

Keys == Users \cup {Everybody}

\* A listing: each persona in it with each model that it supports.
Listings == SUBSET (Personas \X Llms)

Requests == [from : Llms, for : Keys, id : 1..MaxAsks]

Events == [of : Personas, rev : 1..MaxEdits, drop : SUBSET Llms, put : SUBSET Llms]

Answers == [valid : BOOLEAN, items : Listings, id : 0..MaxAsks, listed : Listings]

\* Id 0: not yet the answer to a request.
Nothing == [valid |-> FALSE, items |-> {}, id |-> 0, listed |-> {}]

TypeOK ==
    /\ stored \in [Personas -> 0..MaxEdits]
    /\ supports \in [Personas -> SUBSET Llms]
    /\ enabled \subseteq {p \in Personas : stored[p] > 0}
    /\ news \subseteq Events
    /\ known \in [Llms -> [Personas -> 0..MaxEdits]]
    /\ cache \in [Keys -> Answers]
    /\ \A r \in answer : /\ r.to \in Requests
                         /\ r.items \subseteq Personas /\ r.id \in 1..MaxAsks
    /\ edits \in 0..MaxEdits /\ asks \in 0..MaxAsks /\ failures \in 0..MaxFailures
    /\ spoiled \subseteq Personas

Init ==
    /\ stored = [p \in Personas |-> 0]
    /\ supports = [p \in Personas |-> {}]
    /\ enabled = {}
    /\ news = {} /\ known = [l \in Llms |-> [p \in Personas |-> 0]]
    /\ cache = [k \in Keys |-> Nothing] /\ answer = {}
    /\ edits = 0 /\ asks = 0 /\ failures = 0
    /\ spoiled = {}

Silent == answer' = {}

-----------------------------------------------------------------------------
(***************************************************************************)
(* The API, and the editor's events                                        *)
(***************************************************************************)

\* _is_authorized_by_model_attributes and has_admin_role
Entitled(user) == IF user = Everybody THEN Accounts ELSE {user} \cup Admins

\* _check_is_authorized for a request with this user_id: a guest has no part
\* in what asks for more than GUEST, and what belongs to a user is for that
\* user and for administrators.
Permitted(by, user, least) ==
    by \in Entitled(user) \ (IF least = "guest" THEN {} ELSE Guests)

\* An event, unless nothing of it is left to do.
Event(p, rev, drop, put) ==
    IF drop \cup put = {} THEN {} ELSE {[of |-> p, rev |-> rev, drop |-> drop, put |-> put]}

\* persona_updated, or persona_deleted if new is empty: the models that lost
\* the persona are told that it is deleted, then the others that it changed.
Publish(p, old, new) ==
    /\ edits < MaxEdits
    /\ edits' = edits + 1
    /\ news' = news \cup Event(p, edits', old \ new, new)
    /\ spoiled' = IF \E e \in news : e.of = p THEN spoiled \cup {p} ELSE spoiled

\* add_persona refuses an id that exists.
AddPersona(by, p, L, on) ==
    /\ stored[p] = 0
    /\ Permitted(by, Owner[p], "guest")
    /\ Publish(p, {}, L)
    /\ stored' = [stored EXCEPT ![p] = edits']
    /\ supports' = [supports EXCEPT ![p] = L]
    /\ enabled' = IF on THEN enabled \cup {p} ELSE enabled
    /\ UNCHANGED <<known, cache, asks, failures>> /\ Silent

\* set_persona leaves enabled as it is.
SetPersona(by, p, L) ==
    /\ stored[p] > 0
    /\ Permitted(by, Owner[p], "guest")
    /\ Publish(p, supports[p], L)
    /\ stored' = [stored EXCEPT ![p] = edits']
    /\ supports' = [supports EXCEPT ![p] = L]
    /\ UNCHANGED <<enabled, known, cache, asks, failures>> /\ Silent

DeletePersona(by, p) ==
    /\ stored[p] > 0
    /\ Permitted(by, Owner[p], "guest")
    /\ Publish(p, supports[p], {})
    /\ stored' = [stored EXCEPT ![p] = 0]
    /\ supports' = [supports EXCEPT ![p] = {}]
    /\ enabled' = enabled \ {p}
    /\ UNCHANGED <<known, cache, asks, failures>> /\ Silent

\* toggle_persona_state; no model is told.
TogglePersona(by, p) ==
    /\ stored[p] > 0
    /\ edits < MaxEdits
    /\ Permitted(by, Owner[p], "authorized_user")
    /\ edits' = edits + 1
    /\ enabled' = IF p \in enabled THEN enabled \ {p} ELSE enabled \cup {p}
    /\ UNCHANGED <<stored, supports, news, known, cache, asks, failures,
                   spoiled>> /\ Silent

\* list_personas, enabled ones only: those of a user, or, as the observer asks
\* with its own account, those of everybody.
Listed(k) == {p \in enabled : Owner[p] = k}

-----------------------------------------------------------------------------
(***************************************************************************)
(* What the observer tells the models                                      *)
(***************************************************************************)
Continue(e, rest) ==
    news' = (news \ {e}) \cup Event(e.of, e.rev, rest.drop, rest.put)

\* Mutant: the message goes to the exchange of updates.
TellDeletedAsUpdate(e, l) ==
    /\ e \in news
    /\ l \in e.drop
    /\ known' = [known EXCEPT ![l][e.of] = e.rev]
    /\ Continue(e, [e EXCEPT !.drop = e.drop \ {l}])
    /\ UNCHANGED <<database, cache, counters, spoiled>> /\ Silent

\* _handle_persona_deleted, also on behalf of an update.
TellDeleted(e, l) ==
    /\ e \in news
    /\ l \in e.drop
    /\ known' = [known EXCEPT ![l][e.of] = 0]
    /\ Continue(e, [e EXCEPT !.drop = e.drop \ {l}])
    /\ UNCHANGED <<database, cache, counters, spoiled>> /\ Silent

\* _handle_persona_updated
TellUpdated(e, l) ==
    /\ e \in news
    /\ e.drop = {}
    /\ l \in e.put
    /\ known' = [known EXCEPT ![l][e.of] = e.rev]
    /\ Continue(e, [e EXCEPT !.put = e.put \ {l}])
    /\ UNCHANGED <<database, cache, counters, spoiled>> /\ Silent

\* A send fails and ends the thread, or the event never reached the observer:
\* broadcast drops it when the session of its sender has expired.
LoseNews(e) ==
    /\ e \in news
    /\ failures < MaxFailures
    /\ failures' = failures + 1
    /\ news' = news \ {e}
    /\ spoiled' = spoiled \cup {e.of}
    /\ UNCHANGED <<database, known, cache, edits, asks>> /\ Silent

-----------------------------------------------------------------------------
(***************************************************************************)
(* What the observer answers                                               *)
(***************************************************************************)
\* Mutant: the personas are not narrowed to those that support the asker.
ReplyToAll(r, kept) ==
    LET id == IF kept.id = 0 THEN r.id ELSE kept.id
    IN  /\ cache' = [cache EXCEPT ![r.for] = [kept EXCEPT !.id = id]]
        /\ answer' = {[to |-> r, items |-> {x[1] : x \in kept.items}, id |-> id,
                       listed |-> kept.listed, kept |-> kept.id # 0]}

\* on_get_configured_personas: the kept dictionary itself is narrowed to the
\* personas of the asker and gets the asker's message_id if it has none.
Reply(r, kept) ==
    LET mine == {x[1] : x \in {y \in kept.items : y[2] = r.from}}
        id   == IF kept.id = 0 THEN r.id ELSE kept.id
    IN  /\ cache' = [cache EXCEPT ![r.for] =
                       [kept EXCEPT !.items = {x \in kept.items : x[1] \in mine},
                                    !.id = id]]
        /\ answer' = {[to |-> r, items |-> mine, id |-> id,
                       listed |-> kept.listed, kept |-> kept.id # 0]}

\* Requests are taken from the queue one after the other.
Answered(r) ==
    /\ r.id = asks + 1 /\ asks < MaxAsks
    /\ asks' = r.id
    /\ UNCHANGED <<database, news, known, edits, spoiled>>

\* _fetch_persona_api is called, and its answer kept.
AnswerFresh(r) ==
    /\ Answered(r)
    /\ ~cache[r.for].valid
    /\ Permitted(Observer, r.for, "guest")
    /\ LET now == {x \in Listed(r.for) \X Llms : x[2] \in supports[x[1]]}
       IN  Reply(r, [valid |-> TRUE, items |-> now, id |-> 0, listed |-> now])
    /\ UNCHANGED failures

AnswerKept(r) ==
    /\ Answered(r)
    /\ cache[r.for].valid
    /\ Reply(r, cache[r.for])
    /\ UNCHANGED failures

\* The API is not available, or does not let the observer log in: the answer
\* is empty, and kept like any other.
FetchUnavailable(r) ==
    /\ Answered(r)
    /\ ~cache[r.for].valid
    /\ failures < MaxFailures /\ failures' = failures + 1
    /\ Reply(r, [Nothing EXCEPT !.valid = TRUE])

\* The API refuses the observer again after a login, as it does whenever the
\* observer asks for the personas of a user and is no administrator: its answer
\* has no items, which ends the handler.
FetchRefused(r) ==
    /\ Answered(r)
    /\ ~cache[r.for].valid
    /\ \/ ~Permitted(Observer, r.for, "guest") /\ UNCHANGED failures
       \/ failures < MaxFailures /\ failures' = failures + 1
    /\ Silent
    /\ UNCHANGED cache

\* 15 seconds have passed.
CacheExpires(k) ==
    /\ cache[k].valid
    /\ cache' = [cache EXCEPT ![k] = Nothing]
    /\ UNCHANGED <<database, news, known, counters, spoiled>> /\ Silent

-----------------------------------------------------------------------------
Next ==
    \/ \E by \in Accounts \ {Observer}, p \in Personas :
          \/ \E L \in SUBSET Llms : \/ SetPersona(by, p, L)
                                  \/ \E on \in BOOLEAN : AddPersona(by, p, L, on)
          \/ DeletePersona(by, p) \/ TogglePersona(by, p)
    \/ \E e \in news, l \in Llms : TellDeleted(e, l) \/ TellUpdated(e, l)
    \/ \E e \in news : LoseNews(e)
    \/ \E r \in Requests : \/ AnswerFresh(r) \/ AnswerKept(r)
                           \/ FetchUnavailable(r) \/ FetchRefused(r)
    \/ \E k \in Keys : CacheExpires(k)

Spec == Init /\ [][Next]_vars

-----------------------------------------------------------------------------
(***************************************************************************)
(* Properties                                                              *)
(***************************************************************************)

\* A model knows the last revision of a persona that supports it and no
\* persona that does not, once every event about the persona is worked off,
\* unless one of them failed or two of them were under way at a time
\* (_handle_persona_updated tells those that lost it before the others).
ToldLast ==
    \A p \in Personas, l \in Llms :
        (p \notin spoiled /\ ~\E e \in news : e.of = p)
            => known[l][p] = IF l \in supports[p] THEN stored[p] ELSE 0

\* However often the kept answer has been narrowed, and for whomever: what a
\* model is sent are personas of the user it asked for, that were enabled and
\* supported this model when the answer was fetched.
AnswerSound ==
    \A r \in answer : \A p \in r.items :
        Owner[p] = r.to.for /\ <<p, r.to.from>> \in r.listed

\* What a model is sent are all its personas of the fetched answer, under the
\* id of its own request ("requests to get all defined personas for a specific
\* LLM service", on_get_configured_personas).  The code does not have this
\* property: an answer that is kept has lost the personas that an earlier
\* asker had no use for, and has the id of the first request.
AnswerComplete ==
    \A r \in answer :
        /\ \A x \in r.listed : x[2] = r.to.from => x[1] \in r.items
        /\ r.id = r.to.id

\* An answer is incomplete or has another request's id only within the time
\* for which an earlier one is kept: the first answer after a fetch is right.
FreshAnswerComplete == \A r \in answer : ~r.kept => AnswerComplete

\* What a model is answered is its own, and after a fetch all of it.
AnswerRight == AnswerSound /\ FreshAnswerComplete
=============================================================================
