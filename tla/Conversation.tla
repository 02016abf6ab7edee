---------------------------- MODULE Conversation ----------------------------
(***************************************************************************)
(* What the chat server does with a message: the Socket.IO handler         *)
(* user_message stores a shout, records it in its prompt and counts it in  *)
(* the popularity of its chat (services/popularity_counter.py), while      *)
(* new_prompt and prompt_completed open and close prompts and the HTTP     *)
(* API creates and searches chats.                                         *)
(*                                                                         *)
(* The server is one asyncio process.  A handler runs up to its next await *)
(* without interruption; at an await any other handler may run, and the    *)
(* process may be restarted: the database survives, the popularity counter *)
(* and the handlers under way do not.  Any call of the database may fail   *)
(* and leaves the writes that came before it; a process that is killed     *)
(* between two writes does so too, and is restarted.                       *)
(***************************************************************************)
EXTENDS Naturals, FiniteSets, Sequences

CONSTANTS Messages,
          Users,
          Chats,
          Prompts,
          NoPrompt,      \* prompt_id = ""
          NoMessage,     \* no entry in a prompt
          Author,        \* [Messages -> Users]
          ChatOf,        \* [Messages -> Chats]
          PromptOf,      \* [Messages -> Prompts \cup {NoPrompt}]
          StateOf,       \* [Messages -> PromptStates], promptState
          Outcomes,      \* values of winner and votes_per_submind
          NoOutcome,     \* such a key is not there
          Contexts,      \* SUBSET Summary, contexts of prompt_completed
          MaxOutages     \* bound on expirations, restarts and failures

PromptStates == {"IDLE", "RESP", "DISC", "VOTE", "PICK", "WAIT"}

\* _get_prompt_state_structure: states whose messages a prompt keeps.
Kept == {"RESP", "DISC", "VOTE"}

\* prompt_summary_keys, in a stored prompt and in the context of an event.
SummaryKeys == {"winner", "votes_per_submind"}
Summary == [SummaryKeys -> Outcomes \cup {NoOutcome}]

ASSUME MessagesAssumption == /\ IsFiniteSet(Messages)
                             /\ Author \in [Messages -> Users]
                             /\ ChatOf \in [Messages -> Chats]
                             /\ PromptOf \in [Messages -> Prompts \cup {NoPrompt}]
                             /\ StateOf \in [Messages -> PromptStates]
ASSUME NoneAssumption == /\ NoPrompt \notin Prompts
                         /\ NoMessage \notin Messages
                         /\ NoOutcome \notin Outcomes
ASSUME ContextsAssumption == Contexts \subseteq Summary
ASSUME OutagesAssumption == MaxOutages \in Nat

VARIABLES pc,            \* user_message, for each message
          chats,         \* database: chats
          recent,        \* database: chats with a last_shout_ts
          shouts,        \* database: messages
          status,        \* database: is_completed of each prompt
          participants,  \* database: occurrences in participating_subminds
          answers,       \* database: proposed_responses, submind_opinions, votes
          outcome,       \* database: data.winner and data.votes_per_submind
          records,       \* PopularityCounter.__DATA: popularity of each record
          expired,       \* the counter is older than __EXPIRATION_PERIOD
          outages        \* expirations, restarts and failures so far

database == <<chats, recent, shouts, status, participants, answers, outcome>>
counter  == <<records, expired>>
vars == <<pc, database, counter, outages>>

TypeOK ==
    /\ pc \in [Messages -> {"new", "prompted", "sending", "done", "failed",
                            "lost"}]
    /\ chats \in SUBSET Chats
    /\ recent \in SUBSET chats
    /\ shouts \in SUBSET {m \in Messages : ChatOf[m] \in chats}
    /\ status \in [Prompts -> {"absent", "open", "completed"}]
    /\ participants \in [Prompts -> [Users -> Nat]]
    /\ answers \in [Prompts -> [Kept -> [Users -> Messages \cup {NoMessage}]]]
    /\ outcome \in [Prompts -> Summary]
    /\ records \in [Chats -> Seq(Nat)]
    /\ expired \in BOOLEAN
    /\ outages \in 0..MaxOutages

\* The database is empty and last_updated_ts is 0.
Init ==
    /\ pc = [m \in Messages |-> "new"]
    /\ chats = {}
    /\ recent = {}
    /\ shouts = {}
    /\ status = [p \in Prompts |-> "absent"]
    /\ participants = [p \in Prompts |-> [u \in Users |-> 0]]
    /\ answers = [p \in Prompts |-> [st \in Kept |->
                                       [u \in Users |-> NoMessage]]]
    /\ outcome = [p \in Prompts |-> [x \in SummaryKeys |-> NoOutcome]]
    /\ records = [k \in Chats |-> <<>>]
    /\ expired = TRUE
    /\ outages = 0

-----------------------------------------------------------------------------
(***************************************************************************)
(* The popularity counter                                                  *)
(***************************************************************************)
ShoutsIn(k) == {m \in shouts : ChatOf[m] = k}

\* Mutant: init_data lists every recent chat as new.
Recount0 == [k \in Chats |-> IF k \notin recent \/ ShoutsIn(k) = {} THEN <<>>
                             ELSE <<0>>]

\* init_data: one record for each recent chat with messages.
Recount == [k \in Chats |-> IF k \notin recent \/ ShoutsIn(k) = {} THEN <<>>
                            ELSE <<Cardinality(ShoutsIn(k))>>]

\* get_data: the list is computed anew if it is empty or expired.
NeedsInit == expired \/ \A k \in Chats : records[k] = <<>>
CurrentRecords == IF NeedsInit THEN Recount ELSE records

\* The first record of the chat is counted up, or add_new_chat appends one.
CountUp(recs) == IF recs = <<>> THEN <<1>> ELSE [recs EXCEPT ![1] = @ + 1]
Incremented(recs, k) == [recs EXCEPT ![k] = CountUp(@)]

\* increment_cid_popularity
IncrementPopularity(k) ==
    /\ records' = Incremented(CurrentRecords, k)
    /\ expired' = FALSE

\* get_first_n_items
GetFirstItems ==
    /\ records' = CurrentRecords
    /\ expired' = FALSE

\* get_popular_cids
SearchPopular ==
    /\ GetFirstItems
    /\ UNCHANGED <<pc, database, outages>>

\* new_conversation: the chat is stored and add_new_chat appends a record.
NewConversation(k) ==
    /\ k \notin chats
    /\ chats' = chats \cup {k}
    /\ records' = [records EXCEPT ![k] = Append(@, 0)]
    /\ UNCHANGED <<pc, recent, shouts, status, participants, answers, outcome,
                   expired, outages>>

Fail == outages < MaxOutages /\ outages' = outages + 1

\* The chat is stored, the look-up of its name in add_new_chat fails.
FailConversation(k) ==
    /\ Fail
    /\ k \notin chats
    /\ chats' = chats \cup {k}
    /\ UNCHANGED <<pc, recent, shouts, status, participants, answers, outcome,
                   counter>>

-----------------------------------------------------------------------------
(***************************************************************************)
(* Prompts                                                                 *)
(***************************************************************************)

\* new_prompt: the database refuses a second document with the same _id.
NewPrompt(p) ==
    /\ status[p] = "absent"
    /\ status' = [status EXCEPT ![p] = "open"]
    /\ UNCHANGED <<pc, chats, recent, shouts, participants, answers, outcome,
                   counter, outages>>

\* Mutant: what the context does not name is emptied.
SetSummary(p, context) ==
    /\ status[p] # "absent"
    /\ status' = [status EXCEPT ![p] = "completed"]
    /\ outcome' = [outcome EXCEPT ![p] = context]

\* An update of an unknown prompt matches nothing; that of a known one writes
\* the keys of the summary that the context has, whatever was there.
SetCompleted(p, context) ==
    /\ status[p] # "absent"
    /\ status' = [status EXCEPT ![p] = "completed"]
    /\ outcome' = [outcome EXCEPT ![p] = [x \in SummaryKeys |->
                      IF context[x] = NoOutcome THEN @[x] ELSE context[x]]]

PromptCompleted(p, context) ==
    /\ SetCompleted(p, context)
    /\ UNCHANGED <<pc, chats, recent, shouts, participants, answers, counter,
                   outages>>

\* Mutant: everybody who writes to the prompt takes part.
AddWriter(m) ==
    LET p == PromptOf[m]  u == Author[m]
    IN  participants' = IF participants[p][u] = 0
                        THEN [participants EXCEPT ![p][u] = @ + 1]
                        ELSE participants

\* Mutant: whatever its state, the message is kept as a response.
AddResponse(m) ==
    answers' = IF StateOf[m] \in Kept
               THEN [answers EXCEPT ![PromptOf[m]]["RESP"][Author[m]] = m]
               ELSE answers

\* add_shout_to_prompt reads participating_subminds before it pushes; a user
\* whose message is kept replaces what the prompt had.
AddParticipant(m) ==
    LET p == PromptOf[m]  u == Author[m]
    IN  participants' = IF StateOf[m] = "RESP" /\ participants[p][u] = 0
                        THEN [participants EXCEPT ![p][u] = @ + 1]
                        ELSE participants
AddAnswer(m) ==
    answers' = IF StateOf[m] \in Kept
               THEN [answers EXCEPT ![PromptOf[m]][StateOf[m]][Author[m]] = m]
               ELSE answers

\* Mutant: a completed prompt still takes messages.
InKnownPrompt(m) == PromptOf[m] # NoPrompt /\ status[PromptOf[m]] # "absent"

\* is_completed is "0"; announcements count as messages without a prompt.
InOpenPrompt(m) == PromptOf[m] # NoPrompt /\ status[PromptOf[m]] = "open"

\* What fetch_prompt_data attaches to a prompt: those of the messages in its
\* three columns, and of the users who take part, that the database has.
FetchMessagesFromPrompt(p) == {answers[p][st][u] : st \in Kept, u \in Users} \cap shouts
FetchUsersFromPrompt(p) == {u \in Users : participants[p][u] > 0}

-----------------------------------------------------------------------------
(***************************************************************************)
(* user_message, cut at its awaits                                         *)
(***************************************************************************)

\* The chat does not exist: the sender is told and nothing is stored.
RejectMessage(m) ==
    /\ pc[m] = "new"
    /\ ChatOf[m] \notin chats
    /\ pc' = [pc EXCEPT ![m] = "failed"]
    /\ UNCHANGED <<database, counter, outages>>

\* The message is stored, and its chat marked as one with a recent message.
InsertShout(m) == shouts' = shouts \cup {m}
MarkRecent(m) == recent' = recent \cup {ChatOf[m]}
AddShout(m) == InsertShout(m) /\ MarkRecent(m)

\* add_shout and add_shout_to_prompt, up to the first emit.  A prompt state
\* that has no store properties raises an exception (an int has no name), so
\* the message is stored and never announced.
ReceiveMessage(m) ==
    /\ pc[m] = "new"
    /\ ChatOf[m] \in chats
    /\ AddShout(m)
    /\ \/ /\ ~InOpenPrompt(m)
          /\ pc' = [pc EXCEPT ![m] = "sending"]
          /\ UNCHANGED <<participants, answers>>
       \/ /\ InOpenPrompt(m)
          /\ AddParticipant(m)
          /\ AddAnswer(m)
          /\ pc' = [pc EXCEPT ![m] = IF StateOf[m] \in Kept THEN "prompted"
                                     ELSE "failed"]
    /\ UNCHANGED <<chats, status, outcome, counter, outages>>

\* A call of the database fails, or the process is killed, after the message
\* was stored: before its chat is marked, before the prompt is touched, or
\* between the two writes to the prompt.  (save_tts_response, for the speech
\* that comes with a message, does not raise.)
FailReceiving(m) ==
    /\ Fail
    /\ pc[m] = "new"
    /\ ChatOf[m] \in chats
    /\ pc' = [pc EXCEPT ![m] = "failed"]
    /\ InsertShout(m)
    /\ \/ UNCHANGED <<recent, participants>>
       \/ MarkRecent(m) /\ UNCHANGED participants
       \/ MarkRecent(m) /\ InOpenPrompt(m) /\ AddParticipant(m)
    /\ UNCHANGED <<chats, status, answers, outcome, counter>>

\* new_prompt_message is sent, the emit of new_message begins.
AnnounceInPrompt(m) ==
    /\ pc[m] = "prompted"
    /\ pc' = [pc EXCEPT ![m] = "sending"]
    /\ UNCHANGED <<database, counter, outages>>

\* new_message is sent, the message is counted.
CountMessage(m) ==
    /\ pc[m] = "sending"
    /\ pc' = [pc EXCEPT ![m] = "done"]
    /\ IncrementPopularity(ChatOf[m])
    /\ UNCHANGED <<database, outages>>

\* new_message is sent, but init_data cannot read the database, or the list
\* has been computed and the name of the new chat cannot be looked up.
FailCounting(m) ==
    /\ Fail
    /\ pc[m] = "sending"
    /\ pc' = [pc EXCEPT ![m] = "failed"]
    /\ \/ NeedsInit /\ UNCHANGED counter
       \/ CurrentRecords[ChatOf[m]] = <<>> /\ GetFirstItems
    /\ UNCHANGED database

-----------------------------------------------------------------------------
\* An hour has passed.
Expire ==
    /\ Fail
    /\ ~expired
    /\ expired' = TRUE
    /\ UNCHANGED <<pc, database, records>>

Restart ==
    /\ Fail
    /\ records' = [k \in Chats |-> <<>>]
    /\ expired' = TRUE
    /\ pc' = [m \in Messages |-> IF pc[m] \in {"prompted", "sending"}
                                 THEN "lost" ELSE pc[m]]
    /\ UNCHANGED database

Next == \/ \E k \in Chats : NewConversation(k) \/ FailConversation(k)
        \/ \E p \in Prompts : \/ NewPrompt(p)
                              \/ \E context \in Contexts :
                                    PromptCompleted(p, context)
        \/ \E m \in Messages : \/ RejectMessage(m)
                               \/ ReceiveMessage(m)
                               \/ FailReceiving(m)
                               \/ AnnounceInPrompt(m)
                               \/ CountMessage(m)
                               \/ FailCounting(m)
        \/ SearchPopular
        \/ Expire
        \/ Restart

Spec == Init /\ [][Next]_vars
-----------------------------------------------------------------------------
(***************************************************************************)
(* A prompt refers only to messages that were sent by that user to that    *)
(* prompt in that state, and is never filled with the message of a handler *)
(* that has not stored it: fetch_messages_from_prompt resolves every       *)
(* reference, after a restart too.                                         *)
(***************************************************************************)
AnswersStored ==
    \A p \in Prompts, st \in Kept, u \in Users :
        LET m == answers[p][st][u]
        IN  m # NoMessage => /\ m \in FetchMessagesFromPrompt(p)
                             /\ PromptOf[m] = p
                             /\ StateOf[m] = st
                             /\ Author[m] = u

(***************************************************************************)
(* participating_subminds is pushed to, not added to as to a set, and      *)
(* before the response is written, in a call of its own: a user takes part *)
(* once, and takes part if a response of theirs is kept, so that a page    *)
(* names its author.  Who takes part without a response wrote one that is  *)
(* stored, and whose handler failed or was killed between the two writes.  *)
(***************************************************************************)
ParticipateOnce ==
    \A p \in Prompts, u \in Users :
        /\ participants[p][u] <= 1
        /\ answers[p]["RESP"][u] # NoMessage => u \in FetchUsersFromPrompt(p)
        /\ u \in FetchUsersFromPrompt(p) /\ answers[p]["RESP"][u] = NoMessage =>
               \E m \in shouts : /\ pc[m] = "failed"
                                 /\ PromptOf[m] = p
                                 /\ StateOf[m] = "RESP"
                                 /\ Author[m] = u

(***************************************************************************)
(* Once a prompt is completed, what was said in it is final, however late  *)
(* a message for it is handled, and it does not open again.  Its outcome   *)
(* is not: a repeated prompt_completed replaces the winner or the votes;   *)
(* but one that does not name them takes neither away.                     *)
(***************************************************************************)
CompletedIsFinal ==
    [][\A p \in Prompts : status[p] = "completed" =>
           /\ status'[p] = "completed"
           /\ answers'[p] = answers[p]
           /\ participants'[p] = participants[p]
           /\ \A x \in SummaryKeys : outcome[p][x] # NoOutcome =>
                                         outcome'[p][x] # NoOutcome]_vars

(***************************************************************************)
(* increment_cid_popularity looks at the first record of a chat and search *)
(* shows all of them: no interleaving of new chats, messages, expirations  *)
(* and restarts creates two records of one chat.                           *)
(***************************************************************************)
OneRecord == \A k \in Chats : Len(records[k]) <= 1

(***************************************************************************)
(* A message whose handler has finished is counted, and no message is      *)
(* counted more than twice: once by init_data, which finds it in the       *)
(* database, and once by its own handler.                                  *)
(***************************************************************************)
DoneIn(k) == {m \in Messages : pc[m] = "done" /\ ChatOf[m] = k}
Popularity(k) == IF CurrentRecords[k] = <<>> THEN 0 ELSE CurrentRecords[k][1]
PopularityBounds ==
    \A k \in Chats :
        /\ Cardinality(DoneIn(k)) <= Popularity(k)
        /\ Popularity(k) <= Cardinality(ShoutsIn(k)) + Cardinality(DoneIn(k))

(***************************************************************************)
(* init_data: popularity "considers length of number of message container  *)
(* under given conversation", the number of its messages, at least when no *)
(* message is being handled.                                               *)
(***************************************************************************)
PopularityIsLength ==
    (\A m \in Messages : pc[m] \in {"new", "done"}) =>
        \A k \in Chats : Popularity(k) = Cardinality(ShoutsIn(k))

(***************************************************************************)
(* add_shout_to_prompt: a user who "tried to duplicate data" in a prompt   *)
(* does not succeed.                                                       *)
(***************************************************************************)
NoDuplicateData ==
    [][\A p \in Prompts, st \in Kept, u \in Users :
           answers[p][st][u] # NoMessage =>
               answers'[p][st][u] = answers[p][st][u]]_vars
=============================================================================
