------------------------------- MODULE History -------------------------------
(***************************************************************************)
(* The history of one chat on one client: the server's pages               *)
(* (get_matching_conversation, fetch_message_data), the card that shows    *)
(* them and loads older ones when it is scrolled to its top                *)
(* (chat_utils.js, message_utils.js), and the live messages and prompts    *)
(* that arrive meanwhile (sio.js).                                         *)
(*                                                                         *)
(* The client remembers in IndexedDB the creation time of the oldest item  *)
(* it received last (chat_messages_pagination) and asks for messages that  *)
(* are older.  The server picks the newest messages; in the prompts skin   *)
(* it then replaces those that belong to a prompt by the prompt, which is  *)
(* shown as a table with a row for each participant.                       *)
(*                                                                         *)
(* A client's handler runs to its next await.  The order and the number of *)
(* times in which an item stands on the card are not modelled.             *)
(***************************************************************************)
EXTENDS Integers, FiniteSets

CONSTANTS Messages,
          Prompts,
          NoPrompt,      \* prompt_id = ""
          PromptOf,      \* [Messages -> Prompts \cup {NoPrompt}]
          Skins,         \* the skins in which the user opens the chat
          FirstPage,     \* limit_chat_history of displayConversation
          OlderPage,     \* [Skins -> Nat], limit_chat_history of addOldMessages
          Loads,         \* bound on loads of older messages under way
          MaxCreated,    \* bound on created_on; 0 stands for none
          MaxOpens       \* bound on the number of times the chat is opened

ASSUME PromptsAssumption == /\ NoPrompt \notin Prompts
                            /\ PromptOf \in [Messages -> Prompts \cup {NoPrompt}]
ASSUME SkinsAssumption == Skins \subseteq {"base", "prompts"}
ASSUME FiniteAssumption == IsFiniteSet(Messages) /\ IsFiniteSet(Prompts)
ASSUME PagesAssumption == /\ FirstPage \in Nat \ {0}
                          /\ OlderPage \in [Skins -> Nat \ {0}]
ASSUME BoundsAssumption == MaxCreated \in Nat /\ MaxOpens \in Nat

VARIABLES created,        \* database: created_on of each message
          promptCreated,  \* database: created_on of each prompt
          joined,         \* database: prompts with participating_subminds
          recorded,       \* database: messages that their prompt refers to
          card,           \* the card: its stage, its skin and its first page
          opens,          \* how often the chat was opened
          plain,          \* messages that stand on the card on their own
          tables,         \* prompts that stand on the card
          rows,           \* messages that stand in the table of their prompt
          mark,           \* chat_messages_pagination: oldest_created_on
          allDisplayed,   \* conversationState: all_messages_displayed
          updating,       \* conversationState: state
          loads,          \* handlers of the scroll event
          unseen,         \* history: announced when the card could not show them
          strayed,        \* history: a load of an earlier card changed this one
          broken          \* history: a load of this card failed

database == <<created, promptCreated, joined, recorded>>
screen == <<plain, tables, rows>>
history == <<unseen, strayed, broken>>
historyVars == <<database, card, opens, screen, mark, allDisplayed, updating,
                 loads, history>>

Times == 0..MaxCreated
Page == [plain : SUBSET Messages, prompts : SUBSET Prompts]
EmptyPage == [plain |-> {}, prompts |-> {}]
NoLoad == [stage |-> "idle", card |-> 0, skin |-> "base", before |-> 0,
           page |-> EmptyPage]

HistoryTypeOK ==
    /\ created \in [Messages -> Times]
    /\ promptCreated \in [Prompts -> Times]
    /\ joined \subseteq {p \in Prompts : promptCreated[p] > 0}
    /\ recorded \subseteq {m \in Messages : PromptOf[m] \in joined}
    /\ card \in [stage : {"none", "asked", "served", "shown"},
                 skin : {"base", "prompts"}, page : Page]
    /\ Cardinality(card.page.plain) <= FirstPage
    /\ opens \in 0..MaxOpens
    /\ plain \subseteq {m \in Messages : created[m] > 0}
    /\ tables \subseteq {p \in Prompts : promptCreated[p] > 0}
    /\ rows \subseteq {m \in recorded : PromptOf[m] \in tables}
    /\ mark \in Times
    /\ allDisplayed \in BOOLEAN /\ updating \in BOOLEAN
    /\ loads \in [Loads -> [stage : {"idle", "asked", "served", "settling"},
                            card : 0..MaxOpens, skin : {"base", "prompts"},
                            before : Times, page : Page]]
    /\ \A l \in Loads : loads[l].stage = "served" =>
          Cardinality(loads[l].page.plain) <= OlderPage[loads[l].skin]
    /\ unseen \subseteq Messages
    /\ strayed \in BOOLEAN /\ broken \in BOOLEAN

Shown == card.stage = "shown"

\* Any history of messages and prompts; no chat is on the page.
HistoryInit ==
    /\ created \in [Messages -> Times]
    /\ promptCreated \in [Prompts -> Times]
    /\ joined \in SUBSET {p \in Prompts : promptCreated[p] > 0}
    /\ recorded \in SUBSET {m \in Messages : PromptOf[m] \in joined
                                             /\ created[m] > 0}
    /\ card = [stage |-> "none", skin |-> "base", page |-> EmptyPage]
    /\ opens = 0
    /\ plain = {} /\ tables = {} /\ rows = {}
    /\ mark = 0
    /\ allDisplayed = FALSE /\ updating = FALSE
    /\ loads = [l \in Loads |-> NoLoad]
    /\ unseen = {} /\ strayed = FALSE /\ broken = FALSE

-----------------------------------------------------------------------------
(***************************************************************************)
(* The server's pages                                                      *)
(***************************************************************************)
Stored == {m \in Messages : created[m] > 0}
Older(before) == {m \in Stored : before = 0 \/ created[m] < before}

Smaller(a, b) == IF a <= b THEN a ELSE b

\* Mutant: the limit of the query is ignored.
Unlimited(S, n) == {S}

\* Mutant: the messages are ordered by their age.
Eldest(S, n) ==
    {T \in SUBSET S : /\ Cardinality(T) = Smaller(n, Cardinality(S))
                      /\ \A a \in T, b \in S \ T : created[a] <= created[b]}

\* fetch_shout_data: the n newest of S; the database chooses among equals.
NewestOf(S, n) ==
    {T \in SUBSET S : /\ Cardinality(T) = Smaller(n, Cardinality(S))
                      /\ \A a \in T, b \in S \ T : created[a] >= created[b]}

\* fetch_prompt_data: an empty list of prompt ids is no filter.
Created == {p \in Prompts : promptCreated[p] > 0}
Fetched(T) ==
    LET detected == {PromptOf[m] : m \in T} \ {NoPrompt}
    IN  IF detected = {} THEN Created ELSE detected \cap Created

\* fetch_message_data
PageOf(T, skin) ==
    LET prompts == IF skin = "prompts" THEN Fetched(T) ELSE {}
    IN  [plain |-> {m \in T : PromptOf[m] \notin prompts}, prompts |-> prompts]

\* A prompt without participating_subminds raises a KeyError.
Readable(page) == page.prompts \subseteq joined

\* The answers to a request for at most n messages older than before.
Answers(before, n, skin) ==
    {page \in {PageOf(T, skin) : T \in NewestOf(Older(before), n)} : Readable(page)}

-----------------------------------------------------------------------------
(***************************************************************************)
(* What the client does with a page                                        *)
(***************************************************************************)
TimesOf(page) == {created[m] : m \in page.plain}
                 \cup {promptCreated[p] : p \in page.prompts}

\* initPagination: the oldest item of the page, if it has one.
MarkAfter(page) ==
    IF page = EmptyPage THEN mark
    ELSE CHOOSE t \in TimesOf(page) : \A u \in TimesOf(page) : t <= u

\* buildPromptHTML: fetch_prompt_data has replaced the ids of the participants
\* by their nicknames, under which neither user_mapping nor the answers of the
\* prompt know them, so that all cells of the new table are empty.
RowsOf(prompts) == {}

\* Mutant: prompts do not count as messages.
NoPlain(page) == page.plain = {}

\* getConversationDataByInput: nothing came, so everything is displayed.
NothingCame(page) == page = EmptyPage

-----------------------------------------------------------------------------
(***************************************************************************)
(* Opening and closing the chat                                            *)
(***************************************************************************)

\* displayConversation: the chat is not on the page.
DisplayConversation(skin) ==
    /\ card.stage = "none" /\ opens < MaxOpens
    /\ card' = [stage |-> "asked", skin |-> skin, page |-> EmptyPage]
    /\ opens' = opens + 1
    /\ unseen' = {} /\ broken' = FALSE
    /\ UNCHANGED <<database, screen, mark, allDisplayed, updating, loads, strayed>>

\* get_matching_conversation
ServeFirst ==
    /\ card.stage = "asked"
    /\ \E page \in Answers(0, FirstPage, card.skin) :
         /\ card' = [card EXCEPT !.stage = "served", !.page = page]
         /\ allDisplayed' = (allDisplayed \/ NothingCame(page))
    /\ UNCHANGED <<database, opens, screen, mark, updating, loads, history>>

\* The server or the network failed: "Cannot find conversation".
FailFirst ==
    /\ card.stage = "asked"
    /\ card' = [card EXCEPT !.stage = "none"]
    /\ UNCHANGED <<database, opens, screen, mark, allDisplayed, updating, loads,
                   history>>

\* buildConversation, after the HTML of all items was built, and initMessages
BuildConversation ==
    /\ card.stage = "served"
    /\ card' = [card EXCEPT !.stage = "shown", !.page = EmptyPage]
    /\ plain' = card.page.plain
    /\ tables' = card.page.prompts
    /\ rows' = RowsOf(card.page.prompts)
    /\ mark' = MarkAfter(card.page)
    /\ updating' = FALSE
    /\ UNCHANGED <<database, opens, allDisplayed, loads, history>>

\* The close button: removeChild, removeConversation and clearStateCache.
CloseChat ==
    /\ Shown
    /\ card' = [card EXCEPT !.stage = "none"]
    /\ plain' = {} /\ tables' = {} /\ rows' = {}
    /\ mark' = 0
    /\ allDisplayed' = FALSE /\ updating' = FALSE
    /\ strayed' = FALSE
    /\ UNCHANGED <<database, opens, loads, unseen, broken>>

-----------------------------------------------------------------------------
(***************************************************************************)
(* Loading older messages                                                  *)
(***************************************************************************)

\* The scroll event at the top of the card, up to the request; without a
\* mark addOldMessages asks for nothing.
Scroll(l) ==
    /\ Shown /\ ~allDisplayed
    /\ loads[l].stage = "idle"
    /\ loads' = [loads EXCEPT ![l] =
                   [stage |-> IF mark = 0 THEN "settling" ELSE "asked",
                    card |-> opens, skin |-> card.skin, before |-> mark,
                    page |-> EmptyPage]]
    /\ updating' = TRUE
    /\ UNCHANGED <<database, card, opens, screen, mark, allDisplayed, history>>

Stray(l) == loads[l].card # opens \/ ~Shown

\* get_matching_conversation, with creation_time_from
ServeOlder(l) ==
    /\ loads[l].stage = "asked"
    /\ \E page \in Answers(loads[l].before, OlderPage[loads[l].skin],
                           loads[l].skin) :
         /\ loads' = [loads EXCEPT ![l].stage = "served", ![l].page = page]
         /\ allDisplayed' = (allDisplayed \/ NothingCame(page))
         /\ strayed' = (strayed \/ (Stray(l) /\ NothingCame(page)))
    /\ UNCHANGED <<database, card, opens, screen, mark, updating, unseen, broken>>

\* The server or the network failed: initMessages({}) throws, and nobody
\* resets the state of the chat.
FailOlder(l) ==
    /\ loads[l].stage = "asked"
    /\ loads' = [loads EXCEPT ![l] = NoLoad]
    /\ broken' = (broken \/ ~Stray(l))
    /\ UNCHANGED <<database, card, opens, screen, mark, allDisplayed, updating,
                   unseen, strayed>>

\* addOldMessages puts the page on its card, and initMessages moves the mark.
AddOldMessages(l) ==
    /\ loads[l].stage = "served" /\ ~Stray(l)
    /\ plain' = plain \cup loads[l].page.plain
    /\ tables' = tables \cup loads[l].page.prompts
    /\ rows' = rows \cup RowsOf(loads[l].page.prompts \ tables)
    /\ mark' = MarkAfter(loads[l].page)
    /\ loads' = [loads EXCEPT ![l].stage = "settling", ![l].page = EmptyPage]
    /\ UNCHANGED <<database, card, opens, allDisplayed, updating, history>>

\* The same for a card that was closed: its elements are in no document.
\* initMessages throws unless the chat is open again and all prompts of the
\* page stand on the new card, whose mark it then moves.
AddToClosed(l) ==
    /\ loads[l].stage = "served" /\ Stray(l)
    /\ LET page == loads[l].page
       IN  IF Shown /\ page.prompts \subseteq tables
           THEN /\ mark' = MarkAfter(page)
                /\ strayed' = (strayed \/ mark' # mark)
                /\ loads' = [loads EXCEPT ![l].stage = "settling",
                                          ![l].page = EmptyPage]
           ELSE /\ loads' = [loads EXCEPT ![l] = NoLoad]
                /\ UNCHANGED <<mark, strayed>>
    /\ UNCHANGED <<database, card, opens, screen, allDisplayed, updating,
                   unseen, broken>>

\* Mutant: the timer forgets the state of the chat.
SettleQuietly(l) ==
    /\ loads[l].stage = "settling"
    /\ loads' = [loads EXCEPT ![l] = NoLoad]
    /\ UNCHANGED <<database, card, opens, screen, mark, allDisplayed, updating,
                   history>>

\* The timer of the scroll handler: setChatState(cid, "active").
Settle(l) ==
    /\ loads[l].stage = "settling"
    /\ loads' = [loads EXCEPT ![l] = NoLoad]
    /\ updating' = FALSE
    /\ UNCHANGED <<database, card, opens, screen, mark, allDisplayed, history>>

-----------------------------------------------------------------------------
(***************************************************************************)
(* Live messages and prompts                                               *)
(***************************************************************************)

\* new_prompt, and new_prompt_created on the client
NewPrompt(p, t) ==
    /\ promptCreated[p] = 0
    /\ promptCreated' = [promptCreated EXCEPT ![p] = t]
    /\ tables' = IF Shown /\ card.skin = "prompts" THEN tables \cup {p}
                 ELSE tables
    /\ UNCHANGED <<created, joined, recorded, card, opens, plain, rows,
                   mark, allDisplayed, updating, loads, history>>

\* user_message stores a message; its prompt may record it, and its first
\* response makes the author a participant.  On the client new_message skips
\* the messages of prompts in the prompts skin, and new_prompt_message needs
\* the table of the prompt.
UserMessage(m, t) ==
    /\ created[m] = 0
    /\ created' = [created EXCEPT ![m] = t]
    /\ \E kept \in BOOLEAN :
         /\ kept => PromptOf[m] \in Created
         /\ recorded' = IF kept THEN recorded \cup {m} ELSE recorded
         /\ joined' = IF kept THEN joined \cup {PromptOf[m]} ELSE joined
         /\ LET alone == Shown /\ (card.skin = "base" \/ PromptOf[m] = NoPrompt)
                within == Shown /\ card.skin = "prompts" /\ kept
                          /\ PromptOf[m] \in tables
            IN  /\ plain' = IF alone THEN plain \cup {m} ELSE plain
                /\ rows' = IF within THEN rows \cup {m} ELSE rows
                /\ unseen' = IF card.stage \in {"served", "shown"}
                                /\ ~alone /\ ~within
                             THEN unseen \cup {m} ELSE unseen
    /\ UNCHANGED <<promptCreated, card, opens, tables, mark, allDisplayed,
                   updating, loads, strayed, broken>>

HistoryNext ==
    \/ \E skin \in Skins : DisplayConversation(skin)
    \/ ServeFirst \/ FailFirst \/ BuildConversation \/ CloseChat
    \/ \E l \in Loads : \/ Scroll(l) \/ ServeOlder(l) \/ FailOlder(l)
                        \/ AddOldMessages(l) \/ AddToClosed(l) \/ Settle(l)
    \/ \E t \in 1..MaxCreated : \/ \E p \in Prompts : NewPrompt(p, t)
                             \/ \E m \in Messages : UserMessage(m, t)

HistorySpec == HistoryInit /\ [][HistoryNext]_historyVars

-----------------------------------------------------------------------------
(***************************************************************************)
(* Properties                                                              *)
(***************************************************************************)

\* m can be read on the card.
Visible(m) == m \in plain \cup rows

\* Why a message may be missing: the card could not show it when it was
\* announced; the table of its prompt stands for it, without its text; it was
\* stored in the same second as a message on the card; it is not older than a
\* prompt on the card; or a load of a closed card moved the mark.
Listed(m) == PromptOf[m] \in tables
SameSecond(m) == \E v \in Messages : /\ v # m /\ created[v] = created[m]
                                     /\ Visible(v) \/ Listed(v)
AfterPrompt(m) == \E p \in tables : promptCreated[p] <= created[m]
Accounted(m) == \/ Visible(m)
                \/ m \in unseen
                \/ SameSecond(m)
                \/ card.skin = "prompts" /\ (Listed(m) \/ AfterPrompt(m))
                \/ strayed

\* Paging leaves no holes but the listed ones: a message that is not older
\* than the mark, so that no further page will bring it, is on the card.
NoUnknownGaps ==
    Shown => \A m \in Stored : mark # 0 /\ created[m] >= mark => Accounted(m)

\* When the client stops asking for older messages (all_messages_displayed),
\* it has all of them.
EndIsComplete ==
    Shown /\ allDisplayed => \A m \in Stored : Accounted(m)

\* A chat that is shown as loading has a handler under way that will make it
\* active again, unless a request failed.
LoadingHasCause ==
    Shown /\ updating => broken \/ \E l \in Loads : loads[l].stage # "idle"

\* "Gets list of the next n-older messages": a message that is not older than
\* the mark and shares its second with no other was got.
NextOlder ==
    Shown /\ mark # 0 =>
       \A m \in Stored \ unseen :
          /\ created[m] >= mark
          /\ \A v \in Stored \ {m} : created[v] # created[m]
          => Visible(m) \/ Listed(m)

\* fetch_prompt_data "returns list of matching prompt data along with matching
\* messages and users": the table of a prompt shows what the prompt recorded.
PromptAnswers ==
    Shown => \A m \in recorded \ unseen : PromptOf[m] \in tables => m \in rows
=============================================================================
