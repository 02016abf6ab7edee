----------------------------- MODULE ChatLayout -----------------------------
(***************************************************************************)
(* The chats on the page and the layout that is kept of them in the        *)
(* browser's database (chat_client/static/js/chat_utils.js): cards are     *)
(* opened by a search or a suggestion, by creating a chat, as the live     *)
(* chat, and from the layout when the page is loaded; they are closed, or  *)
(* opened again in the other skin.                                         *)
(*                                                                         *)
(* A handler runs to its next await: the answer of the server, then the    *)
(* row and the HTML of the card, then the card's recorder and selectors,   *)
(* after which its buttons work.  IndexedDB runs writes to one table in    *)
(* the order in which they were issued, so a row changes when its write is *)
(* issued.                                                                 *)
(***************************************************************************)
EXTENDS Naturals, FiniteSets

CONSTANTS Handlers,   \* bound on handlers under way and cards at a time
          Chats,
          NewChats,   \* those that are created while we watch
          PageLimit   \* MAX_CONVERSATIONS_PER_PAGE

ASSUME ChatsAssumption == NewChats \subseteq Chats
ASSUME LimitAssumption == PageLimit \in Nat

VARIABLES job,        \* what each handler does, or the card that it has built
          layout,       \* chat_alignment: the skin of each chat in the layout
          loaded,     \* restoreChatAlignment has begun
          toRestore,  \* cachedItems that are still to be restored
          made,       \* new chats that exist by now
          doubled,    \* history: chats that two handlers opened at a time
          forsaken    \* history: rows that this page cannot show

layoutVars == <<job, layout, loaded, toRestore, made, doubled, forsaken>>

CardSkins == {"base", "prompts"}
NoSkin == "none"
Kinds == {"search", "new", "live", "restore"}
OnPage == {"shown", "bare", "ready"}  \* the buttons do not work yet, never, do
Opening == {"building"} \cup OnPage
Row == [chat : Chats, skin : CardSkins]
Idle == [at |-> "idle"]
Job == [at : {"asked"} \cup Opening, kind : Kinds, chat : Chats, skin : CardSkins]

\* The handlers for chat k at one of the stages.
Of(k, stages) == {h \in Handlers : job[h].at \in stages /\ job[h].chat = k}
Cards == {h \in Handlers : job[h].at \in OnPage}
Existing == (Chats \ NewChats) \cup made
Restoring == {h \in Handlers : job[h].at \in {"asked", "building", "shown"}
                               /\ job[h].kind = "restore"}
Pending(k) == \/ \E i \in toRestore : i.chat = k
              \/ Restoring \cap Of(k, {"asked"}) # {}

LayoutTypeOK ==
    /\ job \in [Handlers -> Job \cup {Idle}]
    /\ layout \in [Chats -> CardSkins \cup {NoSkin}]
    /\ loaded \in BOOLEAN
    /\ toRestore \subseteq Row
    /\ made \subseteq NewChats /\ doubled \subseteq Chats /\ forsaken \subseteq Chats
    /\ \A g, h \in Restoring : g = h

LayoutInit ==
    /\ job = [h \in Handlers |-> Idle]
    /\ layout = [k \in Chats |-> NoSkin]
    /\ loaded = FALSE /\ toRestore = {}
    /\ made = {} /\ doubled = {} /\ forsaken = {}

-----------------------------------------------------------------------------
Ask(h, kind, k, s) ==
    job' = [job EXCEPT ![h] = [at |-> "asked", kind |-> kind, chat |-> k, skin |-> s]]

\* displayConversation up to its fetch, from a search or a suggestion: only
\* here is the number of cards looked at, and only for being the limit.
SearchChat(h, k) ==
    /\ job[h] = Idle
    /\ k \in Existing
    /\ Cardinality(Cards) # PageLimit
    /\ Ask(h, "search", k, "prompts")
    /\ UNCHANGED <<layout, loaded, toRestore, made, doubled, forsaken>>

\* createNewConversation
Create(h, k) ==
    /\ job[h] = Idle
    /\ k \in NewChats \ made
    /\ made' = made \cup {k}
    /\ Ask(h, "new", k, "prompts")
    /\ UNCHANGED <<layout, loaded, toRestore, doubled, forsaken>>

\* restoreChatAlignment: the live chat on the live page or for an empty
\* layout, else its rows as they are now.
RestoreLive(h, k) ==
    /\ ~loaded /\ loaded' = TRUE
    /\ job[h] = Idle
    /\ k \in Existing
    /\ Ask(h, "live", k, "prompts")
    /\ forsaken' = forsaken \cup {c \in Chats : layout[c] # NoSkin /\ Of(c, Opening) = {}}
    /\ UNCHANGED <<layout, toRestore, made, doubled>>

RestoreFromCache ==
    /\ ~loaded /\ loaded' = TRUE
    /\ \E k \in Chats : layout[k] # NoSkin
    /\ toRestore' = {i \in Row : i.skin = layout[i.chat]}
    /\ doubled' = doubled \cup {k \in Chats : layout[k] # NoSkin /\ Of(k, Opening) # {}}
    /\ UNCHANGED <<job, layout, made, forsaken>>

\* Mutant: the loop does not wait for the card before.
RestoreAtOnce(h, i) ==
    /\ job[h] = Idle
    /\ i \in toRestore
    /\ toRestore' = toRestore \ {i}
    /\ Ask(h, "restore", i.chat, i.skin)
    /\ UNCHANGED <<layout, loaded, made, doubled, forsaken>>

\* restoreChatAlignmentFromCache: one pass of its loop
RestoreNext(h, i) ==
    /\ job[h] = Idle
    /\ Restoring = {}
    /\ i \in toRestore
    /\ toRestore' = toRestore \ {i}
    /\ Ask(h, "restore", i.chat, i.skin)
    /\ UNCHANGED <<layout, loaded, made, doubled, forsaken>>

-----------------------------------------------------------------------------
\* buildConversation as far as the card's HTML; rivals are the stages of
\* other handlers that its caller does not look at.
Build(h, rivals) ==
    LET k == job[h].chat
    IN /\ job' = [job EXCEPT ![h].at = "building"]
       /\ layout' = IF job[h].kind # "restore" THEN [layout EXCEPT ![k] = job[h].skin] ELSE layout
       /\ doubled' = IF Of(k, rivals) # {} \/ (job[h].kind # "restore" /\ Pending(k))
                     THEN doubled \cup {k} ELSE doubled

\* Mutant: a chat that is displayed is opened again.
OpenAnyFound(h) ==
    /\ job[h].at = "asked" /\ job[h].kind = "search"
    /\ Build(h, {"building"})
    /\ UNCHANGED <<loaded, toRestore, made, forsaken>>

\* displayConversation after its fetch
OpenFound(h) ==
    /\ job[h].at = "asked" /\ job[h].kind = "search"
    /\ IF Of(job[h].chat, OnPage) = {}
       THEN Build(h, {"building"})
       ELSE job' = [job EXCEPT ![h] = Idle] /\ UNCHANGED <<layout, doubled>>
    /\ UNCHANGED <<loaded, toRestore, made, forsaken>>

\* createNewConversation, displayLiveChat and the restoring loop after theirs
OpenUnseen(h) ==
    /\ job[h].at = "asked" /\ job[h].kind # "search"
    /\ Build(h, Opening)
    /\ UNCHANGED <<loaded, toRestore, made, forsaken>>

\* The fetch fails or finds nothing: a chat that cannot be restored is removed.
NotFound(h) ==
    /\ job[h].at = "asked"
    /\ job' = [job EXCEPT ![h] = Idle]
    /\ layout' = IF job[h].kind = "restore" THEN [layout EXCEPT ![job[h].chat] = NoSkin] ELSE layout
    /\ UNCHANGED <<loaded, toRestore, made, doubled, forsaken>>

\* The card is inserted.
Show(h) ==
    /\ job[h].at = "building"
    /\ job' = [job EXCEPT ![h].at = "shown"]
    /\ forsaken' = forsaken \ {job[h].chat}
    /\ UNCHANGED <<layout, loaded, toRestore, made, doubled>>

\* Its template cannot be fetched: buildConversation fails at the card that is
\* not there, and with it the loop of restoreChatAlignmentFromCache.
FailToShow(h) ==
    /\ job[h].at = "building"
    /\ job' = [job EXCEPT ![h] = Idle]
    /\ LET given == IF job[h].kind = "restore" THEN toRestore ELSE {}
       IN /\ toRestore' = toRestore \ given
          /\ forsaken' = forsaken \cup {job[h].chat} \cup {i.chat : i \in given}
    /\ UNCHANGED <<layout, loaded, made, doubled>>

\* A template of initLanguageSelectors cannot be fetched, after the card was
\* inserted: its buttons never work, and the loop ends here as well.
FailToAttach(h) ==
    /\ job[h].at = "shown"
    /\ job' = [job EXCEPT ![h].at = "bare"]
    /\ LET given == IF job[h].kind = "restore" THEN toRestore ELSE {}
       IN /\ toRestore' = toRestore \ given
          /\ forsaken' = forsaken \cup {i.chat : i \in given}
    /\ UNCHANGED <<layout, loaded, made, doubled>>

\* The end of buildConversation: the buttons of the card work.
Attach(h) ==
    /\ job[h].at = "shown"
    /\ job' = [job EXCEPT ![h].at = "ready"]
    /\ UNCHANGED <<layout, loaded, toRestore, made, doubled, forsaken>>

\* Mutant: the row stays.
CloseCard(h) ==
    /\ job[h].at = "ready"
    /\ job' = [job EXCEPT ![h] = Idle]
    /\ UNCHANGED <<layout, loaded, toRestore, made, doubled, forsaken>>

\* The close button
Close(h) ==
    /\ job[h].at = "ready"
    /\ job' = [job EXCEPT ![h] = Idle]
    /\ layout' = [layout EXCEPT ![job[h].chat] = NoSkin]
    /\ UNCHANGED <<loaded, toRestore, made, doubled, forsaken>>

\* The buttons of the modes: the card is closed and displayConversation called.
SwitchSkin(h) ==
    /\ job[h].at = "ready"
    /\ layout' = [layout EXCEPT ![job[h].chat] = NoSkin]
    /\ IF Cardinality(Cards \ {h}) # PageLimit
       THEN \E s \in CardSkins \ {job[h].skin} : Ask(h, "search", job[h].chat, s)
       ELSE job' = [job EXCEPT ![h] = Idle]
    /\ UNCHANGED <<loaded, toRestore, made, doubled, forsaken>>

\* The page is left or reloaded: only the layout survives.
Reload ==
    /\ job' = [h \in Handlers |-> Idle]
    /\ loaded' = FALSE /\ toRestore' = {}
    /\ doubled' = {} /\ forsaken' = {}
    /\ UNCHANGED <<layout, made>>

LayoutNext ==
    \/ \E h \in Handlers :
          \/ \E k \in Chats : SearchChat(h, k) \/ Create(h, k) \/ RestoreLive(h, k)
          \/ \E i \in toRestore : RestoreNext(h, i)
          \/ OpenFound(h) \/ OpenUnseen(h) \/ NotFound(h)
          \/ Show(h) \/ FailToShow(h) \/ Attach(h) \/ FailToAttach(h)
          \/ Close(h) \/ SwitchSkin(h)
    \/ RestoreFromCache
    \/ Reload

LayoutSpec == LayoutInit /\ [][LayoutNext]_layoutVars
-----------------------------------------------------------------------------
(***************************************************************************)
(* The layout is the page.  A chat has one card, in the skin that its row  *)
(* says; a row has a card, a handler that builds it or is to restore it.   *)
(* Two kinds of chats are excepted: those that two handlers opened at a    *)
(* time (isDisplayed is asked before the awaits of buildConversation, and  *)
(* by displayConversation only), and rows that the page cannot show (a     *)
(* card whose template failed, the rest of a loop that ended with a        *)
(* template of a card, the live page).                                     *)
(***************************************************************************)
LayoutAgrees ==
    \A k \in Chats \ doubled :
        /\ \A g, h \in Of(k, Opening) : g = h
        /\ \A h \in Of(k, Opening) : layout[k] = job[h].skin
        /\ layout[k] # NoSkin /\ loaded =>
              Of(k, Opening) # {} \/ Pending(k) \/ k \in forsaken

(***************************************************************************)
(* What the alert of displayConversation says: "Up to                      *)
(* MAX_CONVERSATIONS_PER_PAGE allowed per page".                           *)
(***************************************************************************)
PageLimitKept == Cardinality(Cards) <= PageLimit
=============================================================================
