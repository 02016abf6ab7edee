------------------------------- MODULE Chats -------------------------------
(***************************************************************************)
(* The chats of the server and how they are found: /chat_api/new, /search  *)
(* and /live (blueprints/chat.py), /admin/chats/list (blueprints/admin.py) *)
(* and ChatsDAO; and the queries for the messages and prompts of a chat.   *)
(*                                                                         *)
(* Every handler runs on the event loop and does not await between its     *)
(* queries, so it is one step.  Handlers that only read are operators.     *)
(***************************************************************************)
EXTENDS Queries

CONSTANTS Names,     \* names of chats that are nobody's id
          GlobalName,
          Users, Admins,
          External,  \* creator of the first chat, not a user
          Within,    \* pairs of texts, the first one a part of the second one
          OverviewLimit, \* 100, of chats_overview
          MaxChats, MaxItems, MaxTime

\* Ids are random; the model counts them.  A text may be the id of a chat.
Texts == Names \cup 1..MaxChats

ASSUME WithinAssumption == Within \subseteq Texts \X Texts
ASSUME NamesAssumption == GlobalName \in Names /\ Names \cap Nat = {}
ASSUME UsersAssumption == Admins \subseteq Users /\ External \notin Users
ASSUME OverviewAssumption == OverviewLimit \in Nat \ {0}
ASSUME BoundAssumption == MaxChats \in Nat \ {0} /\ MaxItems \in Nat /\ MaxTime \in Nat

VARIABLES chats,  \* database: chats, in the order in which they were stored
          items,  \* database: messages or prompts, which are asked for alike
          now

vars == <<chats, items, now>>

TypeOK ==
    /\ chats \in Seq([_id : 1..MaxChats, conversation_name : Texts, is_private : BOOLEAN,
                      is_live_conversation : BOOLEAN, creator : Users \cup {External},
                      created_on : 0..MaxTime])
    /\ Len(chats) \in 1..MaxChats
    /\ \A i \in 1..Len(chats) : chats[i]._id = i
    /\ items \in Seq([_id : 1..MaxItems, cid : 1..MaxChats, created_on : 1..MaxTime])
    /\ \A i \in 1..Len(items) : items[i]._id = i
    /\ now \in 0..MaxTime

\* The chat "Global", with id "1", comes with the database.
Global == [_id |-> 1, conversation_name |-> GlobalName, is_private |-> FALSE,
           is_live_conversation |-> FALSE, creator |-> External, created_on |-> 0]

Init == chats = <<Global>> /\ items = <<>> /\ now = 0

-----------------------------------------------------------------------------
(***************************************************************************)
(* ChatsDAO                                                                *)
(***************************************************************************)

\* Mutant: the list of alternatives starts anew for each column.
MatchingLastColumn(text, columns, regex) ==
    OrList({[field |-> columns[Len(columns)],
             how |-> IF regex THEN "contains" ELSE "is", value |-> text]})

\* _create_matching_chat_filters: any of the columns has the text.  A search
\* by regular expression compiles the text for the first column and, what it
\* compiled, as a text again for the next one, which nothing contains.
MatchingChatFilter(text, columns, regex) ==
    LET how(i) == IF ~regex THEN "is" ELSE IF i = 1 THEN "contains" ELSE "nothing"
    IN  OrList({[field |-> columns[i], how |-> how(i), value |-> text]
                  : i \in 1..Len(columns)})

\* _create_privacy_filters: a dictionary, where MongoDB would want a list.
PrivacyFilter(user) == OrDict([is_private |-> FALSE, creator |-> user])

\* Mutant: the privacy filter comes first.
ChatFiltersSwapped(text, columns, regex, user) ==
    <<PrivacyFilter(user), MatchingChatFilter(text, columns, regex)>>

\* Mutant: only chats of the user are looked at.
ChatFiltersOwn(text, columns, regex, user) ==
    <<Equal("creator", user), MatchingChatFilter(text, columns, regex)>>

\* get_chats for a user.
ChatFilters(text, columns, regex, user) ==
    <<MatchingChatFilter(text, columns, regex), PrivacyFilter(user)>>

\* get_chat: the first one, if there is one.
GetChat(text, columns, user) ==
    First(chats, ChatFilters(text, columns, FALSE, user), Within)

\* Whether it finds one for a name.
Known(name, user) ==
    Found(chats, ChatFilters(name, <<"conversation_name">>, FALSE, user), Within) # {}

-----------------------------------------------------------------------------
(***************************************************************************)
(* The blueprints                                                          *)
(***************************************************************************)

\* new_conversation refuses a name that it finds, and live chats of users
\* that are not administrators.
NewConversation(user, name, is_private, is_live) ==
    /\ Len(chats) < MaxChats
    /\ ~Known(name, user)
    /\ is_live => user \in Admins
    /\ chats' = Append(chats,
                  [_id |-> Len(chats) + 1, conversation_name |-> name,
                   is_private |-> is_private, is_live_conversation |-> is_live,
                   creator |-> user, created_on |-> now])
    /\ UNCHANGED <<items, now>>

\* get_matching_conversation
Search(text, user) == GetChat(text, <<"_id", "conversation_name">>, user)

\* Mutant: the overview ends one chat too early.
OverviewShort(text) ==
    Leading(chats, <<MatchingChatFilter(text, <<"_id", "conversation_name">>, TRUE)>>,
            Within, OverviewLimit - 1)

\* chats_overview
Overview(text) ==
    Leading(chats, <<MatchingChatFilter(text, <<"_id", "conversation_name">>, TRUE)>>,
            Within, OverviewLimit)

\* Mutant: private live chats count.
LiveFiltersAll == <<Equal("is_live_conversation", TRUE)>>

\* get_live_conversation: the newest public live chat, or Global.
LiveFilters == <<Equal("is_private", FALSE), Equal("is_live_conversation", TRUE)>>

Live(user) ==
    LET newest == UNION Newest(chats, LiveFilters, Within, 1)
    IN  IF newest # {} THEN newest ELSE GetChat(1, <<"_id">>, user)

\* A message or a prompt is stored (add_item of the other DAOs).
AddItem(cid) ==
    /\ Len(items) < MaxItems
    /\ now > 0
    /\ items' = Append(items, [_id |-> Len(items) + 1, cid |-> cid, created_on |-> now])
    /\ UNCHANGED <<chats, now>>

\* fetch_shout_data: messages of a chat, of those asked for or older than the
\* mark if there is one.
ShoutFilters(cid, mark, ids) ==
    <<Equal("cid", cid)>> \o Optional(mark # 0, Compare("created_on", "lt", mark))
        \o Contains("_id", ids)

FetchShouts(cid, mark, ids, limit) ==
    Newest(items, ShoutFilters(cid, mark, ids), Within, limit)

\* get_prompts: prompts of a chat, of those asked for, later than a time and
\* earlier than a prompt, if it is stored.
Checkpoint(id) == IF id = 0 THEN {} ELSE First(items, <<Equal("_id", id)>>, Within)

Earlier(prompts) == IF prompts = {} THEN <<>>
                    ELSE <<Compare("created_on", "lt", (CHOOSE p \in prompts : TRUE).created_on)>>

PromptFilters(cid, idFrom, ids, from) ==
    <<Equal("cid", cid)>>
        \o Earlier(Checkpoint(idFrom))
        \o Contains("_id", ids)
        \o Optional(from # 0, Compare("created_on", "gt", from))

GetPrompts(cid, idFrom, ids, from, limit) ==
    Newest(items, PromptFilters(cid, idFrom, ids, from), Within, limit)

\* get_prompt_data for one prompt.  Without an id it looks for the prompt None,
\* which here is 0.
PromptData(cid, id) == UNION GetPrompts(cid, 0, {id}, 0, 5)

\* list_contains, aggregated: what is stored under each of some ids.
ListContains(ids) ==
    LET found == IF ids = {} THEN {} ELSE Found(items, Contains("_id", ids), Within)
    IN  [id \in {items[i]._id : i \in found} |->
           {items[i] : i \in {j \in found : items[j]._id = id}}]

Tick == now < MaxTime /\ now' = now + 1 /\ UNCHANGED <<chats, items>>

-----------------------------------------------------------------------------
\* A new id is random: no name has it yet.
Next ==
    \/ \E u \in Users, name \in Names \cup 1..Len(chats), p, l \in BOOLEAN :
         NewConversation(u, name, p, l)
    \/ \E cid \in 1..Len(chats) : AddItem(cid)
    \/ Tick

Spec == Init /\ [][Next]_vars

-----------------------------------------------------------------------------
(***************************************************************************)
(* Properties                                                              *)
(***************************************************************************)

\* A name is one chat's, whoever created it and whether or not it is private:
\* new_conversation sees them all.
NamesUnique ==
    \A i, j \in 1..Len(chats) :
        chats[i].conversation_name = chats[j].conversation_name => i = j

\* What get_chats says of requested_user_id: it is "used to find owned private
\* conversations".
MayFind(c, user) == ~c.is_private \/ c.creator = user

\* Search finds a public chat, or one's own, by its id, even if another chat was
\* named with this id, and by any other name.  The overview has every chat whose
\* id contains the text, unless as many as it may have come before.
SearchFinds ==
    /\ \A i \in 1..Len(chats), u \in Users :
         MayFind(chats[i], u) =>
           /\ Search(i, u) = {chats[i]}
           /\ \/ chats[i].conversation_name \in Nat
              \/ Search(chats[i].conversation_name, u) = {chats[i]}
    /\ \A i \in 1..Len(chats) : \A w \in Within :
         w[2] = i => \/ chats[i] \in Overview(w[1])
                    \/ Cardinality({j \in 1..(i - 1) : <<w[1], j>> \in Within}) >= OverviewLimit

\* What the docstring of get_chats suggests: nobody finds the private chat of
\* another.
PrivateIsOwn ==
    \A i \in 1..Len(chats), u \in Users :
        ~MayFind(chats[i], u) => chats[i] \notin Search(i, u)

\* /live answers with a public live chat that no other one is younger than,
\* and with Global exactly if there is none.
LiveIsNewest ==
    LET public == {i \in 1..Len(chats) : chats[i].is_live_conversation /\ ~chats[i].is_private}
    IN  \A u \in Users :
          /\ Live(u) # {}
          /\ \A c \in Live(u) :
               IF public = {} THEN c = Global
               ELSE /\ \E i \in public : c = chats[i]
                    /\ \A i \in public : c.created_on >= chats[i].created_on

\* A page of messages or prompts is the newest of exactly the documents that
\* each of the conditions lets pass, also if two are about created_on.
PageIsWindow ==
    \A cid \in 1..Len(chats), bound \in 0..MaxItems, from \in 0..MaxTime,
       ids \in SUBSET (1..Len(items)), limit \in 1..2 :
      LET all == {items[i] : i \in 1..Len(items)}
          mine == {d \in all : d.cid = cid /\ (ids # {} => d._id \in ids)}
          older == {d \in mine : from # 0 => d.created_on < from}
          window == {d \in mine :
                       /\ from # 0 => d.created_on > from
                       /\ \A o \in all : o._id = bound => d.created_on < o.created_on}
          IsPage(R, W) == /\ R \subseteq W
                          /\ Cardinality(R) = IF Cardinality(W) < limit
                                              THEN Cardinality(W) ELSE limit
                          /\ \A d \in R, e \in W \ R : d.created_on >= e.created_on
      IN  /\ \A R \in GetPrompts(cid, bound, ids, from, limit) : IsPage(R, window)
          /\ \A R \in FetchShouts(cid, from, ids, limit) : IsPage(R, older)

\* Looking up an id gives the one document stored under it, looking up some ids
\* gives each that is stored its own, and without an id nothing is found: not
\* the first document, and not all of them.  A prompt that is asked for is the
\* one that comes, if it is one of that chat, however many newer ones there are.
LookupExact ==
    /\ \A id \in 0..MaxItems :
         GetItem(items, id, <<>>, Within) = {items[i] : i \in {id} \cap 1..Len(items)}
    /\ \A ids \in SUBSET (1..MaxItems) :
         ListContains(ids) = [id \in ids \cap 1..Len(items) |-> {items[id]}]
    /\ \A id \in 0..MaxItems, cid \in 1..Len(chats) :
         PromptData(cid, id) = {d \in {items[i] : i \in 1..Len(items)} :
                                  d._id = id /\ d.cid = cid}

\* What the server reads is what the caller's conditions describe: by id, by
\* ids, the live chat, a page of messages or prompts.
ReadsExact == LookupExact /\ LiveIsNewest /\ PageIsWindow

\* The filters for chats, live chats, prompts and messages, in the order in which
\* their DAOs list them, are ones that deep_merge takes without raising and
\* whose document MongoDB does not refuse; another order may be refused
\* (ChatFiltersSwapped).
QueriesAccepted ==
    /\ \A text \in Texts, u \in Users :
         /\ Accepted(ChatFilters(text, <<"_id", "conversation_name">>, FALSE, u))
         /\ Accepted(<<MatchingChatFilter(text, <<"_id", "conversation_name">>, TRUE)>>)
    /\ Accepted(LiveFilters)
    /\ \A cid \in 1..Len(chats), bound \in 0..Len(items), from \in 0..MaxTime,
          ids \in SUBSET (1..Len(items)) :
         /\ Accepted(PromptFilters(cid, bound, ids, from))
         /\ Accepted(ShoutFilters(cid, from, ids))

=============================================================================
