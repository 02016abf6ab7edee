---------------------------- MODULE Chats_proofs ----------------------------
(***************************************************************************)
(* Proofs about the chats and how the page shows them.                     *)
(*                                                                         *)
(* Chats, for any names, users and number of chats: a name is one chat's,  *)
(* and search finds a chat by its id and by its name.  The argument: what  *)
(* the query for a text comes down to, once build_filters has let the list *)
(* of alternatives replace the filter that follows it.                     *)
(*                                                                         *)
(* ChatLayout, for any chats and handlers: the stored layout and the cards *)
(* of the page agree while chats are opened, closed and restored.          *)
(*                                                                         *)
(* History, for any messages, prompts, page sizes and loads: what paging   *)
(* backwards by time leaves out has one of the known causes.  The argument *)
(* follows a page from the query to the card: what it accounts for when it *)
(* is made stays accounted for until the card shows it.                    *)
(***************************************************************************)
EXTENDS Chats, ChatLayout, History, FiniteSetTheorems, WellFoundedInduction,
        SequenceTheorems, TLAPS

\* The two lists of columns that searches use.
ByName == <<"conversation_name">>
ByBoth == <<"_id", "conversation_name">>
ById == <<"_id">>

Alternatives(text, columns) ==
    {[field |-> columns[i], how |-> "is", value |-> text] : i \in 1..Len(columns)}

(***************************************************************************)
(* Merging any filters on $or behind a list of alternatives leaves the     *)
(* list (deep_merge).                                                      *)
(***************************************************************************)
LEMMA ListReplaces ==
    ASSUME NEW alts, NEW d
    PROVE  BuildFilters(<<OrList(alts), OrDict(d)>>) = OrList(alts)
<1> DEFINE fs == <<OrList(alts), OrDict(d)>>
<1>1. Len(fs) = 2 /\ fs[1] = OrList(alts) /\ fs[2] = OrDict(d)
  OBVIOUS
<1>2. {e \in fs[1] : ~\E j \in 1..(1 - 1) : \E s \in fs[j] : Replaces(s, e)} = OrList(alts)
  BY <1>1
<1>3. \A e \in fs[2] : Replaces(<<"$or", "equal", alts>>, e)
  BY <1>1 DEF OrDict, Replaces
<1>4. <<"$or", "equal", alts>> \in fs[1]
  BY <1>1 DEF OrList
<1>5. {e \in fs[2] : ~\E j \in 1..(2 - 1) : \E s \in fs[j] : Replaces(s, e)} = {}
  BY <1>3, <1>4
<1> DEFINE part(i) == {e \in fs[i] : ~\E j \in 1..(i - 1) : \E s \in fs[j] : Replaces(s, e)}
<1>6. part(1) = OrList(alts) /\ part(2) = {}
  BY <1>2, <1>5
<1>7. BuildFilters(fs) = UNION {part(i) : i \in 1..Len(fs)}
  BY DEF BuildFilters
<1>8. 1..Len(fs) = {1, 2}
  BY <1>1
<1> HIDE DEF fs, part
<1>9. BuildFilters(fs) = OrList(alts)
  BY <1>6, <1>7, <1>8
<1> QED
  BY <1>9 DEF fs

(***************************************************************************)
(* A search by value matches a document of which one of the columns is the *)
(* text, whoever searches (get_chats).                                     *)
(***************************************************************************)
LEMMA ChatQuery ==
    ASSUME NEW text, NEW columns, NEW user
    PROVE  BuildFilters(ChatFilters(text, columns, FALSE, user))
             = OrList(Alternatives(text, columns))
<1>1. MatchingChatFilter(text, columns, FALSE) = OrList(Alternatives(text, columns))
  BY DEF MatchingChatFilter, Alternatives
<1>2. ChatFilters(text, columns, FALSE, user)
        = <<OrList(Alternatives(text, columns)), OrDict([is_private |-> FALSE, creator |-> user])>>
  BY <1>1 DEF ChatFilters, PrivacyFilter
<1> QED
  BY <1>2, ListReplaces

LEMMA ChatMatches ==
    ASSUME NEW text, NEW columns, NEW user, NEW c
    PROVE  Matches(BuildFilters(ChatFilters(text, columns, FALSE, user)), c, Within)
             <=> \E i \in 1..Len(columns) : c[columns[i]] = text
<1>1. Matches(OrList(Alternatives(text, columns)), c, Within)
        <=> Satisfies(<<"$or", "equal", Alternatives(text, columns)>>, c, Within)
  BY DEF Matches, OrList
<1>2. Satisfies(<<"$or", "equal", Alternatives(text, columns)>>, c, Within)
        <=> \E a \in Alternatives(text, columns) : Agrees(a, c, Within)
  BY DEF Satisfies
<1>3. ASSUME NEW i \in 1..Len(columns)
      PROVE  Agrees([field |-> columns[i], how |-> "is", value |-> text], c, Within)
               <=> c[columns[i]] = text
  BY DEF Agrees
<1>4. (\E a \in Alternatives(text, columns) : Agrees(a, c, Within))
        <=> \E i \in 1..Len(columns) : c[columns[i]] = text
  BY <1>3 DEF Alternatives
<1> QED
  BY <1>1, <1>2, <1>4, ChatQuery

LEMMA NameMatches ==
    ASSUME NEW text, NEW user, NEW c
    PROVE  Matches(BuildFilters(ChatFilters(text, <<"conversation_name">>, FALSE, user)), c, Within)
             <=> c.conversation_name = text
<1>1. Len(ByName) = 1 /\ ByName[1] = "conversation_name"
  BY DEF ByName
<1>2. Matches(BuildFilters(ChatFilters(text, ByName, FALSE, user)), c, Within)
        <=> \E i \in 1..Len(ByName) : c[ByName[i]] = text
  BY ChatMatches
<1>3. (\E i \in 1..Len(ByName) : c[ByName[i]] = text) <=> c["conversation_name"] = text
  BY <1>1
<1> QED
  BY <1>2, <1>3 DEF ByName

LEMMA EitherMatches ==
    ASSUME NEW text, NEW user, NEW c
    PROVE  Matches(BuildFilters(ChatFilters(text, <<"_id", "conversation_name">>, FALSE, user)),
                   c, Within)
             <=> c._id = text \/ c.conversation_name = text
<1>1. Len(ByBoth) = 2 /\ ByBoth[1] = "_id" /\ ByBoth[2] = "conversation_name"
  BY DEF ByBoth
<1>2. (\E i \in 1..Len(ByBoth) : c[ByBoth[i]] = text) <=> c["_id"] = text \/ c["conversation_name"] = text
  BY <1>1
<1>3. Matches(BuildFilters(ChatFilters(text, ByBoth, FALSE, user)), c, Within)
        <=> \E i \in 1..Len(ByBoth) : c[ByBoth[i]] = text
  BY ChatMatches
<1> QED
  BY <1>2, <1>3 DEF ByBoth

-----------------------------------------------------------------------------
(***************************************************************************)
(* Types                                                                   *)
(***************************************************************************)
Chat == [_id : 1..MaxChats, conversation_name : Texts, is_private : BOOLEAN,
         is_live_conversation : BOOLEAN, creator : Users \cup {External},
         created_on : 0..MaxTime]

Item == [_id : 1..MaxItems, cid : 1..MaxChats, created_on : 1..MaxTime]

LEMMA TypeInit == Init => TypeOK
<1> SUFFICES ASSUME Init PROVE TypeOK
  OBVIOUS
<1>1. Global \in Chat
  BY NamesAssumption, BoundAssumption DEF Global, Chat, Texts
<1>2. chats \in Seq(Chat) /\ Len(chats) = 1 /\ chats[1]._id = 1
  BY <1>1 DEF Init, Global
<1>3. items \in Seq(Item) /\ Len(items) = 0
  BY DEF Init
<1> QED
  BY <1>2, <1>3, BoundAssumption DEF TypeOK, Init, Chat, Item

LEMMA TypeStep == TypeOK /\ [Next]_vars => TypeOK'
<1> SUFFICES ASSUME TypeOK, [Next]_vars PROVE TypeOK'
  OBVIOUS
<1> USE BoundAssumption
<1>0. /\ chats \in Seq(Chat) /\ Len(chats) \in 1..MaxChats
      /\ items \in Seq(Item) /\ now \in 0..MaxTime
  BY DEF TypeOK, Chat, Item
<1>1. ASSUME NEW u \in Users, NEW name \in Names \cup 1..Len(chats),
             NEW p \in BOOLEAN, NEW l \in BOOLEAN, NewConversation(u, name, p, l)
      PROVE  TypeOK'
  <2> DEFINE c == [_id |-> Len(chats) + 1, conversation_name |-> name, is_private |-> p,
                   is_live_conversation |-> l, creator |-> u, created_on |-> now]
  <2>1. Len(chats) + 1 \in 1..MaxChats
    BY <1>0, <1>1 DEF NewConversation
  <2>2. c \in Chat
    BY <1>0, <2>1 DEF Chat, Texts
  <2>3. chats' = Append(chats, c) /\ items' = items /\ now' = now
    BY <1>1 DEF NewConversation
  <2>4. chats' \in Seq(Chat) /\ Len(chats') = Len(chats) + 1
    BY <1>0, <2>2, <2>3
  <2>5. \A i \in 1..Len(chats') : chats'[i]._id = i
    BY <1>0, <2>3 DEF TypeOK
  <2> QED
    BY <2>1, <2>3, <2>4, <2>5 DEF TypeOK, Chat
<1>2. ASSUME NEW cid \in 1..Len(chats), AddItem(cid)
      PROVE  TypeOK'
  <2> DEFINE d == [_id |-> Len(items) + 1, cid |-> cid, created_on |-> now]
  <2>1. d \in Item
    BY <1>0, <1>2 DEF AddItem, Item
  <2>2. items' = Append(items, d) /\ chats' = chats /\ now' = now
    BY <1>2 DEF AddItem
  <2>3. items' \in Seq(Item) /\ Len(items') = Len(items) + 1
    BY <1>0, <2>1, <2>2
  <2> DEFINE m == Len(items)
  <2>a. /\ m \in Nat /\ Len(items') = m + 1 /\ items'[m + 1] = d
        /\ \A i \in 1..m : items'[i] = items[i]
    BY <1>0, <2>2
  <2>b. d._id = m + 1 /\ \A i \in 1..m : items[i]._id = i
    BY DEF TypeOK
  <2> HIDE DEF m, d
  <2>4. \A i \in 1..Len(items') : items'[i]._id = i
    BY <2>a, <2>b
  <2> QED
    BY <2>2, <2>3, <2>4 DEF TypeOK, Item
<1>3. CASE Tick
  BY <1>0, <1>3 DEF Tick, TypeOK
<1>4. CASE UNCHANGED vars
  BY <1>4 DEF vars, TypeOK
<1> QED
  BY <1>1, <1>2, <1>3, <1>4 DEF Next

\* Every variable keeps its type, and chats and items are stored in the order
\* of their ids (new_conversation, add_item).
THEOREM TypeCorrect == Spec => []TypeOK
  BY TypeInit, TypeStep, PTL DEF Spec

-----------------------------------------------------------------------------
(***************************************************************************)
(* Names.  A name that is an id is that of an older chat, because ids are  *)
(* random: with this, a text finds one chat.                               *)
(***************************************************************************)
NamedAfterOlder ==
    \A i \in 1..Len(chats) : chats[i].conversation_name \in Names \cup 1..(i - 1)

NamesInv == NamesUnique /\ NamedAfterOlder

LEMMA NamesInit == Init => NamesInv
<1> SUFFICES ASSUME Init PROVE NamesInv
  OBVIOUS
<1>1. Len(chats) = 1 /\ chats[1].conversation_name = GlobalName
  BY DEF Init, Global
<1> QED
  BY <1>1, NamesAssumption DEF NamesInv, NamesUnique, NamedAfterOlder

LEMMA NamesStep == TypeOK /\ NamesInv /\ [Next]_vars => NamesInv'
<1> SUFFICES ASSUME TypeOK, NamesInv, [Next]_vars PROVE NamesInv'
  OBVIOUS
<1>0. chats \in Seq(Chat)
  BY DEF TypeOK, Chat
<1>1. ASSUME NEW u \in Users, NEW name \in Names \cup 1..Len(chats),
             NEW p \in BOOLEAN, NEW l \in BOOLEAN, NewConversation(u, name, p, l)
      PROVE  NamesInv'
  <2> DEFINE n == Len(chats)
  <2>1. \A i \in 1..n : chats[i].conversation_name # name
    BY <1>1, NameMatches DEF NewConversation, Known, Found
  <2>2. /\ Len(chats') = n + 1 /\ n \in Nat
        /\ \A i \in 1..n : chats'[i] = chats[i]
        /\ chats'[n + 1].conversation_name = name
    BY <1>0, <1>1 DEF NewConversation
  <2>3. NamesUnique'
    BY <2>1, <2>2 DEF NamesInv, NamesUnique
  <2>4. NamedAfterOlder'
    BY <2>2 DEF NamesInv, NamedAfterOlder
  <2> QED
    BY <2>3, <2>4 DEF NamesInv
<1>2. CASE UNCHANGED chats
  BY <1>2 DEF NamesInv, NamesUnique, NamedAfterOlder
<1> QED
  BY <1>1, <1>2 DEF Next, AddItem, Tick, vars

\* A name is one chat's, whoever created it: what new_conversation looks for
\* is not narrowed to the chats of its user.
THEOREM NamesAreUnique == Spec => []NamesUnique
<1>1. NamesInv => NamesUnique
  BY DEF NamesInv
<1> QED
  BY <1>1, NamesInit, NamesStep, TypeCorrect, PTL DEF Spec

-----------------------------------------------------------------------------
(***************************************************************************)
(* Search                                                                  *)
(***************************************************************************)
LEMMA SearchMatches ==
    ASSUME NEW text, NEW user
    PROVE  Found(chats, ChatFilters(text, <<"_id", "conversation_name">>, FALSE, user), Within)
             = {i \in 1..Len(chats) : chats[i]._id = text \/ chats[i].conversation_name = text}
  BY EitherMatches DEF Found

\* The regular expression of the first column, the id, keeps its meaning, and
\* that of the second has none.
LEMMA OverviewMatches ==
    ASSUME TypeOK, NEW text
    PROVE  Found(chats, <<MatchingChatFilter(text, ByBoth, TRUE)>>, Within)
             = {i \in 1..Len(chats) : <<text, i>> \in Within}
<1> DEFINE how(k) == IF ~TRUE THEN "is" ELSE IF k = 1 THEN "contains" ELSE "nothing"
           alts == {[field |-> ByBoth[k], how |-> how(k), value |-> text] : k \in 1..Len(ByBoth)}
           a == [field |-> "_id", how |-> "contains", value |-> text]
           b == [field |-> "conversation_name", how |-> "nothing", value |-> text]
<1>1. Len(ByBoth) = 2 /\ ByBoth[1] = "_id" /\ ByBoth[2] = "conversation_name"
  BY DEF ByBoth
<1>2. alts = {a, b}
  <2>1. 1..Len(ByBoth) = {1, 2}
    BY <1>1
  <2> QED BY <1>1, <2>1
<1>3. MatchingChatFilter(text, ByBoth, TRUE) = OrList(alts)
  BY DEF MatchingChatFilter
<1> HIDE DEF alts
<1>4. BuildFilters(<<OrList(alts)>>) = OrList(alts)
  BY DEF BuildFilters, OrList
<1>5. ASSUME NEW i \in 1..Len(chats)
      PROVE  Matches(OrList(alts), chats[i], Within) <=> <<text, i>> \in Within
  <2>1. chats[i]["_id"] = i
    BY DEF TypeOK
  <2>2. Agrees(a, chats[i], Within) <=> <<text, i>> \in Within
    BY <2>1 DEF Agrees
  <2>3. ~Agrees(b, chats[i], Within)
    BY DEF Agrees
  <2>4. Satisfies(<<"$or", "equal", alts>>, chats[i], Within) <=> <<text, i>> \in Within
    BY <1>2, <2>2, <2>3 DEF Satisfies
  <2> QED BY <2>4 DEF Matches, OrList
<1> QED
  BY <1>3, <1>4, <1>5 DEF Found

\* A chat is left out only if enough others come before it.
LEMMA OverviewLists ==
    ASSUME TypeOK, NEW w \in Within, NEW i \in 1..Len(chats), w[2] = i
    PROVE  \/ chats[i] \in Overview(w[1])
           \/ Cardinality({j \in 1..(i - 1) : <<w[1], j>> \in Within}) >= OverviewLimit
<1> DEFINE found == {j \in 1..Len(chats) : <<w[1], j>> \in Within}
           before == {j \in 1..(i - 1) : <<w[1], j>> \in Within}
<1>1. Len(chats) \in Nat
  BY BoundAssumption DEF TypeOK
<1>2. i \in found
  <2>1. w = <<w[1], i>>
    BY WithinAssumption
  <2> QED BY <2>1
<1>3. {k \in found : k < i} = before
  BY <1>1
<1>4. Overview(w[1]) = {chats[k] : k \in {j \in found : Cardinality({k \in found : k < j}) < OverviewLimit}}
  BY OverviewMatches DEF Overview, Leading, ByBoth
<1>5. IsFiniteSet(before)
  <2>1. IsFiniteSet(1..(i - 1)) /\ before \in SUBSET (1..(i - 1))
    BY <1>1, FS_Interval
  <2> QED BY <2>1, FS_Subset
<1>6. Cardinality(before) \in Nat
  BY <1>5, FS_CardinalityType
<1> HIDE DEF found, before
<1>7. CASE Cardinality(before) < OverviewLimit
  BY <1>2, <1>3, <1>4, <1>7
<1>8. CASE Cardinality(before) >= OverviewLimit
  BY <1>8 DEF before
<1> QED
  BY <1>6, <1>7, <1>8, OverviewAssumption

LEMMA SearchFromNames == TypeOK /\ NamesInv => SearchFinds
<1> SUFFICES ASSUME TypeOK, NamesInv PROVE SearchFinds
  OBVIOUS
<1>0. /\ Len(chats) \in Nat
      /\ \A i \in 1..Len(chats) : chats[i]._id = i
  BY BoundAssumption DEF TypeOK
<1>1. ASSUME NEW i \in 1..Len(chats), NEW u \in Users
      PROVE  Search(i, u) = {chats[i]}
  <2> DEFINE found == {j \in 1..Len(chats) : chats[j]._id = i \/ chats[j].conversation_name = i}
  <2>1. \A j \in 1..Len(chats) : chats[j].conversation_name = i => i < j
    BY <1>0, NamesAssumption DEF NamesInv, NamedAfterOlder
  <2>2. i \in found /\ \A j \in found : i <= j /\ j \in Nat
    BY <1>0, <2>1
  <2>3. {j \in found : \A k \in found : j <= k} = {i}
    BY <2>2
  <2>4. Search(i, u) = {chats[j] : j \in {j \in found : \A k \in found : j <= k}}
    BY SearchMatches DEF Search, GetChat, First
  <2> QED
    BY <2>3, <2>4
<1>2. ASSUME NEW i \in 1..Len(chats), NEW u \in Users, chats[i].conversation_name \notin Nat
      PROVE  Search(chats[i].conversation_name, u) = {chats[i]}
  <2> DEFINE name == chats[i].conversation_name
             found == {j \in 1..Len(chats) : chats[j]._id = name \/ chats[j].conversation_name = name}
  <2>1. found = {i}
    BY <1>0, <1>2 DEF NamesInv, NamesUnique
  <2>2. {j \in found : \A k \in found : j <= k} = {i}
    BY <1>0, <2>1
  <2>3. Search(name, u) = {chats[j] : j \in {j \in found : \A k \in found : j <= k}}
    BY SearchMatches DEF Search, GetChat, First
  <2> QED
    BY <2>2, <2>3
<1> QED
  BY <1>1, <1>2, OverviewLists DEF SearchFinds

\* Search finds a public or own chat by its id and by its name; the overview finds
\* it by its id, or as many as it may have come before.
THEOREM SearchIsExact == Spec => []SearchFinds
  BY SearchFromNames, NamesInit, NamesStep, TypeCorrect, PTL DEF Spec

-----------------------------------------------------------------------------
(***************************************************************************)
(* What a list of filters asks for: a merge that drops nothing is the      *)
(* conjunction of the filters, and is refused by nobody.                   *)
(***************************************************************************)
\* Times have a least one.
LEMMA EarliestExists ==
    ASSUME NEW T \in SUBSET Nat, T # {}
    PROVE  \E t \in T : \A u \in T : t <= u
<1> DEFINE Before == OpToRel(<, Nat)
<1>1. PICK t \in T : \A u \in T : <<u, t>> \notin Before
  <2> HIDE DEF Before
  <2>1. IsWellFoundedOn(Before, Nat)
    BY NatLessThanWellFounded DEF Before
  <2> QED BY <2>1, WFMin
<1>2. \A u \in T : ~(u < t)
  BY <1>1 DEF OpToRel
<1> QED BY <1>2

\* No two filters of a call are about one operator of one column, and one that
\* asks for a value is alone with its column: no merge drops anything.
Apart(filters) ==
    \A i, j \in 1..Len(filters) : i # j =>
        \A s \in filters[i], e \in filters[j] : s[1] = e[1] => s[2] # e[2] /\ s[2] # "equal"

Plain(filters) == \A i \in 1..Len(filters) : \A e \in filters[i] : e[1] # "$or"

Entries(filters) == UNION {filters[i] : i \in 1..Len(filters)}

LEMMA ApartMerge ==
    ASSUME NEW X, NEW fs \in Seq(X), Apart(fs)
    PROVE  BuildFilters(fs) = Entries(fs)
<1>1. ASSUME NEW i \in 1..Len(fs)
      PROVE  {e \in fs[i] : ~\E j \in 1..(i - 1) : \E s \in fs[j] : Replaces(s, e)} = fs[i]
  <2> SUFFICES ASSUME NEW e \in fs[i], NEW j \in 1..(i - 1), NEW s \in fs[j], Replaces(s, e) PROVE FALSE
    OBVIOUS
  <2>1. j \in 1..Len(fs) /\ j # i
    OBVIOUS
  <2> QED BY <2>1 DEF Apart, Replaces
<1> QED BY <1>1 DEF BuildFilters, Entries

LEMMA ApartAccepted ==
    ASSUME NEW X, NEW fs \in Seq(X), Apart(fs), Plain(fs)
    PROVE  Accepted(fs)
<1>1. ASSUME NEW i \in 1..Len(fs) PROVE ~Clash(BuildFilters(SubSeq(fs, 1, i - 1)), fs[i])
  <2>1. PICK pre : pre = SubSeq(fs, 1, i - 1)
    OBVIOUS
  <2>2. /\ i - 1 \in Int /\ \A k \in 1..(i - 1) : fs[k] \in X
        /\ Len(fs) \in Nat
    OBVIOUS
  <2>3. Len(pre) = i - 1 /\ \A k \in 1..(i - 1) : pre[k] = fs[k]
    <3>1. /\ Len(SubSeq(fs, 1, i - 1)) = IF 1 <= i - 1 THEN i - 1 - 1 + 1 ELSE 0
          /\ \A k \in 1..(i - 1 - 1 + 1) : SubSeq(fs, 1, i - 1)[k] = fs[1 + k - 1]
      BY <2>2, SubSeqProperties
    <3> QED BY <2>1, <3>1
  <2>4. \A s \in BuildFilters(pre) : \E k \in 1..(i - 1) : s \in fs[k]
    BY <2>3 DEF BuildFilters
  <2>5. ASSUME NEW k \in 1..(i - 1), NEW s \in fs[k], NEW e \in fs[i], s[1] = e[1], e[2] = "equal"
        PROVE  FALSE
    <3>1. k \in 1..Len(fs) /\ k # i
      OBVIOUS
    <3> QED BY <2>5, <3>1 DEF Apart
  <2> QED BY <2>1, <2>4, <2>5 DEF Clash
<1>2. \A e \in BuildFilters(fs) : e[1] # "$or"
  BY ApartMerge DEF Plain, Entries
<1> QED BY <1>1, <1>2 DEF Accepted

\* One more filter, or none.
LEMMA ApartLonger ==
    ASSUME NEW X, NEW fs \in Seq(X), NEW gs \in Seq(X), Len(gs) <= 1, Apart(fs), Plain(fs), Plain(gs),
           \A s \in Entries(fs), e \in Entries(gs) :
              s[1] = e[1] => s[2] # e[2] /\ s[2] # "equal" /\ e[2] # "equal"
    PROVE  /\ fs \o gs \in Seq(X) /\ Apart(fs \o gs) /\ Plain(fs \o gs)
           /\ Entries(fs \o gs) = Entries(fs) \cup Entries(gs)
<1>0. PICK hs, n, k : hs = fs \o gs /\ n = Len(fs) /\ k = Len(gs)
  OBVIOUS
<1>1. n \in Nat /\ k \in {0, 1} /\ hs = fs \o gs /\ n = Len(fs) /\ k = Len(gs)
  BY <1>0
<1>2. /\ hs \in Seq(X) /\ Len(hs) = n + k
      /\ \A i \in 1..n : hs[i] = fs[i]
      /\ k = 1 => hs[n + 1] = gs[1]
  BY <1>1, ConcatProperties
<1>3. /\ \A i \in 1..n : fs[i] \subseteq Entries(fs)
      /\ k = 1 => Entries(gs) = gs[1]
      /\ k = 0 => Entries(gs) = {}
  BY <1>1 DEF Entries
<1>4. Apart(hs)
  <2> SUFFICES ASSUME NEW i \in 1..(n + k), NEW j \in 1..(n + k), i # j,
                      NEW s \in hs[i], NEW e \in hs[j], s[1] = e[1]
               PROVE  s[2] # e[2] /\ s[2] # "equal"
    BY <1>2 DEF Apart
  <2>1. CASE i \in 1..n /\ j \in 1..n
    BY <1>1, <1>2, <2>1 DEF Apart
  <2>2. CASE i \notin 1..n
    <3>1. k = 1 /\ i = n + 1 /\ j \in 1..n
      BY <1>1, <2>2
    <3> QED BY <1>2, <1>3, <3>1
  <2>3. CASE j \notin 1..n
    <3>1. k = 1 /\ j = n + 1 /\ i \in 1..n
      BY <1>1, <2>3
    <3> QED BY <1>2, <1>3, <3>1
  <2> QED BY <2>1, <2>2, <2>3
<1>5. Entries(hs) = Entries(fs) \cup Entries(gs)
  <2>1. CASE k = 0
    BY <1>1, <1>2, <1>3, <2>1 DEF Entries
  <2>2. CASE k = 1
    <3>1. 1..(n + 1) = 1..n \cup {n + 1}
      BY <1>1
    <3>2. Entries(hs) = UNION {hs[i] : i \in 1..(n + 1)} /\ Entries(fs) = UNION {hs[i] : i \in 1..n}
      BY <1>1, <1>2, <2>2 DEF Entries
    <3> QED BY <1>2, <1>3, <2>2, <3>1, <3>2
  <2> QED BY <1>1, <2>1, <2>2
<1>6. Plain(hs)
  <2> SUFFICES ASSUME NEW i \in 1..(n + k), NEW e \in hs[i] PROVE e[1] # "$or"
    BY <1>2 DEF Plain
  <2>1. CASE i \in 1..n
    BY <1>1, <1>2, <2>1 DEF Plain
  <2>2. CASE i \notin 1..n
    <3>1. k = 1 /\ i = n + 1
      BY <1>1, <2>2
    <3> QED BY <1>1, <1>2, <3>1 DEF Plain
  <2> QED BY <2>1, <2>2
<1> QED BY <1>1, <1>2, <1>4, <1>5, <1>6

\* A list of one filter with one entry, and the empty list.
LEMMA OneFilter ==
    ASSUME NEW a, a[1] # "$or", NEW fs, fs = <<{a}>>
    PROVE  Len(fs) = 1 /\ Apart(fs) /\ Plain(fs) /\ Entries(fs) = {a}
BY DEF Apart, Plain, Entries

LEMMA NoFilter ==
    ASSUME NEW fs, fs = <<>>
    PROVE  Len(fs) = 0 /\ Apart(fs) /\ Plain(fs) /\ Entries(fs) = {}
BY DEF Apart, Plain, Entries

\* What MongoDB makes of an entry.
LEMMA PlainEntries ==
    ASSUME NEW key, key # "$or", NEW v, NEW d
    PROVE  /\ Satisfies(<<key, "equal", v>>, d, Within) <=> d[key] = v
           /\ Satisfies(<<key, "lt", v>>, d, Within) <=> d[key] < v
           /\ Satisfies(<<key, "gt", v>>, d, Within) <=> d[key] > v
           /\ Satisfies(<<key, "in", v>>, d, Within) <=> d[key] \in v
BY DEF Satisfies

LEMMA MaybeFilter ==
    ASSUME NEW needed \in BOOLEAN, NEW a, a[1] # "$or", NEW X, {a} \in X,
           NEW fs, fs = IF needed THEN <<{a}>> ELSE <<>>
    PROVE  /\ fs \in Seq(X) /\ Len(fs) <= 1 /\ Apart(fs) /\ Plain(fs)
           /\ Entries(fs) = IF needed THEN {a} ELSE {}
<1>1. CASE needed
  <2>1. fs = <<{a}>> /\ fs \in Seq(X)
    BY <1>1
  <2> QED BY <1>1, <2>1, OneFilter
<1>2. CASE ~needed
  <2>1. fs = <<>> /\ fs \in Seq(X)
    BY <1>2
  <2> QED BY <1>2, <2>1, NoFilter
<1> QED BY <1>1, <1>2

\* get_live_conversation asks for two columns.
LEMMA LiveQuery ==
    /\ Accepted(LiveFilters)
    /\ \A d : Matches(BuildFilters(LiveFilters), d, Within)
                <=> d.is_private = FALSE /\ d.is_live_conversation = TRUE
<1>1. PICK F, G, X : /\ F = {<<"is_private", "equal", FALSE>>}
                     /\ G = {<<"is_live_conversation", "equal", TRUE>>} /\ X = {F, G}
  OBVIOUS
<1>2. LiveFilters = <<F, G>> /\ <<F, G>> \in Seq(X)
  BY <1>1 DEF LiveFilters, Equal
<1>3. Len(LiveFilters) = 2 /\ LiveFilters[1] = F /\ LiveFilters[2] = G
  BY <1>2
<1>4. Apart(LiveFilters) /\ Plain(LiveFilters)
  <2>1. /\ \A s \in F, e \in G : s[1] # e[1]
        /\ \A e \in F \cup G : e[1] # "$or"
    BY <1>1
  <2>2. \A i \in 1..Len(LiveFilters) : i = 1 \/ i = 2
    BY <1>3
  <2>3. Plain(LiveFilters)
    <3> SUFFICES ASSUME NEW i \in 1..Len(LiveFilters), NEW e \in LiveFilters[i]
                 PROVE  e[1] # "$or"
      BY DEF Plain
    <3> QED BY <1>3, <2>1, <2>2
  <2>4. Apart(LiveFilters)
    <3> SUFFICES ASSUME NEW i \in 1..Len(LiveFilters), NEW j \in 1..Len(LiveFilters), i # j,
                        NEW s \in LiveFilters[i], NEW e \in LiveFilters[j]
                 PROVE  s[1] # e[1]
      BY DEF Apart
    <3>1. CASE i = 1 /\ j = 2
      BY <1>3, <2>1, <3>1
    <3>2. CASE i = 2 /\ j = 1
      BY <1>3, <2>1, <3>2
    <3> QED BY <2>2, <3>1, <3>2
  <2> QED BY <2>3, <2>4
<1>5. Entries(LiveFilters) = F \cup G
  BY <1>3 DEF Entries
<1>6. BuildFilters(LiveFilters) = F \cup G /\ Accepted(LiveFilters)
  BY <1>2, <1>4, <1>5, ApartMerge, ApartAccepted
<1>7. ASSUME NEW d
      PROVE  Matches(BuildFilters(LiveFilters), d, Within)
               <=> d["is_private"] = FALSE /\ d["is_live_conversation"] = TRUE
  <2>1. /\ Satisfies(<<"is_private", "equal", FALSE>>, d, Within) <=> d["is_private"] = FALSE
        /\ Satisfies(<<"is_live_conversation", "equal", TRUE>>, d, Within)
             <=> d["is_live_conversation"] = TRUE
    BY PlainEntries
  <2> QED BY <1>1, <1>6, <2>1 DEF Matches
<1> QED BY <1>6, <1>7

\* fetch_shout_data: a column, a time and the ids are three different entries.
LEMMA ShoutQuery ==
    ASSUME NEW cid, NEW before, NEW ids
    PROVE  /\ Accepted(ShoutFilters(cid, before, ids))
           /\ \A d : Matches(BuildFilters(ShoutFilters(cid, before, ids)), d, Within)
                       <=> /\ d.cid = cid
                           /\ before # 0 => d.created_on < before
                           /\ ids # {} => d._id \in ids
<1>1. PICK a, b, c : /\ a = <<"cid", "equal", cid>> /\ b = <<"created_on", "lt", before>>
                     /\ c = <<"_id", "in", ids>>
  OBVIOUS
<1>2. PICK X : {a} \in X /\ {b} \in X /\ {c} \in X
  <2>1. {a} \in {{a}, {b}, {c}} /\ {b} \in {{a}, {b}, {c}} /\ {c} \in {{a}, {b}, {c}}
    OBVIOUS
  <2> QED BY <2>1
<1>0. a[1] = "cid" /\ b[1] = "created_on" /\ c[1] = "_id"
  BY <1>1
<1>3. PICK fs, gs, hs : /\ fs = <<{a}>>
                        /\ gs = (IF before # 0 THEN <<{b}>> ELSE <<>>)
                        /\ hs = (IF ids # {} THEN <<{c}>> ELSE <<>>)
  OBVIOUS
<1>4. ShoutFilters(cid, before, ids) = (fs \o gs) \o hs
  <2>1. Equal("cid", cid) = {a} /\ Compare("created_on", "lt", before) = {b} /\ Compare("_id", "in", ids) = {c}
    BY <1>1 DEF Equal, Compare
  <2>2. Optional(before # 0, Compare("created_on", "lt", before)) = gs /\ Contains("_id", ids) = hs
    BY <1>3, <2>1 DEF Optional, Contains
  <2> QED BY <1>3, <2>1, <2>2 DEF ShoutFilters
<1>5. fs \in Seq(X) /\ Len(fs) <= 1 /\ Apart(fs) /\ Plain(fs) /\ Entries(fs) = {a}
  BY <1>0, <1>2, <1>3, OneFilter
<1>6. /\ gs \in Seq(X) /\ Len(gs) <= 1 /\ Plain(gs)
      /\ Entries(gs) = IF before # 0 THEN {b} ELSE {}
  BY <1>0, <1>2, <1>3, MaybeFilter
<1>7. /\ hs \in Seq(X) /\ Len(hs) <= 1 /\ Plain(hs)
      /\ Entries(hs) = IF ids # {} THEN {c} ELSE {}
  BY <1>0, <1>2, <1>3, MaybeFilter
<1>8. PICK two : two = fs \o gs
  OBVIOUS
<1>9. /\ two \in Seq(X) /\ Apart(two) /\ Plain(two)
      /\ Entries(two) = {a} \cup IF before # 0 THEN {b} ELSE {}
  <2>1. \A s \in Entries(fs), e \in Entries(gs) :
           s[1] = e[1] => s[2] # e[2] /\ s[2] # "equal" /\ e[2] # "equal"
    BY <1>0, <1>5, <1>6
  <2> QED BY <1>5, <1>6, <1>8, <2>1, ApartLonger
<1>10. PICK all : all = two \o hs
  OBVIOUS
<1>11. /\ all \in Seq(X) /\ Apart(all) /\ Plain(all)
       /\ Entries(all) = {a} \cup (IF before # 0 THEN {b} ELSE {}) \cup IF ids # {} THEN {c} ELSE {}
  <2>1. \A s \in Entries(two), e \in Entries(hs) :
           s[1] = e[1] => s[2] # e[2] /\ s[2] # "equal" /\ e[2] # "equal"
    BY <1>0, <1>7, <1>9
  <2> QED BY <1>7, <1>9, <1>10, <2>1, ApartLonger
<1>12. Accepted(all) /\ BuildFilters(all) = Entries(all)
  BY <1>11, ApartMerge, ApartAccepted
<1>13. ASSUME NEW d
       PROVE  Matches(Entries(all), d, Within)
                <=> /\ d["cid"] = cid
                    /\ before # 0 => d["created_on"] < before
                    /\ ids # {} => d["_id"] \in ids
  <2>1. /\ Satisfies(a, d, Within) <=> d["cid"] = cid
        /\ Satisfies(b, d, Within) <=> d["created_on"] < before
        /\ Satisfies(c, d, Within) <=> d["_id"] \in ids
    BY <1>1, PlainEntries
  <2> QED BY <1>11, <2>1 DEF Matches
<1> QED BY <1>4, <1>8, <1>10, <1>12, <1>13

LEMMA IdQuery ==
    ASSUME NEW id
    PROVE  \A d : Matches(BuildFilters(<<Equal("_id", id)>>), d, Within) <=> d._id = id
<1>1. PICK a, fs : a = <<"_id", "equal", id>> /\ fs = <<{a}>>
  OBVIOUS
<1>2. fs \in Seq({{a}}) /\ Apart(fs) /\ Entries(fs) = {a}
  <2>1. a[1] # "$or"
    BY <1>1
  <2> QED BY <1>1, <2>1, OneFilter
<1>3. ASSUME NEW d PROVE Matches(Entries(fs), d, Within) <=> d["_id"] = id
  <2>1. Satisfies(a, d, Within) <=> d["_id"] = id
    BY <1>1, PlainEntries
  <2> QED BY <1>2, <2>1 DEF Matches
<1>4. <<Equal("_id", id)>> = fs /\ BuildFilters(fs) = Entries(fs)
  BY <1>1, <1>2, ApartMerge DEF Equal
<1> QED BY <1>3, <1>4

LEMMA IdsQuery ==
    ASSUME NEW ids, ids # {}
    PROVE  \A d : Matches(BuildFilters(Contains("_id", ids)), d, Within) <=> d._id \in ids
<1>1. PICK a, fs : a = <<"_id", "in", ids>> /\ fs = <<{a}>>
  OBVIOUS
<1>2. fs \in Seq({{a}}) /\ Apart(fs) /\ Entries(fs) = {a}
  <2>1. a[1] # "$or"
    BY <1>1
  <2> QED BY <1>1, <2>1, OneFilter
<1>3. ASSUME NEW d PROVE Matches(Entries(fs), d, Within) <=> d["_id"] \in ids
  <2>1. Satisfies(a, d, Within) <=> d["_id"] \in ids
    BY <1>1, PlainEntries
  <2> QED BY <1>2, <2>1 DEF Matches
<1>4. Contains("_id", ids) = fs /\ BuildFilters(fs) = Entries(fs)
  BY <1>1, <1>2, ApartMerge DEF Contains, Compare
<1> QED BY <1>3, <1>4

\* The one document of an id (get_item, and the prompt before which prompts are
\* asked for).
LEMMA OneItem ==
    ASSUME TypeOK, NEW id \in Nat
    PROVE  First(items, <<Equal("_id", id)>>, Within) = {items[i] : i \in {id} \cap 1..Len(items)}
<1>1. Len(items) \in Nat /\ \A i \in 1..Len(items) : items[i]._id = i
  BY DEF TypeOK
<1>2. PICK found : found = Found(items, <<Equal("_id", id)>>, Within)
  OBVIOUS
<1>3. found = {id} \cap 1..Len(items)
  BY <1>1, <1>2, IdQuery DEF Found
<1>4. {j \in found : \A k \in found : j <= k} = found
  BY <1>3
<1> QED BY <1>2, <1>3, <1>4 DEF First

\* get_prompts: a prompt before which, and a time after which, are two entries
\* of one column, which both count (deep_merge).
LEMMA PromptQuery ==
    ASSUME TypeOK, NEW cid, NEW bound \in Nat, NEW ids, NEW from
    PROVE  /\ Accepted(PromptFilters(cid, bound, ids, from))
           /\ \A d : Matches(BuildFilters(PromptFilters(cid, bound, ids, from)), d, Within)
                       <=> /\ d.cid = cid
                           /\ bound \in 1..Len(items) => d.created_on < items[bound].created_on
                           /\ ids # {} => d._id \in ids
                           /\ from # 0 => d.created_on > from
<1> DEFINE stored == bound \in 1..Len(items)
<1>1. PICK a, b, c, f : /\ a = <<"cid", "equal", cid>>
                        /\ b = <<"created_on", "lt", items[bound].created_on>>
                        /\ c = <<"_id", "in", ids>> /\ f = <<"created_on", "gt", from>>
  OBVIOUS
<1>2. PICK X : {a} \in X /\ {b} \in X /\ {c} \in X /\ {f} \in X
  <2>1. /\ {a} \in {{a}, {b}, {c}, {f}} /\ {b} \in {{a}, {b}, {c}, {f}}
        /\ {c} \in {{a}, {b}, {c}, {f}} /\ {f} \in {{a}, {b}, {c}, {f}}
    OBVIOUS
  <2> QED BY <2>1
<1>3. /\ a[1] = "cid" /\ b[1] = "created_on" /\ c[1] = "_id" /\ f[1] = "created_on"
      /\ b[2] = "lt" /\ f[2] = "gt"
  BY <1>1
<1>4. PICK fs, gs, hs, ks : /\ fs = <<{a}>>
                            /\ gs = (IF stored THEN <<{b}>> ELSE <<>>)
                            /\ hs = (IF ids # {} THEN <<{c}>> ELSE <<>>)
                            /\ ks = (IF from # 0 THEN <<{f}>> ELSE <<>>)
  OBVIOUS
<1>5. Earlier(Checkpoint(bound)) = gs
  <2>1. bound = 0 \/ Checkpoint(bound) = {items[i] : i \in {bound} \cap 1..Len(items)}
    BY OneItem DEF Checkpoint
  <2>2. CASE stored
    <3>1. Checkpoint(bound) = {items[bound]}
      BY <2>1, <2>2
    <3>2. Earlier({items[bound]}) = <<Compare("created_on", "lt", items[bound].created_on)>>
      BY DEF Earlier
    <3> QED BY <1>1, <1>4, <2>2, <3>1, <3>2 DEF Compare
  <2>3. CASE ~stored
    <3>1. Checkpoint(bound) = {}
      <4>1. CASE bound = 0
        BY <4>1 DEF Checkpoint
      <4>2. CASE bound # 0
        BY <2>1, <2>3, <4>2
      <4> QED BY <4>1, <4>2
    <3> QED BY <1>4, <2>3, <3>1 DEF Earlier
  <2> QED BY <2>2, <2>3
<1> HIDE DEF stored
<1>6. PromptFilters(cid, bound, ids, from) = ((fs \o gs) \o hs) \o ks
  <2>1. Equal("cid", cid) = {a} /\ Compare("_id", "in", ids) = {c} /\ Compare("created_on", "gt", from) = {f}
    BY <1>1 DEF Equal, Compare
  <2>2. Contains("_id", ids) = hs /\ Optional(from # 0, Compare("created_on", "gt", from)) = ks
    BY <1>4, <2>1 DEF Optional, Contains
  <2> QED BY <1>4, <1>5, <2>1, <2>2 DEF PromptFilters
<1>7. fs \in Seq(X) /\ Apart(fs) /\ Plain(fs) /\ Entries(fs) = {a}
  BY <1>2, <1>3, <1>4, OneFilter
<1>8. /\ gs \in Seq(X) /\ Len(gs) <= 1 /\ Plain(gs)
      /\ Entries(gs) = IF stored THEN {b} ELSE {}
  BY <1>2, <1>3, <1>4, MaybeFilter DEF stored
<1>9. /\ hs \in Seq(X) /\ Len(hs) <= 1 /\ Plain(hs)
      /\ Entries(hs) = IF ids # {} THEN {c} ELSE {}
  BY <1>2, <1>3, <1>4, MaybeFilter
<1>10. /\ ks \in Seq(X) /\ Len(ks) <= 1 /\ Plain(ks)
       /\ Entries(ks) = IF from # 0 THEN {f} ELSE {}
  BY <1>2, <1>3, <1>4, MaybeFilter
<1>11. PICK two : two = fs \o gs
  OBVIOUS
<1>12. /\ two \in Seq(X) /\ Apart(two) /\ Plain(two)
       /\ Entries(two) = {a} \cup IF stored THEN {b} ELSE {}
  <2>1. \A s \in Entries(fs), e \in Entries(gs) : s[1] # e[1]
    BY <1>3, <1>7, <1>8
  <2> QED BY <1>7, <1>8, <1>11, <2>1, ApartLonger
<1>13. PICK three : three = two \o hs
  OBVIOUS
<1>14. /\ three \in Seq(X) /\ Apart(three) /\ Plain(three)
       /\ Entries(three) = {a} \cup (IF stored THEN {b} ELSE {}) \cup IF ids # {} THEN {c} ELSE {}
  <2>1. \A s \in Entries(two), e \in Entries(hs) : s[1] # e[1]
    BY <1>3, <1>9, <1>12
  <2> QED BY <1>9, <1>12, <1>13, <2>1, ApartLonger
<1>15. PICK all : all = three \o ks
  OBVIOUS
<1>16. /\ all \in Seq(X) /\ Apart(all) /\ Plain(all)
       /\ Entries(all) = {a} \cup (IF stored THEN {b} ELSE {}) \cup (IF ids # {} THEN {c} ELSE {})
                             \cup IF from # 0 THEN {f} ELSE {}
  <2>1. \A s \in Entries(three), e \in Entries(ks) :
           s[1] = e[1] => s[2] # e[2] /\ s[2] # "equal" /\ e[2] # "equal"
    BY <1>3, <1>10, <1>14
  <2> QED BY <1>10, <1>14, <1>15, <2>1, ApartLonger
<1>17. Accepted(all) /\ BuildFilters(all) = Entries(all)
  BY <1>16, ApartMerge, ApartAccepted
<1>18. ASSUME NEW d
       PROVE  Matches(Entries(all), d, Within)
                <=> /\ d["cid"] = cid
                    /\ stored => d["created_on"] < items[bound].created_on
                    /\ ids # {} => d["_id"] \in ids
                    /\ from # 0 => d["created_on"] > from
  <2>1. /\ Satisfies(a, d, Within) <=> d["cid"] = cid
        /\ Satisfies(b, d, Within) <=> d["created_on"] < items[bound].created_on
        /\ Satisfies(c, d, Within) <=> d["_id"] \in ids
        /\ Satisfies(f, d, Within) <=> d["created_on"] > from
    BY <1>1, PlainEntries
  <2> QED BY <1>16, <2>1 DEF Matches
<1> QED BY <1>6, <1>11, <1>13, <1>15, <1>17, <1>18 DEF stored

-----------------------------------------------------------------------------
\* Documents are as many as their positions.
LEMMA ImageSize ==
    ASSUME NEW S, IsFiniteSet(S), NEW f, \A x, y \in S : f[x] = f[y] => x = y,
           NEW T, T = {f[x] : x \in S}
    PROVE  IsFiniteSet(T) /\ Cardinality(T) = Cardinality(S)
<1> DEFINE g == [x \in S |-> f[x]]
<1>1. g \in Bijection(S, T)
  BY DEF Bijection, Injection, Surjection, IsInjective
<1>2. ExistsBijection(S, T)
  BY <1>1 DEF ExistsBijection
<1> QED BY <1>2, FS_Bijection

\* A sorted query with a limit answers with the newest of what it finds.
LEMMA NewestIsPage ==
    ASSUME NEW stored, NEW n \in Nat, Len(stored) = n,
           \A i, j \in 1..n : stored[i] = stored[j] => i = j,
           NEW filters, NEW limit \in Nat,
           NEW W, W = {stored[i] : i \in Found(stored, filters, Within)},
           NEW R \in Newest(stored, filters, Within, limit)
    PROVE  /\ R \subseteq W /\ IsFiniteSet(W) /\ Cardinality(W) \in Nat
           /\ Cardinality(R) = IF Cardinality(W) < limit THEN Cardinality(W) ELSE limit
           /\ \A d \in R, e \in W \ R : d.created_on >= e.created_on
<1>1. PICK found : found = Found(stored, filters, Within)
  OBVIOUS
<1>2. found \subseteq 1..n /\ IsFiniteSet(found)
  <2>1. found \subseteq 1..n
    BY <1>1 DEF Found
  <2>2. IsFiniteSet(1..n)
    BY FS_Interval
  <2> QED BY <2>1, <2>2, FS_Subset
<1>3. PICK S \in SUBSET found :
        /\ Cardinality(S) = IF Cardinality(found) < limit THEN Cardinality(found) ELSE limit
        /\ \A i \in S, j \in found \ S : stored[i].created_on >= stored[j].created_on
        /\ R = {stored[i] : i \in S}
  BY <1>1 DEF Newest
<1>4. IsFiniteSet(S) /\ S \subseteq 1..n
  BY <1>2, FS_Subset
<1>5. IsFiniteSet(W) /\ Cardinality(W) = Cardinality(found)
  BY <1>1, <1>2, ImageSize
<1>6. Cardinality(R) = Cardinality(S)
  <2>1. \A x, y \in S : stored[x] = stored[y] => x = y
    BY <1>4
  <2>2. IsFiniteSet(S) /\ R = {stored[i] : i \in S}
    BY <1>3, <1>4
  <2> QED BY <2>1, <2>2, ImageSize
<1>7. \A d \in R, e \in W \ R : d.created_on >= e.created_on
  <2> SUFFICES ASSUME NEW d \in R, NEW e \in W, e \notin R PROVE d.created_on >= e.created_on
    OBVIOUS
  <2>1. PICK i \in S : d = stored[i]
    BY <1>3
  <2>2. PICK j \in found : e = stored[j]
    BY <1>1
  <2>3. j \notin S
    BY <1>3, <2>2
  <2> QED BY <1>3, <2>1, <2>2, <2>3
<1>8. R \subseteq W
  BY <1>1, <1>3
<1>9. Cardinality(W) \in Nat
  BY <1>5, FS_CardinalityType
<1> QED BY <1>3, <1>5, <1>6, <1>7, <1>8, <1>9

LEMMA ItemsDiffer ==
    ASSUME TypeOK
    PROVE  /\ Len(items) \in Nat
           /\ \A i, j \in 1..Len(items) : items[i] = items[j] => i = j
           /\ \A i \in 1..Len(items) : items[i]._id = i
<1>1. Len(items) \in Nat /\ \A i \in 1..Len(items) : items[i]._id = i
  BY DEF TypeOK
<1>2. \A i, j \in 1..Len(items) : items[i] = items[j] => items[i]._id = items[j]._id
  OBVIOUS
<1> QED BY <1>1, <1>2

LEMMA PagesAreWindows == ASSUME TypeOK PROVE PageIsWindow
<1> SUFFICES ASSUME NEW cid \in 1..Len(chats), NEW bound \in 0..MaxItems, NEW from \in 0..MaxTime,
                    NEW ids \in SUBSET (1..Len(items)), NEW limit \in 1..2
             PROVE  LET all == {items[i] : i \in 1..Len(items)}
                        mine == {d \in all : d.cid = cid /\ (ids # {} => d._id \in ids)}
                        older == {d \in mine : from # 0 => d.created_on < from}
                        window == {d \in mine :
                                     /\ from # 0 => d.created_on > from
                                     /\ \A o \in all : o._id = bound => d.created_on < o.created_on}
                        IsPage(R, W) == /\ R \subseteq W
                                        /\ Cardinality(R) = IF Cardinality(W) < limit
                                                            THEN Cardinality(W) ELSE limit
                                        /\ \A d \in R, e \in W \ R : d.created_on >= e.created_on
                    IN  /\ \A R \in GetPrompts(cid, bound, ids, from, limit) : IsPage(R, window)
                        /\ \A R \in FetchShouts(cid, from, ids, limit) : IsPage(R, older)
  BY DEF PageIsWindow
<1> DEFINE all == {items[i] : i \in 1..Len(items)}
           mine == {d \in all : d.cid = cid /\ (ids # {} => d._id \in ids)}
           older == {d \in mine : from # 0 => d.created_on < from}
           window == {d \in mine :
                        /\ from # 0 => d.created_on > from
                        /\ \A o \in all : o._id = bound => d.created_on < o.created_on}
<1>1. bound \in Nat /\ limit \in Nat
  BY BoundAssumption
<1>2. PICK P, Q : P = PromptFilters(cid, bound, ids, from) /\ Q = ShoutFilters(cid, from, ids)
  OBVIOUS
<1>3. older = {items[i] : i \in Found(items, Q, Within)}
  <2>1. \A i \in 1..Len(items) :
           i \in Found(items, Q, Within) <=> /\ items[i].cid = cid
                                             /\ from # 0 => items[i].created_on < from
                                             /\ ids # {} => items[i]._id \in ids
    BY <1>2, ShoutQuery DEF Found
  <2>2. Found(items, Q, Within) \subseteq 1..Len(items)
    BY DEF Found
  <2> QED BY <2>1, <2>2
<1>4. window = {items[i] : i \in Found(items, P, Within)}
  <2>1. \A i \in 1..Len(items) :
           i \in Found(items, P, Within)
              <=> /\ items[i].cid = cid
                  /\ bound \in 1..Len(items) => items[i].created_on < items[bound].created_on
                  /\ ids # {} => items[i]._id \in ids
                  /\ from # 0 => items[i].created_on > from
    BY <1>1, <1>2, PromptQuery DEF Found
  <2>2. Found(items, P, Within) \subseteq 1..Len(items)
    BY DEF Found
  <2>3. \A d : (\A o \in all : o._id = bound => d.created_on < o.created_on)
                 <=> (bound \in 1..Len(items) => d.created_on < items[bound].created_on)
    BY ItemsDiffer
  <2> QED BY <2>1, <2>2, <2>3
<1> HIDE DEF all, mine, older, window
<1>5. ASSUME NEW R \in GetPrompts(cid, bound, ids, from, limit)
      PROVE  /\ R \subseteq window
             /\ Cardinality(R) = IF Cardinality(window) < limit THEN Cardinality(window) ELSE limit
             /\ \A d \in R, e \in window \ R : d.created_on >= e.created_on
  BY <1>1, <1>2, <1>4, ItemsDiffer, NewestIsPage DEF GetPrompts
<1>6. ASSUME NEW R \in FetchShouts(cid, from, ids, limit)
      PROVE  /\ R \subseteq older
             /\ Cardinality(R) = IF Cardinality(older) < limit THEN Cardinality(older) ELSE limit
             /\ \A d \in R, e \in older \ R : d.created_on >= e.created_on
  BY <1>1, <1>2, <1>3, ItemsDiffer, NewestIsPage DEF FetchShouts
<1> QED BY <1>5, <1>6 DEF all, mine, older, window

LEMMA AnswersAreItems ==
    ASSUME NEW filters, NEW limit, NEW R \in Newest(items, filters, Within, limit)
    PROVE  R \subseteq {items[i] : i \in Found(items, filters, Within)}
BY DEF Newest

\* Looking up an id, some ids, a prompt.
LEMMA LookupsAreExact == ASSUME TypeOK PROVE LookupExact
<1>0. /\ Len(items) \in Nat /\ \A i \in 1..Len(items) : items[i]._id = i
  BY ItemsDiffer
<1>1. ASSUME NEW id \in 0..MaxItems
      PROVE  GetItem(items, id, <<>>, Within) = {items[i] : i \in {id} \cap 1..Len(items)}
  <2>1. CASE id = 0
    <3>1. ItemFilters(id, <<>>) = <<>>
      BY <2>1 DEF ItemFilters, Optional
    <3> QED BY <1>0, <2>1, <3>1 DEF GetItem
  <2>2. CASE id # 0
    <3>1. ItemFilters(id, <<>>) = <<Equal("_id", id)>>
      BY <2>2 DEF ItemFilters, Optional
    <3>2. <<Equal("_id", id)>> # <<>>
      OBVIOUS
    <3>3. id \in Nat
      BY BoundAssumption
    <3> QED BY <3>1, <3>2, <3>3, OneItem DEF GetItem
  <2> QED BY <2>1, <2>2
<1>2. ASSUME NEW ids \in SUBSET (1..MaxItems)
      PROVE  ListContains(ids) = [id \in ids \cap 1..Len(items) |-> {items[id]}]
  <2>1. PICK found : found = IF ids = {} THEN {} ELSE Found(items, Contains("_id", ids), Within)
    OBVIOUS
  <2>2. found = ids \cap 1..Len(items)
    <3>1. CASE ids = {}
      BY <2>1, <3>1
    <3>2. CASE ids # {}
      <4>1. \A i \in 1..Len(items) : Matches(BuildFilters(Contains("_id", ids)), items[i], Within) <=> i \in ids
        BY <1>0, <3>2, IdsQuery
      <4> QED BY <2>1, <3>2, <4>1 DEF Found
    <3> QED BY <3>1, <3>2
  <2>3. {items[i]._id : i \in found} = found
    BY <1>0, <2>2
  <2>4. \A id \in found : {items[i] : i \in {j \in found : items[j]._id = id}} = {items[id]}
    BY <1>0, <2>2
  <2>5. ListContains(ids) = [id \in found |-> {items[i] : i \in {j \in found : items[j]._id = id}}]
    BY <2>1, <2>3 DEF ListContains
  <2> QED BY <2>2, <2>4, <2>5
<1>3. ASSUME NEW id \in 0..MaxItems, NEW cid \in 1..Len(chats)
      PROVE  PromptData(cid, id) = {d \in {items[i] : i \in 1..Len(items)} : d._id = id /\ d.cid = cid}
  <2>1. PICK P, W, found : /\ P = PromptFilters(cid, 0, {id}, 0)
                           /\ found = Found(items, P, Within) /\ W = {items[i] : i \in found}
    OBVIOUS
  <2>2. \A i \in 1..Len(items) : i \in found <=> items[i].cid = cid /\ items[i]._id = id
    BY <1>0, <2>1, PromptQuery DEF Found
  <2>3. found \subseteq 1..Len(items) /\ found \subseteq {id}
    BY <1>0, <2>1, <2>2 DEF Found
  <2>4. W = {d \in {items[i] : i \in 1..Len(items)} : d._id = id /\ d.cid = cid}
    <3>1. \A d \in W : \E i \in 1..Len(items) : d = items[i] /\ d._id = id /\ d.cid = cid
      BY <2>1, <2>2, <2>3
    <3>2. \A i \in 1..Len(items) : items[i]._id = id /\ items[i].cid = cid => items[i] \in W
      BY <2>1, <2>2
    <3> QED BY <3>1, <3>2
  <2>5. IsFiniteSet(found) /\ Cardinality(found) <= 1 /\ Cardinality(found) \in Nat
    <3>1. IsFiniteSet({id}) /\ Cardinality({id}) = 1 /\ found \in SUBSET {id}
      BY <2>3, FS_Singleton
    <3>2. IsFiniteSet(found) /\ Cardinality(found) <= 1
      BY <3>1, FS_Subset
    <3> QED BY <3>2, FS_CardinalityType
  <2>6. W \in Newest(items, P, Within, 5)
    <3>1. /\ found \in SUBSET found /\ found \ found = {}
          /\ Cardinality(found) = IF Cardinality(found) < 5 THEN Cardinality(found) ELSE 5
      BY <2>5
    <3> QED BY <2>1, <3>1 DEF Newest
  <2>7. ASSUME NEW R \in Newest(items, P, Within, 5) PROVE R \subseteq W
    <3>1. PICK lim \in Nat : lim = 5
      OBVIOUS
    <3> QED BY <2>1, <3>1, AnswersAreItems
  <2>8. UNION Newest(items, P, Within, 5) = W
    BY <2>6, <2>7
  <2> QED BY <2>1, <2>4, <2>8 DEF PromptData, GetPrompts
<1> QED BY <1>1, <1>2, <1>3 DEF LookupExact

-----------------------------------------------------------------------------
\* The chat that comes with the database stays the first one.
GlobalFirst == chats[1] = Global

LEMMA GlobalStaysFirst == TypeOK /\ GlobalFirst /\ [Next]_vars => GlobalFirst'
<1> SUFFICES ASSUME TypeOK, GlobalFirst, [Next]_vars PROVE GlobalFirst'
  OBVIOUS
<1>1. ASSUME NEW c, chats' = Append(chats, c) PROVE GlobalFirst'
  <2>1. chats \in Seq(Chat) /\ Len(chats) \in 1..MaxChats
    BY DEF TypeOK, Chat
  <2> QED BY <1>1, <2>1 DEF GlobalFirst
<1>2. CASE chats' = chats
  BY <1>2 DEF GlobalFirst
<1> QED BY <1>1, <1>2 DEF Next, NewConversation, AddItem, Tick, vars

LEMMA IdMatches ==
    ASSUME NEW text, NEW user, NEW c
    PROVE  Matches(BuildFilters(ChatFilters(text, <<"_id">>, FALSE, user)), c, Within) <=> c._id = text
<1>1. Len(ById) = 1 /\ ById[1] = "_id"
  BY DEF ById
<1>2. Matches(BuildFilters(ChatFilters(text, ById, FALSE, user)), c, Within)
        <=> \E i \in 1..Len(ById) : c[ById[i]] = text
  BY ChatMatches
<1>3. (\E i \in 1..Len(ById) : c[ById[i]] = text) <=> c["_id"] = text
  BY <1>1
<1> QED BY <1>2, <1>3 DEF ById

LEMMA FirstChat ==
    ASSUME TypeOK, NEW user
    PROVE  GetChat(1, <<"_id">>, user) = {chats[1]}
<1>0. Len(chats) \in Nat /\ Len(chats) >= 1 /\ \A i \in 1..Len(chats) : chats[i]._id = i
  BY BoundAssumption DEF TypeOK
<1>1. PICK text : text = 1
  OBVIOUS
<1>2. PICK found : found = Found(chats, ChatFilters(text, <<"_id">>, FALSE, user), Within)
  OBVIOUS
<1>3. \A i \in 1..Len(chats) : i \in found <=> chats[i]._id = text
  BY <1>2, IdMatches DEF Found
<1>4. found = {1}
  <2>1. found \subseteq 1..Len(chats)
    BY <1>2 DEF Found
  <2>2. 1 \in found
    BY <1>0, <1>1, <1>3
  <2>3. \A i \in found : i = 1
    BY <1>0, <1>1, <1>3, <2>1
  <2> QED BY <2>2, <2>3
<1>5. {j \in found : \A k \in found : j <= k} = {1}
  BY <1>4
<1> QED BY <1>1, <1>2, <1>4, <1>5 DEF GetChat, First

LEMMA LiveAnswers == ASSUME TypeOK, GlobalFirst PROVE LiveIsNewest
<1>0. /\ Len(chats) \in Nat
      /\ \A i \in 1..Len(chats) : chats[i]._id = i /\ chats[i].created_on \in 0..MaxTime
      /\ \A i \in 1..Len(chats) : chats[i].is_private \in BOOLEAN /\ chats[i].is_live_conversation \in BOOLEAN
  <2>1. chats \in Seq(Chat) /\ \A i \in 1..Len(chats) : chats[i]._id = i
    BY DEF TypeOK, Chat
  <2>2. Len(chats) \in Nat /\ \A i \in 1..Len(chats) : chats[i] \in Chat
    BY <2>1
  <2> QED BY <2>1, <2>2 DEF Chat
<1>1. PICK found, W : /\ found = Found(chats, LiveFilters, Within)
                      /\ W = {chats[i] : i \in found}
  OBVIOUS
<1>2. found = {i \in 1..Len(chats) : chats[i].is_live_conversation /\ ~chats[i].is_private}
  <2>1. \A i \in 1..Len(chats) : i \in found <=> chats[i].is_private = FALSE /\ chats[i].is_live_conversation = TRUE
    BY <1>1, LiveQuery DEF Found
  <2>2. found \subseteq 1..Len(chats)
    BY <1>1 DEF Found
  <2> QED BY <1>0, <2>1, <2>2
<1>3. \A i, j \in 1..Len(chats) : chats[i] = chats[j] => i = j
  <2>1. \A i, j \in 1..Len(chats) : chats[i] = chats[j] => chats[i]._id = chats[j]._id
    OBVIOUS
  <2> QED BY <1>0, <2>1
<1>4. ASSUME NEW R \in Newest(chats, LiveFilters, Within, 1)
      PROVE  /\ R \subseteq W /\ Cardinality(W) \in Nat /\ IsFiniteSet(W)
             /\ Cardinality(R) = IF Cardinality(W) < 1 THEN Cardinality(W) ELSE 1
             /\ \A d \in R, e \in W \ R : d.created_on >= e.created_on
  BY <1>0, <1>1, <1>3, NewestIsPage
<1>5. PICK newest : newest = UNION Newest(chats, LiveFilters, Within, 1)
  OBVIOUS
<1>6. CASE found = {}
  <2>1. newest = {}
    BY <1>1, <1>4, <1>5, <1>6
  <2>2. \A u \in Users : Live(u) = {Global}
    BY <1>5, <2>1, FirstChat DEF Live, GlobalFirst
  <2> QED BY <1>2, <1>6, <2>2 DEF LiveIsNewest
<1>7. CASE found # {}
  <2>1. newest # {}
    <3>1. PICK i \in found : \A j \in found : chats[i].created_on >= chats[j].created_on
      <4> DEFINE age(j) == MaxTime - chats[j].created_on
                 ages == {age(j) : j \in found}
      <4>1. \A j \in found : age(j) \in Nat /\ chats[j].created_on \in Nat
        BY <1>0, <1>2, BoundAssumption
      <4>2. ages \in SUBSET Nat /\ ages # {}
        BY <1>7, <4>1
      <4> HIDE DEF ages
      <4>3. PICK a \in ages : \A b \in ages : a <= b
        BY <4>2, EarliestExists
      <4>4. PICK i \in found : a = age(i)
        BY DEF ages
      <4>5. \A j \in found : age(i) <= age(j)
        BY <4>3, <4>4 DEF ages
      <4> QED BY <4>1, <4>5, BoundAssumption
    <3>2. IsFiniteSet(found) /\ Cardinality(found) \in Nat /\ Cardinality(found) # 0
      <4>1. IsFiniteSet(1..Len(chats)) /\ found \in SUBSET (1..Len(chats))
        BY <1>0, <1>2, FS_Interval
      <4> QED BY <1>7, <4>1, FS_Subset, FS_CardinalityType, FS_EmptySet
    <3>3. /\ {i} \in SUBSET found /\ Cardinality({i}) = 1
          /\ Cardinality({i}) = IF Cardinality(found) < 1 THEN Cardinality(found) ELSE 1
      BY <3>2, FS_Singleton
    <3>4. \A k \in {i}, j \in found \ {i} : chats[k].created_on >= chats[j].created_on
      BY <3>1
    <3>5. {chats[k] : k \in {i}} \in Newest(chats, LiveFilters, Within, 1)
      BY <1>1, <3>3, <3>4 DEF Newest
    <3> QED BY <1>5, <3>5
  <2>2. ASSUME NEW c \in newest
        PROVE  c \in W /\ \A i \in found : c.created_on >= chats[i].created_on
    <3>1. PICK R \in Newest(chats, LiveFilters, Within, 1) : c \in R
      BY <1>5
    <3>2. c \in W /\ \A e \in W \ R : c.created_on >= e.created_on
      BY <1>4, <3>1
    <3>3. R = {c}
      <4>1. Cardinality(W) # 0
        BY <1>4, <3>2, FS_EmptySet
      <4>2. Cardinality(R) = 1 /\ IsFiniteSet(R)
        BY <1>4, <4>1, FS_Subset
      <4> QED BY <3>1, <4>2, FS_Singleton
    <3>4. c.created_on >= c.created_on
      BY <1>0, <1>1, <1>2, <3>2, BoundAssumption
    <3> QED BY <1>1, <3>2, <3>3, <3>4
  <2>3. \A u \in Users : Live(u) = newest
    BY <1>5, <2>1 DEF Live
  <2> QED BY <1>1, <1>2, <1>7, <2>1, <2>2, <2>3 DEF LiveIsNewest
<1> QED BY <1>6, <1>7

\* Whatever the database is asked by id, by ids, for the live chat or for a
\* page, it answers with what the caller's conditions describe
\* (MongoQuery.build_filters, get_live_conversation, fetch_shout_data, get_prompts).
THEOREM ReadsAreExact == Spec => []ReadsExact
<1>1. Init => GlobalFirst
  BY DEF Init, GlobalFirst
<1>2. TypeOK /\ GlobalFirst => ReadsExact
  BY LookupsAreExact, LiveAnswers, PagesAreWindows DEF ReadsExact
<1> QED BY <1>1, <1>2, GlobalStaysFirst, TypeCorrect, PTL DEF Spec

-----------------------------------------------------------------------------
\* A list of alternatives is merged with whatever comes after it.
LEMMA AlternativesAccepted ==
    ASSUME NEW alts, NEW d
    PROVE  Accepted(<<OrList(alts), OrDict(d)>>) /\ Accepted(<<OrList(alts)>>)
<1>1. PICK one, two : one = <<OrList(alts)>> /\ two = <<OrList(alts), OrDict(d)>>
  OBVIOUS
<1>2. /\ Len(one) = 1 /\ one[1] = OrList(alts)
      /\ Len(two) = 2 /\ two[1] = OrList(alts) /\ two[2] = OrDict(d)
  BY <1>1
<1>3. SubSeq(one, 1, 0) = <<>> /\ SubSeq(two, 1, 0) = <<>> /\ SubSeq(two, 1, 1) = one
  <2>1. SubSeq(one, 1, 0) = <<>> /\ SubSeq(two, 1, 0) = <<>>
    BY SubSeqEmpty
  <2>2. SubSeq(two, 1, 1) = <<two[1]>>
    <3>1. \A i \in 1..1 : two[i] \in {two[1]}
      OBVIOUS
    <3>2. /\ SubSeq(two, 1, 1) \in Seq({two[1]})
          /\ Len(SubSeq(two, 1, 1)) = IF 1 <= 1 THEN 1 - 1 + 1 ELSE 0
          /\ \A i \in 1..(1 - 1 + 1) : SubSeq(two, 1, 1)[i] = two[1 + i - 1]
      BY <3>1, SubSeqProperties
    <3>3. PICK ss, S, e : ss = SubSeq(two, 1, 1) /\ S = {two[1]} /\ e = two[1]
      OBVIOUS
    <3>4. ss \in Seq(S) /\ Len(ss) = 1 /\ ss[1] = e
      BY <3>2, <3>3
    <3>5. ss = <<e>>
      BY <3>4
    <3> QED BY <3>3, <3>5
  <2> QED BY <1>1, <1>2, <2>1, <2>2
<1>4. BuildFilters(<<>>) = {} /\ BuildFilters(one) = OrList(alts) /\ BuildFilters(two) = OrList(alts)
  <2>1. BuildFilters(<<>>) = {}
    BY DEF BuildFilters
  <2>2. BuildFilters(one) = OrList(alts)
    BY <1>2 DEF BuildFilters
  <2> QED BY <1>1, <2>1, <2>2, ListReplaces
<1>5. ~Clash({}, OrList(alts)) /\ ~Clash(OrList(alts), OrDict(d))
  BY DEF Clash, OrList
<1>6. \A e \in OrList(alts) : e[2] = "equal"
  BY DEF OrList
<1>7. Accepted(one)
  <2>1. ASSUME NEW i \in 1..Len(one) PROVE ~Clash(BuildFilters(SubSeq(one, 1, i - 1)), one[i])
    <3>1. i = 1 /\ i - 1 = 0
      BY <1>2
    <3> QED BY <1>2, <1>3, <1>4, <1>5, <3>1
  <2> QED BY <1>4, <1>6, <2>1 DEF Accepted
<1>8. Accepted(two)
  <2>1. ASSUME NEW i \in 1..Len(two) PROVE ~Clash(BuildFilters(SubSeq(two, 1, i - 1)), two[i])
    <3>1. (i = 1 /\ i - 1 = 0) \/ (i = 2 /\ i - 1 = 1)
      BY <1>2
    <3> QED BY <1>2, <1>3, <1>4, <1>5, <3>1
  <2> QED BY <1>4, <1>6, <2>1 DEF Accepted
<1> QED BY <1>1, <1>7, <1>8

LEMMA AllAccepted == ASSUME TypeOK PROVE QueriesAccepted
<1>1. ASSUME NEW text, NEW columns, NEW regex, NEW u
      PROVE  /\ Accepted(ChatFilters(text, columns, regex, u))
             /\ Accepted(<<MatchingChatFilter(text, columns, regex)>>)
  BY AlternativesAccepted DEF ChatFilters, MatchingChatFilter, PrivacyFilter
<1>2. ASSUME NEW cid, NEW ids, NEW from, NEW bound \in 0..Len(items)
      PROVE  Accepted(PromptFilters(cid, bound, ids, from)) /\ Accepted(ShoutFilters(cid, from, ids))
  <2>1. bound \in Nat
    BY ItemsDiffer
  <2> QED BY <2>1, PromptQuery, ShoutQuery
<1> QED BY <1>1, <1>2, LiveQuery DEF QueriesAccepted

\* Neither deep_merge nor MongoDB refuses the filters of any caller.
THEOREM QueriesAreAccepted == Spec => []QueriesAccepted
  BY AllAccepted, TypeCorrect, PTL DEF Spec

-----------------------------------------------------------------------------
(***************************************************************************)
(* The types, and that the loop of restoreChatAlignmentFromCache restores  *)
(* one chat at a time.                                                     *)
(***************************************************************************)
LEMMA JobsStayTyped ==
    ASSUME NEW h \in Handlers, job \in [Handlers -> Job \cup {Idle}],
           NEW j \in Job \cup {Idle}
    PROVE  [job EXCEPT ![h] = j] \in [Handlers -> Job \cup {Idle}]
OBVIOUS

LEMMA AskedIsTyped ==
    ASSUME NEW h \in Handlers, NEW kind \in Kinds, NEW k \in Chats, NEW s \in CardSkins,
           job \in [Handlers -> Job \cup {Idle}], Ask(h, kind, k, s)
    PROVE  /\ job' \in [Handlers -> Job \cup {Idle}]
           /\ job'[h] = [at |-> "asked", kind |-> kind, chat |-> k, skin |-> s]
           /\ \A g \in Handlers \ {h} : job'[g] = job[g]
BY DEF Ask, Job

\* A job at one of the stages is no idle one.
LEMMA AtWork ==
    ASSUME LayoutTypeOK, NEW h \in Handlers, job[h].at # "idle"
    PROVE  job[h] \in Job
BY DEF LayoutTypeOK, Idle

LEMMA MovedIsTyped ==
    ASSUME LayoutTypeOK, NEW h \in Handlers, job[h].at # "idle",
           NEW stage \in {"asked"} \cup Opening, job' = [job EXCEPT ![h].at = stage]
    PROVE  /\ job' \in [Handlers -> Job \cup {Idle}]
           /\ job'[h].at = stage /\ job'[h].kind = job[h].kind
           /\ job'[h].chat = job[h].chat /\ job'[h].skin = job[h].skin
           /\ \A g \in Handlers \ {h} : job'[g] = job[g]
<1>1. job[h] \in Job
  BY AtWork
<1>2. [job[h] EXCEPT !.at = stage] \in Job
  BY <1>1 DEF Job
<1> QED BY <1>1, <1>2 DEF LayoutTypeOK, Job

LEMMA IdledIsTyped ==
    ASSUME LayoutTypeOK, NEW h \in Handlers, job' = [job EXCEPT ![h] = Idle]
    PROVE  /\ job' \in [Handlers -> Job \cup {Idle}]
           /\ job'[h].at = "idle"
           /\ \A g \in Handlers \ {h} : job'[g] = job[g]
BY DEF LayoutTypeOK, Idle

LEMMA LayoutTypesBegin == ASSUME LayoutInit PROVE LayoutTypeOK
<1>1. \A h \in Handlers : job[h].at = "idle"
  BY DEF LayoutInit, Idle
<1>2. Restoring = {}
  BY <1>1 DEF Restoring
<1>3. layout \in [Chats -> CardSkins \cup {NoSkin}] /\ job \in [Handlers -> Job \cup {Idle}]
  BY DEF LayoutInit
<1> QED BY <1>2, <1>3 DEF LayoutInit, LayoutTypeOK

LEMMA LayoutTypesKept ==
    ASSUME LayoutTypeOK, [LayoutNext]_layoutVars PROVE LayoutTypeOK'
<1> USE ChatsAssumption
<1>1. ASSUME NEW h \in Handlers, NEW k \in Chats,
             SearchChat(h, k) \/ Create(h, k) \/ RestoreLive(h, k)
      PROVE  LayoutTypeOK'
  <2>1. PICK kind \in Kinds \ {"restore"} : Ask(h, kind, k, "prompts")
    BY <1>1 DEF SearchChat, Create, RestoreLive, Kinds
  <2>2. /\ job' \in [Handlers -> Job \cup {Idle}]
        /\ job'[h] = [at |-> "asked", kind |-> kind, chat |-> k, skin |-> "prompts"]
        /\ \A g \in Handlers \ {h} : job'[g] = job[g]
    BY <2>1, AskedIsTyped DEF LayoutTypeOK, CardSkins
  <2>3. \A f, g \in Restoring' : f = g
    BY <2>2 DEF Restoring, LayoutTypeOK
  <2> QED BY <1>1, <2>2, <2>3 DEF SearchChat, Create, RestoreLive, LayoutTypeOK
<1>2. ASSUME NEW h \in Handlers, NEW i \in toRestore, RestoreNext(h, i)
      PROVE  LayoutTypeOK'
  <2>1. /\ job' \in [Handlers -> Job \cup {Idle}]
        /\ \A g \in Handlers \ {h} : job'[g] = job[g]
    BY <1>2, AskedIsTyped DEF RestoreNext, LayoutTypeOK, Row, Kinds
  <2>2. \A f, g \in Restoring' : f = g
    BY <1>2, <2>1 DEF RestoreNext, Restoring
  <2> QED BY <1>2, <2>1, <2>2 DEF RestoreNext, LayoutTypeOK
<1>3. ASSUME NEW h \in Handlers, OpenFound(h) \/ OpenUnseen(h) \/ NotFound(h)
      PROVE  LayoutTypeOK'
  <2>1. job[h] \in Job
    BY <1>3, AtWork DEF OpenFound, OpenUnseen, NotFound
  <2>2. job[h].at = "asked" /\ (job' = [job EXCEPT ![h].at = "building"]
                                \/ job' = [job EXCEPT ![h] = Idle])
    BY <1>3 DEF OpenFound, OpenUnseen, NotFound, Build
  <2>3. /\ job' \in [Handlers -> Job \cup {Idle}]
        /\ (job'[h].kind = job[h].kind \/ job'[h].at = "idle")
        /\ \A g \in Handlers \ {h} : job'[g] = job[g]
    <3>1. job[h].at # "idle" /\ "building" \in {"asked"} \cup Opening
      BY <2>2 DEF Opening
    <3>2. CASE job' = [job EXCEPT ![h].at = "building"]
      BY <3>1, <3>2, MovedIsTyped
    <3>3. CASE job' = [job EXCEPT ![h] = Idle]
      BY <3>3, IdledIsTyped
    <3> QED BY <2>2, <3>2, <3>3
  <2>4. \A f, g \in Restoring' : f = g
    BY <2>2, <2>3 DEF Restoring, LayoutTypeOK
  <2>5. layout' \in [Chats -> CardSkins \cup {NoSkin}] /\ doubled' \subseteq Chats
    BY <1>3, <2>1 DEF OpenFound, OpenUnseen, NotFound, Build, Job, LayoutTypeOK
  <2> QED BY <1>3, <2>3, <2>4, <2>5 DEF OpenFound, OpenUnseen, NotFound, LayoutTypeOK
<1>4. ASSUME NEW h \in Handlers, Show(h) \/ FailToShow(h) \/ Attach(h) \/ FailToAttach(h)
                             \/ Close(h)
      PROVE  LayoutTypeOK'
  <2>1. job[h] \in Job
    BY <1>4, AtWork DEF Show, FailToShow, Attach, FailToAttach, Close
  <2>2. /\ job[h].at \in Opening
        /\ \/ job' = [job EXCEPT ![h].at = "shown"] /\ job[h].at = "building"
           \/ \E at \in {"bare", "ready"} : job' = [job EXCEPT ![h].at = at]
           \/ job' = [job EXCEPT ![h] = Idle]
    BY <1>4 DEF Show, FailToShow, Attach, FailToAttach, Close, Opening, OnPage
  <2>3. /\ job' \in [Handlers -> Job \cup {Idle}]
        /\ (\/ job'[h].at \in {"idle", "bare", "ready"}
            \/ job[h].at = "building" /\ job'[h].kind = job[h].kind)
        /\ \A g \in Handlers \ {h} : job'[g] = job[g]
    <3>1. /\ job[h].at # "idle"
          /\ {"shown", "bare", "ready"} \subseteq {"asked"} \cup Opening
      BY <2>2 DEF Opening, OnPage
    <3>2. CASE job' = [job EXCEPT ![h].at = "shown"] /\ job[h].at = "building"
      BY <3>1, <3>2, MovedIsTyped
    <3>3. CASE \E at \in {"bare", "ready"} : job' = [job EXCEPT ![h].at = at]
      BY <3>1, <3>3, MovedIsTyped
    <3>4. CASE job' = [job EXCEPT ![h] = Idle]
      BY <3>4, IdledIsTyped
    <3> QED BY <2>2, <3>2, <3>3, <3>4
  <2>4. \A f, g \in Restoring' : f = g
    BY <2>2, <2>3 DEF Restoring, LayoutTypeOK
  <2>5. /\ layout' \in [Chats -> CardSkins \cup {NoSkin}]
        /\ toRestore' \subseteq toRestore /\ forsaken' \subseteq Chats
    BY <1>4, <2>1 DEF Show, FailToShow, Attach, FailToAttach, Close, Job, Row, LayoutTypeOK
  <2> QED BY <1>4, <2>3, <2>4, <2>5 DEF Show, FailToShow, Attach, FailToAttach, Close, LayoutTypeOK
<1>5. ASSUME NEW h \in Handlers, SwitchSkin(h) PROVE LayoutTypeOK'
  <2>1. job[h] \in Job
    BY <1>5, AtWork DEF SwitchSkin
  <2>2. \/ job' = [job EXCEPT ![h] = Idle]
        \/ \E s \in CardSkins : Ask(h, "search", job[h].chat, s)
    BY <1>5 DEF SwitchSkin
  <2>3. /\ job' \in [Handlers -> Job \cup {Idle}]
        /\ (job'[h].at = "idle" \/ job'[h].kind = "search")
        /\ \A g \in Handlers \ {h} : job'[g] = job[g]
    <3>1. CASE job' = [job EXCEPT ![h] = Idle]
      BY <3>1, IdledIsTyped
    <3>2. ASSUME NEW s \in CardSkins, Ask(h, "search", job[h].chat, s)
          PROVE  /\ job' \in [Handlers -> Job \cup {Idle}]
                 /\ job'[h].kind = "search"
                 /\ \A g \in Handlers \ {h} : job'[g] = job[g]
      <4>1. "search" \in Kinds /\ job \in [Handlers -> Job \cup {Idle}]
        BY DEF Kinds, LayoutTypeOK
      <4>2. PICK k \in Chats : k = job[h].chat
        BY <2>1 DEF Job
      <4>3. Ask(h, "search", k, s)
        BY <3>2, <4>2
      <4>4. /\ job' \in [Handlers -> Job \cup {Idle}]
            /\ job'[h] = [at |-> "asked", kind |-> "search", chat |-> k, skin |-> s]
            /\ \A g \in Handlers \ {h} : job'[g] = job[g]
        BY <4>1, <4>3, AskedIsTyped
      <4> QED BY <4>4
    <3> QED BY <2>2, <3>1, <3>2
  <2>4. \A f, g \in Restoring' : f = g
    BY <2>3 DEF Restoring, LayoutTypeOK
  <2> QED BY <1>5, <2>1, <2>3, <2>4 DEF SwitchSkin, Job, LayoutTypeOK
<1>6. CASE RestoreFromCache
  BY <1>6 DEF RestoreFromCache, LayoutTypeOK, Restoring
<1>7. CASE Reload
  BY <1>7 DEF Reload, LayoutTypeOK, Restoring, Idle
<1>8. CASE UNCHANGED layoutVars
  BY <1>8 DEF layoutVars, LayoutTypeOK, Restoring
<1> QED BY <1>1, <1>2, <1>3, <1>4, <1>5, <1>6, <1>7, <1>8 DEF LayoutNext

\* Handlers and the stored layout keep their types, and restoreChatAlignment
\* restores one chat at a time (chat_utils.js).
THEOREM LayoutTypeCorrect == LayoutSpec => []LayoutTypeOK
BY LayoutTypesBegin, LayoutTypesKept, PTL DEF LayoutSpec

-----------------------------------------------------------------------------
(***************************************************************************)
(* The layout and the cards agree.                                         *)
(***************************************************************************)

\* A chat is waiting to be restored at most once.
OneWaits ==
    /\ \A i, j \in toRestore : i.chat = j.chat => i = j
    /\ \A h \in Restoring : job[h].at = "asked" => \A i \in toRestore : i.chat # job[h].chat

\* A chat that waits has no card yet, and waits in the skin of its row.
WaitingAgrees ==
    \A k \in Chats \ doubled :
        /\ Pending(k) => Of(k, Opening) = {}
        /\ \A i \in toRestore : i.chat = k => i.skin = layout[k]
        /\ \A h \in Restoring \cap Of(k, {"asked"}) : job[h].skin = layout[k]

\* Before the layout is read nothing is restored.
NoneBefore == ~loaded => toRestore = {} /\ Restoring = {}

\* The inductive invariant of the layout.
LayoutInv == LayoutTypeOK /\ LayoutAgrees /\ OneWaits /\ WaitingAgrees /\ NoneBefore

\* A handler is told from the others by its stage only: what h does leaves theirs.
Others(h) == \A g \in Handlers \ {h} : job'[g] = job[g]

LEMMA MovedJob ==
    ASSUME LayoutTypeOK, NEW h \in Handlers, job[h].at # "idle",
           NEW stage, job' = [job EXCEPT ![h].at = stage]
    PROVE  /\ job'[h].at = stage /\ job'[h].kind = job[h].kind
           /\ job'[h].chat = job[h].chat /\ job'[h].skin = job[h].skin
           /\ Others(h)
<1>1. job[h] \in Job
  BY AtWork
<1> QED BY <1>1 DEF LayoutTypeOK, Job, Others

LEMMA IdledJob ==
    ASSUME LayoutTypeOK, NEW h \in Handlers, job' = [job EXCEPT ![h] = Idle]
    PROVE  job'[h].at = "idle" /\ Others(h)
BY DEF LayoutTypeOK, Idle, Others

LEMMA AskedJob ==
    ASSUME LayoutTypeOK, NEW h \in Handlers, NEW kind, NEW k, NEW s, Ask(h, kind, k, s)
    PROVE  /\ job'[h].at = "asked" /\ job'[h].kind = kind
           /\ job'[h].chat = k /\ job'[h].skin = s
           /\ Others(h)
BY DEF LayoutTypeOK, Ask, Others

LEMMA AskingKeepsLayout ==
    ASSUME LayoutInv, NEW h \in Handlers, NEW k \in Chats,
           SearchChat(h, k) \/ Create(h, k) \/ RestoreLive(h, k)
    PROVE  LayoutAgrees' /\ OneWaits' /\ WaitingAgrees' /\ NoneBefore'
<1>1. /\ job'[h].at = "asked" /\ job'[h].kind # "restore" /\ Others(h)
      /\ job[h].at = "idle"
  BY AskedJob DEF SearchChat, Create, RestoreLive, LayoutInv, Idle
<1>2. /\ toRestore' = toRestore /\ layout' = layout /\ doubled' = doubled
      /\ \/ loaded' = loaded /\ forsaken' = forsaken
         \/ loaded' = TRUE /\ forsaken' = forsaken \cup {c \in Chats : layout[c] # NoSkin /\ Of(c, Opening) = {}}
  BY DEF SearchChat, Create, RestoreLive
<1>3. /\ Restoring' = Restoring
      /\ \A c : Of(c, Opening)' = Of(c, Opening)
  BY <1>1 DEF Restoring, Of, Opening, OnPage, Others
<1>4. \A g \in Restoring : job'[g] = job[g]
  BY <1>1 DEF Restoring, Others
<1>5. \A c : (Restoring \cap Of(c, {"asked"}))' = Restoring \cap Of(c, {"asked"})
  BY <1>3, <1>4 DEF Of
<1>6. \A c : Pending(c)' <=> Pending(c)
  BY <1>2, <1>5 DEF Pending
<1>7. LayoutAgrees'
  <2>1. \A c \in Chats : \A g \in Of(c, Opening) : job'[g] = job[g]
    BY <1>1 DEF Of, Opening, OnPage, Others
  <2> QED BY <2>1, <1>2, <1>3, <1>6 DEF LayoutAgrees, LayoutInv
<1>8. OneWaits'
  BY <1>2, <1>3, <1>4 DEF OneWaits, LayoutInv
<1>9. WaitingAgrees'
  BY <1>2, <1>3, <1>4, <1>5, <1>6 DEF WaitingAgrees, LayoutInv
<1>10. NoneBefore'
  BY <1>2, <1>3 DEF NoneBefore, LayoutInv
<1> QED BY <1>7, <1>8, <1>9, <1>10

LEMMA RestoringKeepsLayout ==
    ASSUME LayoutInv, NEW h \in Handlers, NEW i \in toRestore, RestoreNext(h, i)
    PROVE  LayoutAgrees' /\ OneWaits' /\ WaitingAgrees' /\ NoneBefore'
<1>1. /\ job'[h].at = "asked" /\ job'[h].kind = "restore" /\ Others(h)
      /\ job'[h].chat = i.chat /\ job'[h].skin = i.skin
      /\ job[h].at = "idle"
  BY AskedJob DEF RestoreNext, LayoutInv, Idle
<1>2. /\ toRestore' = toRestore \ {i} /\ layout' = layout /\ doubled' = doubled
      /\ loaded' = loaded /\ forsaken' = forsaken
  BY DEF RestoreNext
<1>3. /\ Restoring' = {h}
      /\ \A c : Of(c, Opening)' = Of(c, Opening)
  BY <1>1 DEF Restoring, Of, Opening, OnPage, Others, RestoreNext
<1>4. \A c : Pending(c)' <=> Pending(c)
  BY <1>1, <1>2, <1>3 DEF Pending, RestoreNext, Of
<1>5. LayoutAgrees'
  <2>1. \A c \in Chats : \A g \in Of(c, Opening) : job'[g] = job[g]
    BY <1>1 DEF Of, Opening, OnPage, Others
  <2> QED BY <2>1, <1>2, <1>3, <1>4 DEF LayoutAgrees, LayoutInv
<1>6. OneWaits'
  BY <1>1, <1>2, <1>3 DEF OneWaits, LayoutInv
<1>7. WaitingAgrees'
  BY <1>1, <1>2, <1>3, <1>4 DEF WaitingAgrees, LayoutInv, Of
<1>8. NoneBefore'
  BY <1>2 DEF NoneBefore, LayoutInv
<1> QED BY <1>5, <1>6, <1>7, <1>8

\* What Build leaves: a chat is kept track of only if it had neither card nor claim.
LEMMA BuildingKeepsLayout ==
    ASSUME LayoutInv, NEW h \in Handlers, job[h].at = "asked", NEW rivals,
           Build(h, rivals), Of(job[h].chat, Opening \ rivals) = {},
           UNCHANGED <<loaded, toRestore, made, forsaken>>
    PROVE  LayoutAgrees' /\ OneWaits' /\ WaitingAgrees' /\ NoneBefore'
<1>0. PICK chat \in Chats : chat = job[h].chat
  BY AtWork DEF LayoutInv, Job
<1>1. /\ job'[h].at = "building" /\ job'[h].kind = job[h].kind /\ Others(h)
      /\ job'[h].chat = chat /\ job'[h].skin = job[h].skin
  BY <1>0, MovedJob DEF LayoutInv, Build
<1>2. /\ doubled \subseteq doubled'
      /\ chat \notin doubled' => /\ Of(chat, Opening) = {}
                                 /\ job[h].kind # "restore" => ~Pending(chat)
  BY <1>0 DEF Build, Of
<1>3. /\ \A c \in Chats \ {chat} : layout'[c] = layout[c]
      /\ job[h].kind # "restore" => layout'[chat] = job[h].skin
      /\ job[h].kind = "restore" => layout'[chat] = layout[chat]
  BY <1>0 DEF Build, LayoutInv, LayoutTypeOK
<1>4. /\ \A c \in Chats \ {chat} : Of(c, Opening)' = Of(c, Opening)
      /\ Of(chat, Opening)' = Of(chat, Opening) \cup {h}
  BY <1>0, <1>1 DEF Of, Opening, OnPage, Others
<1>5. Restoring' = Restoring
  BY <1>0, <1>1 DEF Restoring, Others
<1>6. /\ \A c \in Chats \ {chat} : Pending(c)' <=> Pending(c)
      /\ Pending(chat)' => Pending(chat)
  BY <1>0, <1>1, <1>5 DEF Pending, Of, Others
<1>7. \A g \in Handlers : job'[g].skin = job[g].skin /\ job'[g].chat = job[g].chat
  BY <1>0, <1>1 DEF Others
<1>8. job[h].kind = "restore" => ~Pending(chat)' /\ (chat \notin doubled => layout[chat] = job[h].skin)
  <2> SUFFICES ASSUME job[h].kind = "restore"
               PROVE  ~Pending(chat)' /\ (chat \notin doubled => layout[chat] = job[h].skin)
    OBVIOUS
  <2>1. h \in Restoring /\ h \in Restoring'
    BY <1>5 DEF Restoring
  <2>2. Restoring' = {h}
    BY <2>1, <1>5 DEF LayoutInv, LayoutTypeOK
  <2>3. \A i \in toRestore : i.chat # chat
    BY <1>0, <2>1 DEF LayoutInv, OneWaits
  <2>4. ~Pending(chat)'
    BY <1>1, <2>2, <2>3 DEF Pending, Of
  <2>5. h \in Restoring \cap Of(chat, {"asked"})
    BY <1>0, <2>1 DEF Of
  <2> QED BY <2>4, <2>5, <1>1 DEF LayoutInv, WaitingAgrees
<1>9. LayoutAgrees'
  <2> SUFFICES ASSUME NEW c \in Chats \ doubled'
               PROVE  /\ \A f, g \in Of(c, Opening)' : f = g
                      /\ \A g \in Of(c, Opening)' : layout'[c] = job'[g].skin
                      /\ layout'[c] # NoSkin /\ loaded' =>
                            Of(c, Opening)' # {} \/ Pending(c)' \/ c \in forsaken'
    BY DEF LayoutAgrees
  <2>1. CASE c = chat
    BY <2>1, <1>1, <1>2, <1>3, <1>4, <1>7, <1>8
  <2>2. CASE c # chat
    <3>1. c \in Chats \ doubled /\ layout'[c] = layout[c] /\ Of(c, Opening)' = Of(c, Opening)
      BY <2>2, <1>2, <1>3, <1>4
    <3>2. \A g \in Of(c, Opening) : job'[g].skin = job[g].skin
      BY <1>7 DEF Of
    <3> QED BY <3>1, <3>2, <2>2, <1>6 DEF LayoutAgrees, LayoutInv
  <2> QED BY <2>1, <2>2
<1>10. OneWaits'
  BY <1>0, <1>1, <1>5, <1>7 DEF OneWaits, LayoutInv, Restoring, Others
<1>11. WaitingAgrees'
  <2> SUFFICES ASSUME NEW c \in Chats \ doubled'
               PROVE  /\ Pending(c)' => Of(c, Opening)' = {}
                      /\ \A i \in toRestore' : i.chat = c => i.skin = layout'[c]
                      /\ \A g \in Restoring' \cap Of(c, {"asked"})' : job'[g].skin = layout'[c]
    BY DEF WaitingAgrees
  <2>1. CASE c = chat
    <3>1. ~Pending(c)'
      BY <2>1, <1>2, <1>6, <1>8
    <3>2. Restoring' \cap Of(c, {"asked"})' = {} /\ \A i \in toRestore' : i.chat # c
      BY <3>1 DEF Pending
    <3> QED BY <3>1, <3>2
  <2>2. CASE c # chat
    <3>1. c \in Chats \ doubled /\ layout'[c] = layout[c] /\ Of(c, Opening)' = Of(c, Opening)
      BY <2>2, <1>2, <1>3, <1>4
    <3>2. Of(c, {"asked"})' = Of(c, {"asked"})
      BY <2>2, <1>0, <1>1 DEF Of, Others
    <3>3. \A g \in Of(c, {"asked"}) : job'[g].skin = job[g].skin
      BY <1>7 DEF Of
    <3> QED BY <3>1, <3>2, <3>3, <2>2, <1>5, <1>6 DEF WaitingAgrees, LayoutInv
  <2> QED BY <2>1, <2>2
<1>12. NoneBefore'
  BY <1>5 DEF NoneBefore, LayoutInv
<1> QED BY <1>9, <1>10, <1>11, <1>12


\* The card is inserted, or its buttons work or never will: its chat has it as
\* before, and the page forsakes the chats after it if its selectors fail.
LEMMA ShowingKeepsLayout ==
    ASSUME LayoutInv, NEW h \in Handlers, Show(h) \/ Attach(h) \/ FailToAttach(h)
    PROVE  LayoutAgrees' /\ OneWaits' /\ WaitingAgrees' /\ NoneBefore'
<1>1. /\ job[h].at \in {"building", "shown"} /\ job'[h].at \in OnPage /\ Others(h)
      /\ job'[h].kind = job[h].kind /\ job'[h].chat = job[h].chat
      /\ job'[h].skin = job[h].skin
  BY MovedJob DEF LayoutInv, Show, Attach, FailToAttach, OnPage
<1>2. /\ layout' = layout /\ doubled' = doubled /\ loaded' = loaded
      /\ toRestore' \subseteq toRestore
      /\ forsaken \ {job[h].chat} \subseteq forsaken'
      /\ {i.chat : i \in toRestore \ toRestore'} \subseteq forsaken'
  BY DEF Show, Attach, FailToAttach
<1>3. \A c : /\ Of(c, Opening)' = Of(c, Opening)
             /\ Of(c, {"asked"})' = Of(c, {"asked"})
  BY <1>1 DEF Of, Opening, OnPage, Others
<1>4. Restoring' \subseteq Restoring /\ Restoring \ {h} \subseteq Restoring'
  BY <1>1 DEF Restoring, Others
<1>5. \A c : h \notin Of(c, {"asked"})
  BY <1>1 DEF Of
<1>6. \A c : (Restoring \cap Of(c, {"asked"}))' = Restoring \cap Of(c, {"asked"})
  BY <1>3, <1>4, <1>5
<1>7. \A c : /\ Pending(c)' => Pending(c)
             /\ Pending(c) => Pending(c)' \/ c \in forsaken'
  BY <1>2, <1>6 DEF Pending
<1>8. \A g \in Handlers : job'[g].skin = job[g].skin /\ job'[g].chat = job[g].chat
  BY <1>1 DEF Others
<1>9. LayoutAgrees'
  <2>1. \A c : \A g \in Of(c, Opening) : job'[g].skin = job[g].skin
    BY <1>8 DEF Of
  <2>2. h \in Of(job[h].chat, Opening)
    BY <1>1 DEF Of, Opening, OnPage
  <2> QED BY <2>1, <2>2, <1>2, <1>3, <1>7 DEF LayoutAgrees, LayoutInv
<1>10. OneWaits'
  BY <1>1, <1>2, <1>4, <1>8 DEF OneWaits, LayoutInv, Restoring, Others, OnPage
<1>11. WaitingAgrees'
  <2>1. \A c : \A g \in Of(c, {"asked"}) : job'[g].skin = job[g].skin
    BY <1>8 DEF Of
  <2> QED BY <2>1, <1>2, <1>3, <1>6, <1>7 DEF WaitingAgrees, LayoutInv
<1>12. NoneBefore'
  BY <1>2, <1>4 DEF NoneBefore, LayoutInv
<1> QED BY <1>9, <1>10, <1>11, <1>12

\* A card that is closed takes its row with it, also when it is asked for again.
LEMMA ClosingKeepsLayout ==
    ASSUME LayoutInv, NEW h \in Handlers, Close(h) \/ SwitchSkin(h)
    PROVE  LayoutAgrees' /\ OneWaits' /\ WaitingAgrees' /\ NoneBefore'
<1>0. PICK chat \in Chats : chat = job[h].chat
  BY AtWork DEF LayoutInv, Job, Close, SwitchSkin
<1>1. /\ job[h].at = "ready" /\ Others(h)
      /\ (job'[h].at = "idle" \/ (job'[h].at = "asked" /\ job'[h].kind = "search"))
  <2>1. CASE job' = [job EXCEPT ![h] = Idle]
    BY <2>1, IdledJob DEF LayoutInv, Close, SwitchSkin
  <2>2. CASE \E s \in CardSkins \ {job[h].skin} : Ask(h, "search", job[h].chat, s)
    BY <2>2, AskedJob DEF LayoutInv, Close, SwitchSkin
  <2> QED BY <2>1, <2>2 DEF Close, SwitchSkin
<1>2. /\ toRestore' = toRestore /\ doubled' = doubled
      /\ loaded' = loaded /\ forsaken' = forsaken
      /\ layout' = [layout EXCEPT ![chat] = NoSkin]
  BY <1>0 DEF Close, SwitchSkin
<1>3. /\ \A c : Of(c, Opening)' = Of(c, Opening) \ {h}
      /\ h \in Of(chat, Opening)
  BY <1>0, <1>1 DEF Of, Opening, OnPage, Others
<1>4. Restoring' = Restoring /\ h \notin Restoring
  BY <1>1 DEF Restoring, Others
<1>5. \A c : (Restoring \cap Of(c, {"asked"}))' = Restoring \cap Of(c, {"asked"})
  BY <1>1, <1>4 DEF Of, Others
<1>6. \A c : Pending(c)' <=> Pending(c)
  BY <1>2, <1>5 DEF Pending
<1>7. /\ layout'[chat] = NoSkin
      /\ \A c \in Chats \ {chat} : layout'[c] = layout[c] /\ h \notin Of(c, Opening)
  BY <1>0, <1>2 DEF LayoutInv, LayoutTypeOK, Of
<1>8. chat \notin doubled => Of(chat, Opening) = {h} /\ ~Pending(chat)
  BY <1>3 DEF LayoutInv, LayoutAgrees, WaitingAgrees
<1>9. LayoutAgrees'
  <2>1. \A c \in Chats \ {chat} : \A g \in Of(c, Opening) : job'[g] = job[g]
    BY <1>1, <1>7 DEF Of, Others
  <2>2. \A c \in Chats \ {chat} : Of(c, Opening)' = Of(c, Opening)
    BY <1>3, <1>7
  <2>3. chat \notin doubled => Of(chat, Opening)' = {}
    BY <1>3, <1>8
  <2> QED BY <2>1, <2>2, <2>3, <1>2, <1>6, <1>7 DEF LayoutAgrees, LayoutInv
<1>10. OneWaits'
  BY <1>2, <1>4, <1>1 DEF OneWaits, LayoutInv, Restoring, Others
<1>11. WaitingAgrees'
  <2> SUFFICES ASSUME NEW c \in Chats \ doubled
               PROVE  /\ Pending(c)' => Of(c, Opening)' = {}
                      /\ \A i \in toRestore' : i.chat = c => i.skin = layout'[c]
                      /\ \A g \in (Restoring \cap Of(c, {"asked"}))' : job'[g].skin = layout'[c]
    BY <1>2 DEF WaitingAgrees
  <2>1. CASE c = chat
    <3>1. ~Pending(c)'
      BY <2>1, <1>6, <1>8
    <3>2. (Restoring \cap Of(c, {"asked"}))' = {} /\ \A i \in toRestore' : i.chat # c
      BY <3>1 DEF Pending
    <3> QED BY <3>1, <3>2
  <2>2. CASE c # chat
    <3>1. layout'[c] = layout[c] /\ Of(c, Opening)' = Of(c, Opening)
      BY <2>2, <1>3, <1>7
    <3>2. \A g \in Restoring \cap Of(c, {"asked"}) : job'[g] = job[g]
      BY <1>1, <1>4 DEF Restoring, Others
    <3> QED BY <3>1, <3>2, <1>2, <1>5, <1>6 DEF WaitingAgrees, LayoutInv
  <2> QED BY <2>1, <2>2
<1>12. NoneBefore'
  BY <1>2, <1>4 DEF NoneBefore, LayoutInv
<1> QED BY <1>9, <1>10, <1>11, <1>12

\* A fetch that fails: the row of a chat that was to be restored goes.
LEMMA MissingKeepsLayout ==
    ASSUME LayoutInv, NEW h \in Handlers, NotFound(h)
    PROVE  LayoutAgrees' /\ OneWaits' /\ WaitingAgrees' /\ NoneBefore'
<1>0. PICK chat \in Chats : chat = job[h].chat
  BY AtWork DEF LayoutInv, Job, NotFound
<1>1. job[h].at = "asked" /\ job'[h].at = "idle" /\ Others(h)
  BY IdledJob DEF LayoutInv, NotFound
<1>2. /\ toRestore' = toRestore /\ doubled' = doubled
      /\ loaded' = loaded /\ forsaken' = forsaken
      /\ \A c \in Chats : layout'[c] =
            IF c = chat /\ job[h].kind = "restore" THEN NoSkin ELSE layout[c]
  BY <1>0 DEF NotFound, LayoutInv, LayoutTypeOK
<1>3. /\ \A c : Of(c, Opening)' = Of(c, Opening)
      /\ \A c : Of(c, {"asked"})' = Of(c, {"asked"}) \ {h}
  BY <1>1 DEF Of, Opening, OnPage, Others
<1>4. Restoring' = Restoring \ {h}
  BY <1>1 DEF Restoring, Others
<1>5. \A g \in Handlers \ {h} : job'[g] = job[g]
  BY <1>1 DEF Others
<1>6. CASE job[h].kind = "restore"
  <2>1. Restoring = {h} /\ h \in Of(chat, {"asked"})
    BY <1>0, <1>1, <1>6 DEF Restoring, Of, LayoutInv, LayoutTypeOK
  <2>2. /\ \A i \in toRestore : i.chat # chat
        /\ chat \notin doubled => Of(chat, Opening) = {}
    BY <1>0, <1>1, <2>1 DEF LayoutInv, OneWaits, WaitingAgrees, Pending
  <2>3. Restoring' = {}
    BY <1>4, <2>1
  <2>4. \A c \in Chats \ {chat} : Pending(c)' <=> Pending(c)
    BY <1>0, <1>2, <2>1, <2>3 DEF Pending, Of
  <2>5. \A c : \A g \in Of(c, Opening) : job'[g] = job[g]
    BY <1>1, <1>5 DEF Of, Opening, OnPage
  <2>6. LayoutAgrees'
    BY <1>2, <1>3, <2>2, <2>4, <2>5, <1>6 DEF LayoutAgrees, LayoutInv
  <2>7. OneWaits'
    BY <1>2, <2>3 DEF OneWaits, LayoutInv
  <2>8. WaitingAgrees'
    <3> SUFFICES ASSUME NEW c \in Chats \ doubled
                 PROVE  /\ Pending(c)' => Of(c, Opening)' = {}
                        /\ \A i \in toRestore' : i.chat = c => i.skin = layout'[c]
      BY <1>2, <2>3 DEF WaitingAgrees
    <3>1. CASE c = chat
      BY <3>1, <1>2, <1>3, <2>2
    <3>2. CASE c # chat
      BY <3>2, <1>2, <1>3, <2>4 DEF WaitingAgrees, LayoutInv
    <3> QED BY <3>1, <3>2
  <2>9. NoneBefore'
    BY <1>2, <2>3 DEF NoneBefore, LayoutInv
  <2> QED BY <2>6, <2>7, <2>8, <2>9
<1>7. CASE job[h].kind # "restore"
  <2>1. Restoring' = Restoring /\ h \notin Restoring
    BY <1>4, <1>7 DEF Restoring
  <2>2. \A c : (Restoring \cap Of(c, {"asked"}))' = Restoring \cap Of(c, {"asked"})
    BY <1>3, <2>1
  <2>3. \A c : Pending(c)' <=> Pending(c)
    BY <1>2, <2>2 DEF Pending
  <2>4. \A c : \A g \in Of(c, Opening) : job'[g] = job[g]
    BY <1>1, <1>5 DEF Of, Opening, OnPage
  <2>5. \A g \in Restoring : job'[g] = job[g]
    BY <1>5, <2>1 DEF Restoring
  <2>6. \A c \in Chats : layout'[c] = layout[c]
    BY <1>2, <1>7
  <2>7. LayoutAgrees'
    BY <1>2, <1>3, <2>3, <2>4, <2>6 DEF LayoutAgrees, LayoutInv
  <2>8. OneWaits'
    BY <1>2, <2>1, <2>5 DEF OneWaits, LayoutInv
  <2>9. WaitingAgrees'
    BY <1>2, <1>3, <2>2, <2>3, <2>5, <2>6 DEF WaitingAgrees, LayoutInv
  <2>10. NoneBefore'
    BY <1>2, <2>1 DEF NoneBefore, LayoutInv
  <2> QED BY <2>7, <2>8, <2>9, <2>10
<1> QED BY <1>6, <1>7

\* A card whose template fails, and the chats after it: the page forsakes them.
LEMMA FailingKeepsLayout ==
    ASSUME LayoutInv, NEW h \in Handlers, FailToShow(h)
    PROVE  LayoutAgrees' /\ OneWaits' /\ WaitingAgrees' /\ NoneBefore'
<1>1. job[h].at = "building" /\ job'[h].at = "idle" /\ Others(h)
  BY IdledJob DEF LayoutInv, FailToShow
<1>2. /\ layout' = layout /\ doubled' = doubled /\ loaded' = loaded
      /\ toRestore' \subseteq toRestore
      /\ forsaken \cup {job[h].chat} \cup {i.chat : i \in toRestore \ toRestore'} \subseteq forsaken'
  BY DEF FailToShow
<1>3. /\ \A c : Of(c, Opening)' = Of(c, Opening) \ {h}
      /\ \A c : Of(c, {"asked"})' = Of(c, {"asked"}) /\ h \notin Of(c, {"asked"})
  BY <1>1 DEF Of, Opening, OnPage, Others
<1>4. Restoring' = Restoring \ {h}
  BY <1>1 DEF Restoring, Others
<1>5. \A c : (Restoring \cap Of(c, {"asked"}))' = Restoring \cap Of(c, {"asked"})
  BY <1>3, <1>4
<1>6. \A c : /\ Pending(c)' => Pending(c)
             /\ Pending(c) => Pending(c)' \/ c \in forsaken'
  BY <1>2, <1>5 DEF Pending
<1>7. \A g \in Handlers \ {h} : job'[g] = job[g]
  BY <1>1 DEF Others
<1>8. LayoutAgrees'
  <2>1. \A c : Of(c, Opening)' \subseteq Handlers \ {h}
    BY <1>3 DEF Of
  <2>2. \A c : h \in Of(c, Opening) => c \in forsaken'
    BY <1>2 DEF Of
  <2> QED BY <2>1, <2>2, <1>2, <1>3, <1>6, <1>7 DEF LayoutAgrees, LayoutInv
<1>9. OneWaits'
  BY <1>2, <1>4, <1>7 DEF OneWaits, LayoutInv, Restoring
<1>10. WaitingAgrees'
  <2>1. \A g \in Restoring \ {h} : job'[g] = job[g]
    BY <1>7 DEF Restoring
  <2> QED BY <2>1, <1>2, <1>3, <1>5, <1>6 DEF WaitingAgrees, LayoutInv
<1>11. NoneBefore'
  BY <1>2, <1>4 DEF NoneBefore, LayoutInv
<1> QED BY <1>8, <1>9, <1>10, <1>11

\* The rows of the layout become the chats that wait.
LEMMA ReadingKeepsLayout ==
    ASSUME LayoutInv, RestoreFromCache
    PROVE  LayoutAgrees' /\ OneWaits' /\ WaitingAgrees' /\ NoneBefore'
<1>1. /\ job' = job /\ layout' = layout /\ forsaken' = forsaken /\ loaded' = TRUE
      /\ Restoring' = {} /\ Restoring = {}
      /\ toRestore' = {i \in Row : i.skin = layout[i.chat]}
      /\ doubled' = doubled \cup {k \in Chats : layout[k] # NoSkin /\ Of(k, Opening) # {}}
  BY DEF RestoreFromCache, LayoutInv, NoneBefore, Restoring
<1>2. \A c : Of(c, Opening)' = Of(c, Opening)
  BY <1>1 DEF Of
<1>3. \A c \in Chats : Pending(c)' <=> layout[c] # NoSkin
  <2> SUFFICES ASSUME NEW c \in Chats PROVE Pending(c)' <=> layout[c] # NoSkin
    OBVIOUS
  <2>1. CASE layout[c] = NoSkin
    BY <2>1, <1>1 DEF Pending, Row, NoSkin, CardSkins
  <2>2. CASE layout[c] # NoSkin
    <3>1. [chat |-> c, skin |-> layout[c]] \in toRestore'
      BY <2>2, <1>1 DEF Row, LayoutInv, LayoutTypeOK
    <3> QED BY <2>2, <3>1 DEF Pending
  <2> QED BY <2>1, <2>2
<1>4. LayoutAgrees'
  BY <1>1, <1>2, <1>3 DEF LayoutAgrees, LayoutInv
<1>5. OneWaits'
  BY <1>1 DEF OneWaits, Row
<1>6. WaitingAgrees'
  BY <1>1, <1>2, <1>3 DEF WaitingAgrees
<1>7. NoneBefore'
  BY <1>1 DEF NoneBefore
<1> QED BY <1>4, <1>5, <1>6, <1>7

\* The layout that is stored and the cards of the page agree: every card that no
\* two handlers opened at a time has its row, in its skin, and every row has a
\* card or is about to get one, unless the page gave it up
\* (addNewCID, removeCID, restoreChatAlignment).
THEOREM LayoutFollowsPage == LayoutSpec => []LayoutAgrees
<1>1. LayoutInit => LayoutInv
  <2> SUFFICES ASSUME LayoutInit PROVE LayoutInv
    OBVIOUS
  <2>1. \A h \in Handlers : job[h].at = "idle"
    BY DEF LayoutInit, Idle
  <2>2. Restoring = {} /\ \A c : Of(c, Opening) = {}
    BY <2>1 DEF Restoring, Of, Opening, OnPage
  <2>3. \A c \in Chats : ~Pending(c)
    BY <2>2 DEF Pending, LayoutInit
  <2> QED BY <2>2, <2>3, LayoutTypesBegin
        DEF LayoutInit, LayoutInv, LayoutAgrees, OneWaits, WaitingAgrees, NoneBefore
<1>2. LayoutInv /\ [LayoutNext]_layoutVars => LayoutInv'
  <2> SUFFICES ASSUME LayoutInv, [LayoutNext]_layoutVars
               PROVE  LayoutAgrees' /\ OneWaits' /\ WaitingAgrees' /\ NoneBefore'
    BY LayoutTypesKept DEF LayoutInv
  <2>1. ASSUME NEW h \in Handlers, OpenFound(h)
        PROVE  LayoutAgrees' /\ OneWaits' /\ WaitingAgrees' /\ NoneBefore'
    <3>1. CASE Of(job[h].chat, OnPage) = {}
      <4>1. Opening \ {"building"} = OnPage
        BY DEF Opening, OnPage
      <4> QED BY <2>1, <3>1, <4>1, BuildingKeepsLayout DEF OpenFound
    <3>2. CASE Of(job[h].chat, OnPage) # {}
      BY <2>1, <3>2, MissingKeepsLayout DEF OpenFound, NotFound
    <3> QED BY <3>1, <3>2
  <2>2. ASSUME NEW h \in Handlers, OpenUnseen(h)
        PROVE  LayoutAgrees' /\ OneWaits' /\ WaitingAgrees' /\ NoneBefore'
    <3>1. Of(job[h].chat, Opening \ Opening) = {}
      BY DEF Of
    <3> QED BY <2>2, <3>1, BuildingKeepsLayout DEF OpenUnseen
  <2>3. CASE Reload
    <3>1. \A h \in Handlers : job'[h].at = "idle"
      BY <2>3 DEF Reload, Idle
    <3>2. Restoring' = {} /\ \A c : Of(c, Opening)' = {}
      BY <3>1 DEF Restoring, Of, Opening, OnPage
    <3>3. \A c : ~Pending(c)'
      BY <2>3, <3>2 DEF Reload, Pending
    <3> QED BY <2>3, <3>2, <3>3 DEF Reload, LayoutAgrees, OneWaits, WaitingAgrees, NoneBefore
  <2>4. CASE UNCHANGED layoutVars
    BY <2>4 DEF layoutVars, LayoutInv, LayoutAgrees, OneWaits, WaitingAgrees, NoneBefore,
                Restoring, Of, Pending
  <2> QED BY <2>1, <2>2, <2>3, <2>4, AskingKeepsLayout, RestoringKeepsLayout,
             MissingKeepsLayout, ShowingKeepsLayout, FailingKeepsLayout,
             ClosingKeepsLayout, ReadingKeepsLayout DEF LayoutNext
<1>3. LayoutInv => LayoutAgrees
  BY DEF LayoutInv
<1> QED BY <1>1, <1>2, <1>3, PTL DEF LayoutSpec

-----------------------------------------------------------------------------
(***************************************************************************)
(* History: types, and the pages that the server makes.                    *)
(***************************************************************************)

\* Pages under way consist of what the database has.
PageTyped(pg) ==
    /\ pg \in Page
    /\ pg.plain \subseteq Stored /\ pg.prompts \subseteq Created
PagesTyped == PageTyped(card.page) /\ \A l \in Loads : PageTyped(loads[l].page)

\* Chats are opened and read in the skins of the page.
SkinsTyped ==
    /\ card.stage # "none" => card.skin \in Skins
    /\ \A l \in Loads : loads[l].stage # "idle" => loads[l].skin \in Skins

HistoryTyped == HistoryTypeOK /\ PagesTyped /\ SkinsTyped

LoadState == [stage : {"idle", "asked", "served", "settling"},
              card : 0..MaxOpens, skin : {"base", "prompts"},
              before : Times, page : Page]

\* A load on its own: what HistoryTyped says of it.
LoadTyped(ld) ==
    /\ ld \in LoadState /\ PageTyped(ld.page)
    /\ ld.stage = "served" => Cardinality(ld.page.plain) <= OlderPage[ld.skin]
    /\ ld.stage # "idle" => ld.skin \in Skins
LoadsTyped == loads \in [Loads -> LoadState] /\ \A l \in Loads : LoadTyped(loads[l])

CardTyped ==
    /\ card \in [stage : {"none", "asked", "served", "shown"},
                 skin : {"base", "prompts"}, page : Page]
    /\ Cardinality(card.page.plain) <= FirstPage
    /\ PageTyped(card.page)
    /\ card.stage # "none" => card.skin \in Skins

DatabaseTyped ==
    /\ created \in [Messages -> Times]
    /\ promptCreated \in [Prompts -> Times]
    /\ joined \subseteq Created
    /\ recorded \subseteq {m \in Messages : PromptOf[m] \in joined}

ScreenTyped ==
    /\ plain \subseteq Stored /\ tables \subseteq Created
    /\ rows \subseteq {m \in recorded : PromptOf[m] \in tables}

OthersTyped ==
    /\ opens \in 0..MaxOpens /\ mark \in Times
    /\ allDisplayed \in BOOLEAN /\ updating \in BOOLEAN
    /\ unseen \subseteq Messages /\ strayed \in BOOLEAN /\ broken \in BOOLEAN

LEMMA HistoryParts ==
    HistoryTyped <=> DatabaseTyped /\ CardTyped /\ LoadsTyped /\ ScreenTyped /\ OthersTyped
BY DEF HistoryTyped, HistoryTypeOK, PagesTyped, SkinsTyped, DatabaseTyped, CardTyped, LoadsTyped,
       LoadTyped, LoadState, ScreenTyped, OthersTyped, Stored, Created

LEMMA HistoryWhole ==
    ASSUME DatabaseTyped', CardTyped', LoadsTyped', ScreenTyped', OthersTyped'
    PROVE  HistoryTyped'
BY DEF HistoryTyped, HistoryTypeOK, PagesTyped, SkinsTyped, DatabaseTyped, CardTyped, LoadsTyped,
       LoadTyped, LoadState, ScreenTyped, OthersTyped, Stored, Created

LEMMA EmptyIsTyped ==
    /\ EmptyPage \in Page /\ PageTyped(EmptyPage) /\ EmptyPage.plain = {} /\ EmptyPage.prompts = {}
    /\ Cardinality(EmptyPage.plain) = 0
BY FS_EmptySet DEF EmptyPage, Page, PageTyped

\* A page of the server has at most n messages, all of them stored.
LEMMA AnswersAreSmall ==
    ASSUME HistoryTypeOK, NEW before, NEW n \in Nat, NEW skin, NEW pg \in Answers(before, n, skin)
    PROVE  /\ PageTyped(pg) /\ Cardinality(pg.plain) <= n
           /\ skin # "prompts" => pg.prompts = {}
<1>1. PICK T \in NewestOf(Older(before), n) : pg = PageOf(T, skin) /\ Readable(pg)
  BY DEF Answers
<1>2. /\ T \subseteq Older(before) /\ Older(before) \subseteq Stored /\ Stored \subseteq Messages
      /\ Cardinality(T) = Smaller(n, Cardinality(Older(before)))
  BY <1>1 DEF NewestOf, Older, Stored
<1>3. IsFiniteSet(Older(before)) /\ IsFiniteSet(T) /\ IsFiniteSet(Messages)
  BY <1>2, FS_Subset, FiniteAssumption
<1>4. Cardinality(T) <= n
  BY <1>2, <1>3, FS_CardinalityType DEF Smaller
<1>5. /\ pg.plain \subseteq T /\ pg.prompts \subseteq joined
      /\ pg = [plain |-> pg.plain, prompts |-> pg.prompts]
      /\ skin # "prompts" => pg.prompts = {}
  BY <1>1 DEF PageOf, Readable
<1>6. Cardinality(pg.plain) <= Cardinality(T) /\ Cardinality(pg.plain) \in Nat
  BY <1>3, <1>5, FS_Subset, FS_CardinalityType
<1>7. joined \subseteq Created /\ Created \subseteq Prompts
  BY DEF HistoryTypeOK, Created
<1>8. pg \in Page
  BY <1>2, <1>5, <1>7 DEF Page
<1>9. Cardinality(T) \in Nat
  BY <1>3, FS_CardinalityType
<1> QED BY <1>2, <1>4, <1>5, <1>6, <1>7, <1>8, <1>9 DEF PageTyped

LEMMA PageTimes ==
    ASSUME HistoryTypeOK, NEW pg, PageTyped(pg)
    PROVE  /\ TimesOf(pg) \subseteq Times /\ TimesOf(pg) \subseteq Nat
           /\ 0 \notin TimesOf(pg)
           /\ pg # EmptyPage => TimesOf(pg) # {}
<1>1. /\ \A m \in pg.plain : created[m] \in Times /\ created[m] > 0
      /\ \A p \in pg.prompts : promptCreated[p] \in Times /\ promptCreated[p] > 0
  BY DEF HistoryTypeOK, PageTyped, Stored, Created
<1>2. Times \subseteq Nat
  BY BoundsAssumption DEF Times
<1>3. pg # EmptyPage => pg.plain # {} \/ pg.prompts # {}
  BY DEF PageTyped, Page, EmptyPage
<1>4. \A t \in TimesOf(pg) : t \in Times /\ t > 0
  BY <1>1 DEF TimesOf
<1>5. /\ \A m \in pg.plain : created[m] \in TimesOf(pg)
      /\ \A p \in pg.prompts : promptCreated[p] \in TimesOf(pg)
  BY DEF TimesOf
<1>6. pg # EmptyPage => TimesOf(pg) # {}
  BY <1>3, <1>5
<1>7. TimesOf(pg) \subseteq Times /\ TimesOf(pg) \subseteq Nat
  BY <1>2, <1>4
<1>8. 0 \notin TimesOf(pg)
  BY <1>4, <1>7
<1> QED BY <1>6, <1>7, <1>8

\* initPagination: the mark after a page is the time of its oldest item.
LEMMA MarkIsOldest ==
    ASSUME HistoryTypeOK, NEW pg, PageTyped(pg)
    PROVE  /\ pg = EmptyPage => MarkAfter(pg) = mark
           /\ pg # EmptyPage => /\ MarkAfter(pg) \in TimesOf(pg)
                                /\ \A u \in TimesOf(pg) : MarkAfter(pg) <= u
           /\ MarkAfter(pg) \in Times
<1>1. CASE pg = EmptyPage
  BY <1>1 DEF MarkAfter, HistoryTypeOK
<1>2. CASE pg # EmptyPage
  <2>1. \E t \in TimesOf(pg) : \A u \in TimesOf(pg) : t <= u
    BY <1>2, PageTimes, EarliestExists
  <2>2. MarkAfter(pg) = CHOOSE t \in TimesOf(pg) : \A u \in TimesOf(pg) : t <= u
    BY <1>2 DEF MarkAfter
  <2>3. MarkAfter(pg) \in TimesOf(pg) /\ \A u \in TimesOf(pg) : MarkAfter(pg) <= u
    BY <2>1, <2>2
  <2> QED BY <1>2, <2>3, PageTimes
<1> QED BY <1>1, <1>2

-----------------------------------------------------------------------------
\* What a step does not touch keeps its type.
LEMMA SameLoads ==
    ASSUME LoadsTyped, UNCHANGED <<loads, database>> PROVE LoadsTyped'
BY DEF LoadsTyped, LoadTyped, PageTyped, Stored, Created, database

LEMMA SameCard ==
    ASSUME CardTyped, UNCHANGED <<card, database>> PROVE CardTyped'
BY DEF CardTyped, PageTyped, Stored, Created, database

LEMMA SameDatabase ==
    ASSUME UNCHANGED database
    PROVE  /\ Stored' = Stored /\ Created' = Created
           /\ DatabaseTyped => DatabaseTyped'
           /\ \A pg : PageTyped(pg) => PageTyped(pg)'
BY DEF database, Stored, Created, DatabaseTyped, PageTyped

LEMMA SameScreen ==
    ASSUME ScreenTyped, UNCHANGED <<screen, database>> PROVE ScreenTyped'
BY DEF ScreenTyped, screen, database, Stored, Created

LEMMA OneLoad ==
    ASSUME LoadsTyped, UNCHANGED database, NEW l \in Loads, NEW ld, LoadTyped(ld),
           loads' = [loads EXCEPT ![l] = ld]
    PROVE  LoadsTyped'
<1>1. \A k \in Loads : loads'[k] = IF k = l THEN ld ELSE loads[k]
  BY DEF LoadsTyped
<1>2. loads' \in [Loads -> LoadState]
  BY DEF LoadsTyped, LoadTyped
<1>3. ASSUME NEW k \in Loads PROVE LoadTyped(loads[k])'
  <2>1. LoadTyped(loads'[k])
    BY <1>1 DEF LoadsTyped
  <2> QED BY <2>1, SameDatabase DEF LoadTyped, PageTyped
<1> QED BY <1>2, <1>3 DEF LoadsTyped

LEMMA NoLoadTyped == LoadTyped(NoLoad)
BY EmptyIsTyped, BoundsAssumption DEF LoadTyped, LoadState, NoLoad, Times

\* A load that ends or puts its page on the card.
LEMMA SettledLoad ==
    ASSUME LoadsTyped, NEW l \in Loads, loads[l].stage = "served"
    PROVE  /\ LoadTyped([loads[l] EXCEPT !.stage = "settling", !.page = EmptyPage])
           /\ [loads EXCEPT ![l].stage = "settling", ![l].page = EmptyPage]
                 = [loads EXCEPT ![l] = [loads[l] EXCEPT !.stage = "settling", !.page = EmptyPage]]
<1>1. LoadTyped(loads[l])
  BY DEF LoadsTyped
<1> QED BY <1>1, EmptyIsTyped DEF LoadTyped, LoadState, LoadsTyped

LEMMA ServedLoad ==
    ASSUME LoadsTyped, NEW l \in Loads, loads[l].stage = "asked", NEW pg, PageTyped(pg),
           Cardinality(pg.plain) <= OlderPage[loads[l].skin]
    PROVE  /\ LoadTyped([loads[l] EXCEPT !.stage = "served", !.page = pg])
           /\ [loads EXCEPT ![l].stage = "served", ![l].page = pg]
                 = [loads EXCEPT ![l] = [loads[l] EXCEPT !.stage = "served", !.page = pg]]
<1>1. LoadTyped(loads[l])
  BY DEF LoadsTyped
<1> QED BY <1>1 DEF LoadTyped, LoadState, LoadsTyped, PageTyped

-----------------------------------------------------------------------------
\* A card whose page is empty.
LEMMA EmptyCard ==
    ASSUME NEW stage \in {"none", "asked", "shown"}, NEW skin \in {"base", "prompts"},
           stage # "none" => skin \in Skins,
           NEW it, it = [stage |-> stage, skin |-> skin, page |-> EmptyPage]
    PROVE  /\ it \in [stage : {"none", "asked", "served", "shown"},
                     skin : {"base", "prompts"}, page : Page]
           /\ Cardinality(it.page.plain) <= FirstPage
           /\ it.page = EmptyPage
           /\ it.stage # "none" => it.skin \in Skins
<1>1. it.page = EmptyPage /\ it.stage = stage /\ it.skin = skin
  OBVIOUS
<1>2. Cardinality(it.page.plain) <= FirstPage
  BY <1>1, EmptyIsTyped, PagesAssumption
<1> QED BY <1>1, <1>2, EmptyIsTyped

LEMMA EmptyStaysTyped == PageTyped(EmptyPage)'
BY EmptyIsTyped DEF PageTyped

LEMMA CardActionsTyped ==
    ASSUME HistoryTyped,
           \/ \E skin \in Skins : DisplayConversation(skin)
           \/ ServeFirst \/ FailFirst \/ BuildConversation \/ CloseChat
    PROVE  HistoryTyped'
<1>0. DatabaseTyped /\ CardTyped /\ LoadsTyped /\ ScreenTyped /\ OthersTyped /\ HistoryTypeOK
  BY HistoryParts DEF HistoryTyped
<1>1. UNCHANGED database /\ loads' = loads
  BY DEF DisplayConversation, ServeFirst, FailFirst, BuildConversation, CloseChat
<1>2. DatabaseTyped' /\ LoadsTyped'
  BY <1>0, <1>1, SameDatabase, SameLoads
<1>3. ASSUME NEW skin \in Skins, DisplayConversation(skin)
      PROVE  CardTyped' /\ ScreenTyped' /\ OthersTyped'
  <2>1. CardTyped'
    <3>1. card' = [stage |-> "asked", skin |-> skin, page |-> EmptyPage] /\ skin \in {"base", "prompts"}
      BY <1>3, SkinsAssumption DEF DisplayConversation
    <3>2. PageTyped(card.page)'
      BY <3>1, EmptyStaysTyped DEF PageTyped
    <3> QED BY <3>1, <3>2, EmptyCard DEF CardTyped
  <2>2. OthersTyped'
    <3>1. opens \in 0..MaxOpens /\ opens < MaxOpens /\ opens' = opens + 1
      BY <1>0, <1>3 DEF DisplayConversation, OthersTyped
    <3>2. opens' \in 0..MaxOpens
      BY <3>1, BoundsAssumption
    <3>3. /\ mark' = mark /\ allDisplayed' = allDisplayed /\ updating' = updating
          /\ unseen' = {} /\ strayed' = strayed /\ broken' = FALSE
      BY <1>3 DEF DisplayConversation
    <3> QED BY <1>0, <1>1, <3>2, <3>3, SameDatabase DEF OthersTyped
  <2> QED BY <1>0, <1>1, <1>3, <2>1, <2>2, SameScreen DEF DisplayConversation
<1>4. CASE ServeFirst
  <2>1. PICK pg \in Answers(0, FirstPage, card.skin) :
          /\ card' = [card EXCEPT !.stage = "served", !.page = pg]
          /\ allDisplayed' = (allDisplayed \/ NothingCame(pg))
    BY <1>4 DEF ServeFirst
  <2>2. PageTyped(pg) /\ Cardinality(pg.plain) <= FirstPage /\ pg \in Page
    BY <1>0, <2>1, AnswersAreSmall, PagesAssumption DEF PageTyped
  <2>3. CardTyped'
    BY <1>0, <1>1, <1>4, <2>1, <2>2, SameDatabase DEF CardTyped, PageTyped, ServeFirst
  <2>4. OthersTyped'
    BY <1>0, <1>4, <2>1 DEF ServeFirst, OthersTyped, history
  <2> QED BY <1>0, <1>1, <1>4, <2>3, <2>4, SameScreen, HistoryWhole, <1>2 DEF ServeFirst
<1>5. CASE FailFirst
  <2>1. CardTyped'
    BY <1>0, <1>1, <1>5, SameDatabase DEF CardTyped, PageTyped, FailFirst
  <2>2. OthersTyped'
    BY <1>0, <1>5 DEF FailFirst, OthersTyped, history
  <2> QED BY <1>0, <1>1, <1>2, <1>5, <2>1, <2>2, SameScreen, HistoryWhole DEF FailFirst
<1>6. CASE BuildConversation
  <2>1. CardTyped'
    <3>1. /\ card' = [stage |-> "shown", skin |-> card.skin, page |-> EmptyPage]
          /\ card.skin \in Skins /\ card.skin \in {"base", "prompts"}
      BY <1>0, <1>6 DEF BuildConversation, CardTyped
    <3>2. PageTyped(card.page)'
      BY <3>1, EmptyStaysTyped DEF PageTyped
    <3> QED BY <3>1, <3>2, EmptyCard DEF CardTyped
  <2>2. ScreenTyped'
    BY <1>0, <1>1, <1>6, SameDatabase DEF ScreenTyped, CardTyped, PageTyped, BuildConversation, RowsOf
  <2>3. mark' \in Times
    BY <1>0, <1>6, MarkIsOldest DEF BuildConversation, CardTyped
  <2>4. OthersTyped'
    BY <1>0, <1>6, <2>3 DEF BuildConversation, OthersTyped, history
  <2> QED BY <1>2, <2>1, <2>2, <2>4, HistoryWhole
<1>7. CASE CloseChat
  <2>1. CardTyped'
    BY <1>0, <1>1, <1>7, SameDatabase DEF CardTyped, PageTyped, CloseChat
  <2>2. ScreenTyped'
    BY <1>7 DEF ScreenTyped, CloseChat
  <2>3. 0 \in Times
    BY BoundsAssumption DEF Times
  <2>4. OthersTyped'
    BY <1>0, <1>7, <2>3 DEF CloseChat, OthersTyped
  <2> QED BY <1>2, <2>1, <2>2, <2>4, HistoryWhole
<1> QED BY <1>2, <1>3, <1>4, <1>5, <1>6, <1>7, HistoryWhole

LEMMA LoadActionsTyped ==
    ASSUME HistoryTyped, NEW l \in Loads,
           \/ Scroll(l) \/ ServeOlder(l) \/ FailOlder(l)
           \/ AddOldMessages(l) \/ AddToClosed(l) \/ Settle(l)
    PROVE  HistoryTyped'
<1>0. DatabaseTyped /\ CardTyped /\ LoadsTyped /\ ScreenTyped /\ OthersTyped /\ HistoryTypeOK
  BY HistoryParts DEF HistoryTyped
<1>1. UNCHANGED database /\ card' = card
  BY DEF Scroll, ServeOlder, FailOlder, AddOldMessages, AddToClosed, Settle
<1>2. DatabaseTyped' /\ CardTyped'
  BY <1>0, <1>1, SameDatabase, SameCard
<1>3. LoadTyped(loads[l])
  BY <1>0 DEF LoadsTyped
<1>4. CASE Scroll(l)
  <2> DEFINE ld == [stage |-> IF mark = 0 THEN "settling" ELSE "asked",
                    card |-> opens, skin |-> card.skin, before |-> mark, page |-> EmptyPage]
  <2>1. LoadTyped(ld)
    BY <1>0, <1>4, EmptyIsTyped DEF LoadTyped, LoadState, OthersTyped, CardTyped, Scroll, Shown
  <2>2. LoadsTyped'
    BY <1>0, <1>1, <1>4, <2>1, OneLoad DEF Scroll
  <2> QED BY <1>0, <1>1, <1>2, <1>4, <2>2, SameScreen, HistoryWhole DEF Scroll, OthersTyped, history
<1>5. CASE ServeOlder(l)
  <2>1. PICK pg \in Answers(loads[l].before, OlderPage[loads[l].skin], loads[l].skin) :
         /\ loads' = [loads EXCEPT ![l].stage = "served", ![l].page = pg]
         /\ allDisplayed' = (allDisplayed \/ NothingCame(pg))
         /\ strayed' = (strayed \/ (Stray(l) /\ NothingCame(pg)))
    BY <1>5 DEF ServeOlder
  <2>2. loads[l].stage = "asked" /\ OlderPage[loads[l].skin] \in Nat
    BY <1>3, <1>5, PagesAssumption DEF ServeOlder, LoadTyped
  <2>3. PageTyped(pg) /\ Cardinality(pg.plain) <= OlderPage[loads[l].skin]
    BY <1>0, <2>1, <2>2, AnswersAreSmall
  <2>4. LoadsTyped'
    BY <1>0, <1>1, <2>1, <2>2, <2>3, ServedLoad, OneLoad
  <2>5. allDisplayed' \in BOOLEAN /\ strayed' \in BOOLEAN
    BY <2>1
  <2> QED BY <1>0, <1>1, <1>2, <1>5, <2>4, <2>5, SameScreen, HistoryWhole DEF ServeOlder, OthersTyped
<1>6. CASE FailOlder(l)
  <2>1. LoadsTyped'
    BY <1>0, <1>1, <1>6, NoLoadTyped, OneLoad DEF FailOlder
  <2> QED BY <1>0, <1>1, <1>2, <1>6, <2>1, SameScreen, HistoryWhole DEF FailOlder, OthersTyped
<1>7. CASE AddOldMessages(l)
  <2>1. LoadsTyped'
    BY <1>0, <1>1, <1>7, SettledLoad, OneLoad DEF AddOldMessages
  <2>2. PageTyped(loads[l].page)
    BY <1>3 DEF LoadTyped
  <2>3. ScreenTyped'
    BY <1>0, <1>1, <1>7, <2>2, SameDatabase
       DEF ScreenTyped, AddOldMessages, PageTyped, RowsOf, database
  <2>4. mark' \in Times
    BY <1>0, <1>7, <2>2, MarkIsOldest DEF AddOldMessages
  <2> QED BY <1>0, <1>2, <1>7, <2>1, <2>3, <2>4, HistoryWhole DEF AddOldMessages, OthersTyped, history
<1>8. CASE AddToClosed(l)
  <2>1. PageTyped(loads[l].page)
    BY <1>3 DEF LoadTyped
  <2>2. mark' \in Times /\ strayed' \in BOOLEAN
    BY <1>0, <1>8, <2>1, MarkIsOldest DEF AddToClosed, OthersTyped
  <2>3. LoadsTyped'
    <3>1. CASE loads' = [loads EXCEPT ![l].stage = "settling", ![l].page = EmptyPage]
      BY <1>0, <1>1, <1>8, <3>1, SettledLoad, OneLoad DEF AddToClosed
    <3>2. CASE loads' = [loads EXCEPT ![l] = NoLoad]
      BY <1>0, <1>1, <3>2, NoLoadTyped, OneLoad
    <3> QED BY <1>8, <3>1, <3>2 DEF AddToClosed
  <2> QED BY <1>0, <1>1, <1>2, <1>8, <2>2, <2>3, SameScreen, HistoryWhole DEF AddToClosed, OthersTyped
<1>9. CASE Settle(l)
  <2>1. LoadsTyped'
    BY <1>0, <1>1, <1>9, NoLoadTyped, OneLoad DEF Settle
  <2> QED BY <1>0, <1>1, <1>2, <1>9, <2>1, SameScreen, HistoryWhole DEF Settle, OthersTyped, history
<1> QED BY <1>4, <1>5, <1>6, <1>7, <1>8, <1>9

\* A new message or prompt has a time that it keeps.
LEMMA DatabaseGrows ==
    ASSUME DatabaseTyped, NEW t \in 1..MaxCreated,
           \/ \E p \in Prompts : NewPrompt(p, t)
           \/ \E m \in Messages : UserMessage(m, t)
    PROVE  /\ DatabaseTyped' /\ joined \subseteq joined' /\ recorded \subseteq recorded'
           /\ Stored \subseteq Stored' /\ Created \subseteq Created'
           /\ \A m \in Stored : created'[m] = created[m]
           /\ \A p \in Created : promptCreated'[p] = promptCreated[p]
<1>0. t \in Times /\ t > 0
  BY BoundsAssumption DEF Times
<1>1. ASSUME NEW p \in Prompts, NewPrompt(p, t)
      PROVE  /\ DatabaseTyped' /\ joined \subseteq joined' /\ recorded \subseteq recorded'
             /\ Stored \subseteq Stored' /\ Created \subseteq Created'
             /\ \A m \in Stored : created'[m] = created[m]
             /\ \A q \in Created : promptCreated'[q] = promptCreated[q]
  <2>1. /\ promptCreated[p] = 0 /\ promptCreated' = [promptCreated EXCEPT ![p] = t]
        /\ created' = created /\ joined' = joined /\ recorded' = recorded
    BY <1>1 DEF NewPrompt
  <2>2. \A q \in Created : q # p /\ promptCreated'[q] = promptCreated[q]
    BY <2>1 DEF Created, DatabaseTyped
  <2>3. Stored' = Stored /\ Created \subseteq Created'
    BY <2>1, <2>2 DEF Stored, Created
  <2>4. DatabaseTyped'
    BY <1>0, <2>1, <2>3 DEF DatabaseTyped
  <2> QED BY <2>1, <2>2, <2>3, <2>4
<1>2. ASSUME NEW m \in Messages, UserMessage(m, t)
      PROVE  /\ DatabaseTyped' /\ joined \subseteq joined' /\ recorded \subseteq recorded'
             /\ Stored \subseteq Stored' /\ Created \subseteq Created'
             /\ \A v \in Stored : created'[v] = created[v]
             /\ \A q \in Created : promptCreated'[q] = promptCreated[q]
  <2>1. /\ created[m] = 0 /\ created' = [created EXCEPT ![m] = t]
        /\ promptCreated' = promptCreated
        /\ \/ joined' = joined /\ recorded' = recorded
           \/ /\ PromptOf[m] \in Created
              /\ joined' = joined \cup {PromptOf[m]} /\ recorded' = recorded \cup {m}
    BY <1>2 DEF UserMessage
  <2>2. \A v \in Stored : v # m /\ created'[v] = created[v]
    BY <2>1 DEF Stored, DatabaseTyped
  <2>3. Created' = Created /\ Stored \subseteq Stored'
    BY <2>1, <2>2 DEF Stored, Created
  <2>4. created' \in [Messages -> Times]
    BY <1>0, <2>1 DEF DatabaseTyped
  <2>5. joined' \subseteq Created' /\ recorded' \subseteq {v \in Messages : PromptOf[v] \in joined'}
    BY <2>1, <2>3 DEF DatabaseTyped
  <2>6. DatabaseTyped'
    BY <2>1, <2>4, <2>5 DEF DatabaseTyped
  <2> QED BY <2>1, <2>2, <2>3, <2>6
<1> QED BY <1>1, <1>2

LEMMA LiveActionsTyped ==
    ASSUME HistoryTyped, NEW t \in 1..MaxCreated,
           \/ \E p \in Prompts : NewPrompt(p, t)
           \/ \E m \in Messages : UserMessage(m, t)
    PROVE  HistoryTyped'
<1>0. DatabaseTyped /\ CardTyped /\ LoadsTyped /\ ScreenTyped /\ OthersTyped
  BY HistoryParts
<1>1. DatabaseTyped' /\ Stored \subseteq Stored' /\ Created \subseteq Created'
      /\ recorded \subseteq recorded'
  BY <1>0, DatabaseGrows
<1>2. /\ card' = card /\ loads' = loads /\ mark' = mark /\ opens' = opens
      /\ allDisplayed' = allDisplayed /\ updating' = updating
      /\ strayed' = strayed /\ broken' = broken
  BY DEF NewPrompt, UserMessage, history
<1>3. CardTyped' /\ LoadsTyped'
  <2>1. \A pg : PageTyped(pg) => PageTyped(pg)'
    BY <1>1 DEF PageTyped
  <2> QED BY <1>0, <1>2, <2>1 DEF CardTyped, LoadsTyped, LoadTyped
<1>4. ASSUME NEW p \in Prompts, NewPrompt(p, t) PROVE ScreenTyped' /\ OthersTyped'
  <2>1. p \in Created' /\ plain' = plain /\ rows' = rows /\ recorded' = recorded /\ unseen' = unseen
        /\ tables \subseteq tables' /\ tables' \subseteq tables \cup {p}
    BY <1>0, <1>4 DEF NewPrompt, Created, DatabaseTyped, history
  <2> QED BY <1>0, <1>1, <1>2, <2>1 DEF ScreenTyped, OthersTyped
<1>5. ASSUME NEW m \in Messages, UserMessage(m, t) PROVE ScreenTyped' /\ OthersTyped'
  <2>1. m \in Stored' /\ plain' \subseteq plain \cup {m} /\ tables' = tables
        /\ unseen' \subseteq unseen \cup {m}
        /\ (rows' = rows \/ (rows' = rows \cup {m} /\ m \in recorded' /\ PromptOf[m] \in tables))
    BY <1>0, <1>5 DEF UserMessage, Stored, DatabaseTyped
  <2> QED BY <1>0, <1>1, <1>2, <2>1 DEF ScreenTyped, OthersTyped
<1> QED BY <1>1, <1>3, <1>4, <1>5, HistoryWhole

LEMMA HistoryTypesBegin == ASSUME HistoryInit PROVE HistoryTyped
<1>1. DatabaseTyped
  BY DEF HistoryInit, DatabaseTyped, Created
<1>2. CardTyped
  <2>1. card = [stage |-> "none", skin |-> "base", page |-> EmptyPage]
    BY DEF HistoryInit
  <2> QED BY <2>1, EmptyCard, EmptyIsTyped DEF CardTyped
<1>3. LoadsTyped
  BY NoLoadTyped DEF HistoryInit, LoadsTyped, LoadTyped
<1>4. ScreenTyped /\ OthersTyped
  <2>1. opens \in 0..MaxOpens /\ mark \in Times
    BY BoundsAssumption DEF HistoryInit, Times
  <2> QED BY <2>1 DEF HistoryInit, ScreenTyped, OthersTyped
<1> QED BY <1>1, <1>2, <1>3, <1>4, HistoryParts

LEMMA HistoryTypesKept ==
    ASSUME HistoryTyped, [HistoryNext]_historyVars PROVE HistoryTyped'
<1>1. CASE UNCHANGED historyVars
  BY <1>1, HistoryParts, HistoryWhole, SameDatabase, SameCard, SameLoads, SameScreen
     DEF historyVars, history, OthersTyped
<1> QED BY <1>1, CardActionsTyped, LoadActionsTyped, LiveActionsTyped DEF HistoryNext

\* The pages of the server are no longer than asked for and consist of what is
\* stored, and so does what the card shows of them (fetch_message_data).
THEOREM HistoryTypeCorrect == HistorySpec => []HistoryTypeOK
<1>1. HistoryTyped => HistoryTypeOK
  BY DEF HistoryTyped
<1> QED BY <1>1, HistoryTypesBegin, HistoryTypesKept, PTL DEF HistorySpec

-----------------------------------------------------------------------------
(***************************************************************************)
(* A chat that is shown as loading.  The handler that will make it active  *)
(* is one that this card began: those of earlier cards do not count.       *)
(***************************************************************************)

\* A card that is shown as loading waits for a load that this card began.
LoadOfCard ==
    Shown /\ updating => broken \/ \E l \in Loads : loads[l].stage # "idle" /\ loads[l].card = opens

CauseInv == HistoryTyped /\ LoadOfCard

LEMMA CauseKept == ASSUME CauseInv, [HistoryNext]_historyVars PROVE LoadOfCard'
<1>0. loads \in [Loads -> LoadState]
  BY HistoryParts DEF CauseInv, LoadsTyped
<1>1. CASE UNCHANGED historyVars
  BY <1>1 DEF historyVars, history, CauseInv, LoadOfCard, Shown
<1>2. CASE \E skin \in Skins : DisplayConversation(skin)
  BY <1>2 DEF DisplayConversation, LoadOfCard, Shown
<1>3. CASE ServeFirst \/ FailFirst
  <2>1. card \in [stage : {"none", "asked", "served", "shown"}, skin : {"base", "prompts"}, page : Page]
    BY HistoryParts DEF CauseInv, CardTyped
  <2> QED BY <1>3, <2>1 DEF ServeFirst, FailFirst, LoadOfCard, Shown
<1>4. CASE BuildConversation \/ CloseChat
  BY <1>4 DEF BuildConversation, CloseChat, LoadOfCard
<1>5. ASSUME NEW l \in Loads, Scroll(l) PROVE LoadOfCard'
  <2>1. loads'[l].stage # "idle" /\ loads'[l].card = opens /\ opens' = opens
    BY <1>0, <1>5 DEF Scroll
  <2> QED BY <2>1 DEF LoadOfCard
<1>6. ASSUME NEW l \in Loads, ServeOlder(l) \/ AddOldMessages(l) PROVE LoadOfCard'
  <2>1. /\ \A k \in Loads : loads'[k].card = loads[k].card
                            /\ (loads[k].stage # "idle" => loads'[k].stage # "idle")
        /\ card' = card /\ opens' = opens /\ updating' = updating /\ broken' = broken
    BY <1>0, <1>6 DEF ServeOlder, AddOldMessages, LoadState, history
  <2> QED BY <2>1 DEF CauseInv, LoadOfCard, Shown
<1>7. ASSUME NEW l \in Loads, FailOlder(l) \/ AddToClosed(l) PROVE LoadOfCard'
  <2>1. /\ \A k \in Loads \ {l} : loads'[k] = loads[k]
        /\ card' = card /\ opens' = opens /\ updating' = updating
        /\ (broken => broken') /\ (~Stray(l) => broken')
    <3>1. CASE FailOlder(l)
      BY <1>0, <3>1 DEF FailOlder
    <3>2. CASE AddToClosed(l)
      <4>1. Stray(l) /\ card' = card /\ opens' = opens /\ updating' = updating /\ broken' = broken
        BY <3>2 DEF AddToClosed
      <4>2. \A k \in Loads \ {l} : loads'[k] = loads[k]
        BY <1>0, <3>2 DEF AddToClosed
      <4> QED BY <4>1, <4>2
    <3> QED BY <1>7, <3>1, <3>2
  <2>2. CASE Stray(l)
    BY <2>1, <2>2 DEF CauseInv, LoadOfCard, Shown, Stray
  <2> QED BY <2>1, <2>2 DEF LoadOfCard
<1>8. ASSUME NEW l \in Loads, Settle(l) PROVE LoadOfCard'
  BY <1>8 DEF Settle, LoadOfCard
<1>9. ASSUME NEW t \in 1..MaxCreated,
             \/ \E p \in Prompts : NewPrompt(p, t)
             \/ \E m \in Messages : UserMessage(m, t)
      PROVE  LoadOfCard'
  BY <1>9 DEF NewPrompt, UserMessage, history, CauseInv, LoadOfCard, Shown
<1> QED BY <1>1, <1>2, <1>3, <1>4, <1>5, <1>6, <1>7, <1>8, <1>9 DEF HistoryNext

\* A chat that is shown as loading has a handler under way that will make it
\* active again, unless a request failed (the scroll handler of initMessages).
THEOREM LoadingCaused == HistorySpec => []LoadingHasCause
<1>1. HistoryInit => CauseInv
  BY HistoryTypesBegin DEF HistoryInit, CauseInv, LoadOfCard, Shown
<1>2. CauseInv /\ [HistoryNext]_historyVars => CauseInv'
  BY CauseKept, HistoryTypesKept DEF CauseInv
<1>3. CauseInv => LoadingHasCause
  BY DEF CauseInv, LoadOfCard, LoadingHasCause
<1> QED BY <1>1, <1>2, <1>3, PTL DEF HistorySpec

-----------------------------------------------------------------------------
(***************************************************************************)
(* Paging leaves no holes.  A page accounts for every message that is not  *)
(* older than its oldest item (PageAccounts).  Nothing that happens between *)
(* the answer and the moment its page is put on the card changes that      *)
(* (StaysAccounted), so the mark, which moves to the oldest item of the    *)
(* page, leaves nothing unaccounted for behind it.                         *)
(***************************************************************************)

\* Accounted with P and Q in the place of what stands on the card.
AccountedWith(P, Q, m) ==
    \/ m \in P \cup rows
    \/ m \in unseen
    \/ \E v \in Messages : /\ v # m /\ created[v] = created[m]
                           /\ v \in P \cup rows \/ PromptOf[v] \in Q
    \/ card.skin = "prompts" /\ (PromptOf[m] \in Q \/ \E p \in Q : promptCreated[p] <= created[m])
    \/ strayed

\* The page has an item that is not newer than m.
Reached(pg, m) == \E t \in TimesOf(pg) : created[m] >= t

LEMMA AccountedIsWith ==
    ASSUME NEW m PROVE Accounted(m) <=> AccountedWith(plain, tables, m)
BY DEF Accounted, AccountedWith, Visible, Listed, SameSecond, AfterPrompt

LEMMA AccountedIsWithNext ==
    ASSUME NEW m, NEW P, NEW Q, P = plain', Q = tables'
    PROVE  Accounted(m)' <=> AccountedWith(P, Q, m)'
BY DEF Accounted, AccountedWith, Visible, Listed, SameSecond, AfterPrompt

\* A page of the server accounts for what is not older than its oldest item.
LEMMA PageAccounts ==
    ASSUME HistoryTypeOK, NEW b, NEW n \in Nat, NEW pg \in Answers(b, n, card.skin),
           NEW m \in Older(b), Reached(pg, m),
           NEW P, pg.plain \subseteq P, NEW Q, pg.prompts \subseteq Q
    PROVE  AccountedWith(P, Q, m)
<1>1. PICK T \in NewestOf(Older(b), n) : pg = PageOf(T, card.skin)
  BY DEF Answers
<1>2. /\ T \subseteq Older(b) /\ Older(b) \subseteq Stored /\ Stored \subseteq Messages
      /\ \A a \in T, c \in Older(b) \ T : created[a] >= created[c]
  BY <1>1 DEF NewestOf, Older, Stored
<1>3. /\ pg.plain = {c \in T : PromptOf[c] \notin pg.prompts}
      /\ card.skin # "prompts" => pg.prompts = {}
  BY <1>1 DEF PageOf
<1>4. CASE m \in T
  BY <1>3, <1>4 DEF AccountedWith
<1>5. CASE m \notin T
  <2>1. PICK t \in TimesOf(pg) : created[m] >= t
    BY DEF Reached
  <2>2. CASE t \in {promptCreated[p] : p \in pg.prompts}
    BY <1>3, <2>1, <2>2 DEF AccountedWith
  <2>3. CASE t \in {created[a] : a \in pg.plain}
    <3>1. PICK a \in pg.plain : t = created[a]
      BY <2>3
    <3>2. a \in T /\ a \in Messages /\ a # m /\ created[a] >= created[m]
      BY <1>2, <1>3, <1>5, <3>1
    <3>3. created[a] \in Nat /\ created[m] \in Nat
      BY <1>2, <3>2, BoundsAssumption DEF HistoryTypeOK, Times
    <3>4. created[a] = created[m]
      BY <2>1, <3>1, <3>2, <3>3
    <3> QED BY <3>2, <3>4 DEF AccountedWith
  <2> QED BY <2>1, <2>2, <2>3 DEF TimesOf
<1> QED BY <1>4, <1>5

\* The server answers with nothing only when there is nothing older.
LEMMA NothingIsOlder ==
    ASSUME HistoryTypeOK, NEW b, NEW n \in Nat \ {0}, NEW skin,
           NEW pg \in Answers(b, n, skin), NothingCame(pg)
    PROVE  Older(b) = {}
<1>1. PICK T \in NewestOf(Older(b), n) : pg = PageOf(T, skin)
  BY DEF Answers
<1>2. /\ Cardinality(T) = Smaller(n, Cardinality(Older(b)))
      /\ Older(b) \subseteq Messages
  BY <1>1 DEF NewestOf, Older, Stored
<1>3. IsFiniteSet(Older(b)) /\ Cardinality(Older(b)) \in Nat
  BY <1>2, FiniteAssumption, FS_Subset, FS_CardinalityType
<1>4. pg.plain = {m \in T : PromptOf[m] \notin pg.prompts} /\ pg.plain = {} /\ pg.prompts = {}
  BY <1>1, EmptyIsTyped DEF PageOf, NothingCame
<1>5. T = {}
  BY <1>4
<1>6. Cardinality(Older(b)) = 0
  BY <1>2, <1>3, <1>5, FS_EmptySet DEF Smaller
<1> QED BY <1>3, <1>6, FS_EmptySet

\* Loads that were begun by an earlier card stay those of an earlier card.
LoadsOfPast ==
    \A l \in Loads :
        /\ loads[l].card <= opens
        /\ card.stage \in {"asked", "served"} /\ loads[l].stage # "idle" => loads[l].card < opens

\* A closed chat has left nothing on the page.
BlankUnlessShown ==
    ~Shown => /\ plain = {} /\ tables = {} /\ rows = {} /\ mark = 0
              /\ card.stage # "served" /\ allDisplayed => strayed

\* The first page accounts for what it reaches.
FirstCovers ==
    card.stage = "served" =>
        \A m \in Stored :
           Reached(card.page, m) \/ allDisplayed
              => AccountedWith(card.page.plain, card.page.prompts, m)

\* So does a later page, together with what stands on the card already.
LoadCovers(l) ==
    ~Stray(l) =>
        /\ loads[l].stage # "idle" => loads[l].skin = card.skin
        /\ loads[l].stage = "asked" =>
              /\ loads[l].before # 0
              /\ \A m \in Stored : created[m] >= loads[l].before => Accounted(m)
        /\ loads[l].stage = "served" =>
              \A m \in Stored : Reached(loads[l].page, m) =>
                 AccountedWith(plain \cup loads[l].page.plain,
                               tables \cup loads[l].page.prompts, m)

\* The inductive invariant of the paging.
GapsInv ==
    /\ HistoryTyped /\ LoadsOfPast /\ BlankUnlessShown /\ FirstCovers
    /\ \A l \in Loads : LoadCovers(l)
    /\ NoUnknownGaps /\ EndIsComplete

\* A step after which everything is as much accounted for as before.
Grows ==
    /\ \A m \in Stored : m \in Stored' /\ created'[m] = created[m]
    /\ \A p \in Created : promptCreated'[p] = promptCreated[p]
    /\ card'.skin = card.skin
    /\ rows \subseteq rows' /\ unseen \subseteq unseen'
    /\ strayed => strayed'

\* A step of one card, which shows a new message or takes note of it.
Steady ==
    /\ Grows /\ opens' = opens
    /\ Shown' => Shown
    /\ plain \subseteq plain' /\ tables \subseteq tables'
    /\ \A m \in Stored' \ Stored : Shown' => m \in plain' \cup rows' \cup unseen'

\* A message that is accounted for stays so when more stands on the card.
LEMMA StaysAccounted ==
    ASSUME Grows, NEW m \in Stored, NEW P, NEW Q \in SUBSET Created, AccountedWith(P, Q, m),
           NEW P2, P \subseteq P2, NEW Q2, Q \subseteq Q2
    PROVE  AccountedWith(P2, Q2, m)'
<1>1. CASE m \in P \cup rows \/ m \in unseen \/ strayed
  BY <1>1 DEF Grows, AccountedWith
<1>2. ASSUME NEW v \in Messages, v # m, created[v] = created[m], v \in P \cup rows \/ PromptOf[v] \in Q
      PROVE  AccountedWith(P2, Q2, m)'
  <2>1. v \in Stored
    BY <1>2 DEF Stored
  <2>2. created'[v] = created'[m]
    BY <1>2, <2>1 DEF Grows
  <2>3. v \in P2 \cup rows' \/ PromptOf[v] \in Q2
    BY <1>2 DEF Grows
  <2> QED BY <1>2, <2>2, <2>3 DEF AccountedWith
<1>3. CASE card.skin = "prompts" /\ PromptOf[m] \in Q
  BY <1>3 DEF Grows, AccountedWith
<1>4. ASSUME card.skin = "prompts", NEW p \in Q, promptCreated[p] <= created[m]
      PROVE  AccountedWith(P2, Q2, m)'
  <2>1. promptCreated'[p] <= created'[m] /\ card'.skin = "prompts" /\ p \in Q2
    BY <1>4 DEF Grows
  <2> QED BY <2>1 DEF AccountedWith
<1> QED BY <1>1, <1>2, <1>3, <1>4 DEF AccountedWith

\* Pages under way reach as far as before: their items keep their times.
LEMMA ReachedStays ==
    ASSUME Grows, NEW pg, PageTyped(pg), NEW m \in Stored
    PROVE  Reached(pg, m)' <=> Reached(pg, m)
<1>1. pg.plain \subseteq Stored /\ pg.prompts \subseteq Created
  BY DEF PageTyped
<1>2. /\ \A a \in pg.plain : created'[a] = created[a]
      /\ \A p \in pg.prompts : promptCreated'[p] = promptCreated[p]
  BY <1>1 DEF Grows
<1>3. TimesOf(pg)' = TimesOf(pg)
  BY <1>2 DEF TimesOf
<1> QED BY <1>3 DEF Reached, Grows

\* What the card accounts for it accounts for after a step, and so for what was
\* stored during the step.
LEMMA CardStaysAccounted ==
    ASSUME HistoryTyped, Steady, Shown', NEW m \in Stored', m \in Stored => Accounted(m)
    PROVE  Accounted(m)'
<1>1. PICK P, Q : P = plain' /\ Q = tables'
  OBVIOUS
<1>2. CASE m \in Stored
  <2>1. tables \in SUBSET Created
    BY HistoryParts DEF ScreenTyped
  <2>2. AccountedWith(plain, tables, m)
    BY <1>2, AccountedIsWith
  <2>3. AccountedWith(P, Q, m)'
    BY <1>1, <1>2, <2>1, <2>2, StaysAccounted DEF Steady
  <2> QED BY <1>1, <2>3, AccountedIsWithNext
<1>3. CASE m \notin Stored
  BY <1>3 DEF Steady, Accounted, Visible
<1> QED BY <1>2, <1>3

\* One lemma for each part of the invariant that a step of the card leaves alone.
LEMMA LoadStaysCovered ==
    ASSUME HistoryTyped, Steady, NEW k \in Loads, LoadCovers(k), loads'[k] = loads[k]
    PROVE  LoadCovers(k)'
<1> SUFFICES ASSUME ~Stray(k)' PROVE LoadCovers(k)'
  BY DEF LoadCovers
<1>1. ~Stray(k) /\ Shown' /\ card'.skin = card.skin
  BY DEF Stray, Steady, Grows
<1>2. loads[k].stage # "idle" => loads'[k].skin = card'.skin
  BY <1>1 DEF LoadCovers
<1>3. ASSUME loads[k].stage = "asked", NEW m \in Stored', created'[m] >= loads'[k].before
      PROVE  Accounted(m)'
  <2>1. m \in Stored => Accounted(m)
    BY <1>1, <1>3 DEF LoadCovers, Steady, Grows
  <2> QED BY <1>1, <1>3, <2>1, CardStaysAccounted
<1>4. PICK pg : pg = loads[k].page
  OBVIOUS
<1>5. PageTyped(pg)
  BY <1>4 DEF HistoryTyped, PagesTyped
<1>6. PICK P2, Q2 : P2 = plain' \cup pg.plain /\ Q2 = tables' \cup pg.prompts
  OBVIOUS
<1>7. ASSUME loads[k].stage = "served", NEW m \in Stored', Reached(pg, m)'
      PROVE  AccountedWith(P2, Q2, m)'
  <2>1. CASE m \in Stored
    <3>1. AccountedWith(plain \cup pg.plain, tables \cup pg.prompts, m)
      BY <1>1, <1>4, <1>5, <1>7, <2>1, ReachedStays DEF LoadCovers, Steady
    <3>2. tables \cup pg.prompts \in SUBSET Created
      BY <1>5, HistoryParts DEF ScreenTyped, PageTyped
    <3>3. plain \cup pg.plain \subseteq P2 /\ tables \cup pg.prompts \subseteq Q2
      BY <1>6 DEF Steady
    <3> QED BY <2>1, <3>1, <3>2, <3>3, StaysAccounted DEF Steady
  <2>2. CASE m \notin Stored
    BY <1>1, <1>6, <1>7, <2>2 DEF Steady, AccountedWith
  <2> QED BY <2>1, <2>2
<1>8. loads'[k].page = pg /\ loads'[k].stage = loads[k].stage /\ loads'[k].before = loads[k].before
  BY <1>4
<1>9. loads[k].stage = "served" =>
        \A m \in Stored' : Reached(loads[k].page, m)' =>
            AccountedWith(plain \cup loads[k].page.plain, tables \cup loads[k].page.prompts, m)'
  BY <1>6, <1>7, <1>8 DEF Reached, AccountedWith, TimesOf
<1> QED BY <1>1, <1>2, <1>3, <1>8, <1>9 DEF LoadCovers

LEMMA GapsStayKnown ==
    ASSUME HistoryTyped, Steady, NoUnknownGaps, mark' = mark \/ strayed'
    PROVE  NoUnknownGaps'
<1> SUFFICES ASSUME Shown', NEW m \in Stored', mark' # 0, created'[m] >= mark'
             PROVE  Accounted(m)'
  BY DEF NoUnknownGaps
<1>1. CASE strayed'
  BY <1>1 DEF Accounted
<1>2. CASE mark' = mark
  <2>1. m \in Stored => Accounted(m)
    BY <1>2 DEF NoUnknownGaps, Steady, Grows
  <2> QED BY <2>1, CardStaysAccounted
<1> QED BY <1>1, <1>2

LEMMA EndStaysComplete ==
    ASSUME HistoryTyped, Steady, EndIsComplete, allDisplayed' => allDisplayed \/ strayed'
    PROVE  EndIsComplete'
<1> SUFFICES ASSUME Shown', allDisplayed', NEW m \in Stored' PROVE Accounted(m)'
  BY DEF EndIsComplete
<1>1. CASE strayed'
  BY <1>1 DEF Accounted
<1>2. CASE allDisplayed
  <2>1. m \in Stored => Accounted(m)
    BY <1>2 DEF EndIsComplete, Steady
  <2> QED BY <2>1, CardStaysAccounted
<1> QED BY <1>1, <1>2

LEMMA FirstStaysCovered ==
    ASSUME HistoryTyped, Grows, FirstCovers, card' = card, allDisplayed' => allDisplayed \/ strayed',
           \A m \in Stored' \ Stored : card.stage = "served" => m \in unseen'
    PROVE  FirstCovers'
<1> SUFFICES ASSUME card.stage = "served", NEW m \in Stored',
                    Reached(card.page, m)' \/ allDisplayed'
             PROVE  AccountedWith(card.page.plain, card.page.prompts, m)'
  BY DEF FirstCovers
<1>1. PICK pg, P, Q : pg = card.page /\ P = pg.plain /\ Q = pg.prompts
  OBVIOUS
<1>2. PageTyped(pg)
  BY <1>1 DEF HistoryTyped, PagesTyped
<1>3. CASE m \notin Stored \/ strayed'
  BY <1>3 DEF AccountedWith
<1>4. CASE m \in Stored /\ ~strayed'
  <2>1. Reached(pg, m)' => Reached(pg, m)
    BY <1>2, <1>4, ReachedStays
  <2>2. Reached(card.page, m)' => Reached(pg, m)'
    BY <1>1 DEF Reached, TimesOf
  <2>3. AccountedWith(P, Q, m)
    BY <1>1, <1>4, <2>1, <2>2 DEF FirstCovers
  <2>4. AccountedWith(P, Q, m)'
    BY <1>1, <1>2, <1>4, <2>3, StaysAccounted DEF PageTyped
  <2> QED BY <1>1, <2>4 DEF AccountedWith
<1> QED BY <1>3, <1>4

-----------------------------------------------------------------------------
(***************************************************************************)
(* The steps, one lemma for each of them.                                  *)
(***************************************************************************)
LEMMA NothingShown ==
    ASSUME ~Shown'
    PROVE  NoUnknownGaps' /\ EndIsComplete' /\ \A l \in Loads : LoadCovers(l)'
BY DEF NoUnknownGaps, EndIsComplete, LoadCovers, Stray

LEMMA OpeningKeepsGaps ==
    ASSUME GapsInv, NEW skin \in Skins, DisplayConversation(skin)
    PROVE  GapsInv'
<1>0. HistoryTyped'
  BY CardActionsTyped DEF GapsInv
<1>1. /\ card.stage = "none" /\ card'.stage = "asked" /\ opens' = opens + 1 /\ loads' = loads
      /\ UNCHANGED <<plain, tables, rows, mark, allDisplayed, strayed>>
  BY DEF DisplayConversation, screen
<1>2. opens \in Nat /\ \A l \in Loads : loads[l].card \in Nat
  BY HistoryParts, BoundsAssumption DEF GapsInv, OthersTyped, LoadsTyped, LoadState
<1>3. LoadsOfPast'
  BY <1>1, <1>2 DEF GapsInv, LoadsOfPast
<1>4. ~Shown' /\ BlankUnlessShown' /\ FirstCovers'
  BY <1>1 DEF GapsInv, BlankUnlessShown, Shown, FirstCovers
<1> QED BY <1>0, <1>3, <1>4, NothingShown DEF GapsInv

LEMMA ClosingKeepsGaps ==
    ASSUME GapsInv, FailFirst \/ CloseChat
    PROVE  GapsInv'
<1>0. HistoryTyped'
  BY CardActionsTyped DEF GapsInv
<1>1. card'.stage = "none" /\ opens' = opens /\ loads' = loads
  BY HistoryParts DEF GapsInv, CardTyped, FailFirst, CloseChat
<1>2. LoadsOfPast' /\ ~Shown' /\ FirstCovers'
  BY <1>1 DEF GapsInv, LoadsOfPast, FirstCovers, Shown
<1>3. BlankUnlessShown'
  <2>1. CASE FailFirst
    BY <1>1, <2>1 DEF FailFirst, screen, history, GapsInv, BlankUnlessShown, Shown
  <2>2. CASE CloseChat
    BY <1>1, <2>2 DEF CloseChat, BlankUnlessShown
  <2> QED BY <2>1, <2>2
<1> QED BY <1>0, <1>2, <1>3, NothingShown DEF GapsInv

LEMMA FirstPageKeepsGaps ==
    ASSUME GapsInv, ServeFirst
    PROVE  GapsInv'
<1>0. HistoryTyped'
  BY CardActionsTyped DEF GapsInv
<1>1. PICK pg \in Answers(0, FirstPage, card.skin) :
        /\ card' = [card EXCEPT !.stage = "served", !.page = pg]
        /\ allDisplayed' = (allDisplayed \/ NothingCame(pg))
  BY DEF ServeFirst
<1>2. /\ card.stage = "asked" /\ card'.stage = "served" /\ card'.page = pg
      /\ card'.skin = card.skin
  BY <1>1, HistoryParts DEF GapsInv, CardTyped, ServeFirst
<1>3. /\ opens' = opens /\ loads' = loads /\ UNCHANGED database
      /\ UNCHANGED <<plain, tables, rows, mark, unseen, strayed>>
  BY DEF ServeFirst, screen, history
<1>4. LoadsOfPast' /\ ~Shown'
  BY <1>2, <1>3 DEF GapsInv, LoadsOfPast, Shown
<1>5. BlankUnlessShown'
  BY <1>2, <1>3 DEF GapsInv, BlankUnlessShown, Shown
<1>6. FirstCovers'
  <2> SUFFICES ASSUME NEW m \in Stored', Reached(pg, m)' \/ allDisplayed'
               PROVE  AccountedWith(pg.plain, pg.prompts, m)'
    BY <1>2 DEF FirstCovers, Reached, TimesOf, AccountedWith
  <2>1. HistoryTypeOK /\ m \in Older(0)
    BY <1>3, SameDatabase DEF GapsInv, HistoryTyped, Older
  <2>2. PICK P, Q : P = pg.plain /\ Q = pg.prompts
    OBVIOUS
  <2>3. PageTyped(pg) /\ Grows
    BY <1>2, <1>3, <2>1, PagesAssumption, AnswersAreSmall, SameDatabase DEF Grows, database
  <2>4. CASE Reached(pg, m)'
    <3>1. Reached(pg, m)
      BY <1>3, <2>1, <2>3, <2>4, ReachedStays, SameDatabase
    <3>2. AccountedWith(P, Q, m)
      BY <2>1, <2>2, <3>1, PageAccounts, PagesAssumption
    <3>3. AccountedWith(P, Q, m)'
      <4>1. m \in Stored /\ Q \in SUBSET Created
        BY <1>3, <2>2, <2>3, SameDatabase DEF PageTyped
      <4> QED BY <2>3, <3>2, <4>1, StaysAccounted
    <3> QED BY <2>2, <3>3 DEF AccountedWith
  <2>5. CASE allDisplayed
    BY <1>2, <1>3, <2>5 DEF GapsInv, BlankUnlessShown, Shown, AccountedWith
  <2>6. CASE NothingCame(pg)
    BY <2>1, <2>6, NothingIsOlder, PagesAssumption
  <2> QED BY <1>1, <2>4, <2>5, <2>6
<1> QED BY <1>0, <1>4, <1>5, <1>6, NothingShown DEF GapsInv

LEMMA BuildingKeepsGaps ==
    ASSUME GapsInv, BuildConversation
    PROVE  GapsInv'
<1>0. HistoryTyped'
  BY CardActionsTyped DEF GapsInv
<1>1. /\ card.stage = "served" /\ card'.stage = "shown" /\ card'.skin = card.skin
      /\ plain' = card.page.plain /\ tables' = card.page.prompts /\ rows' = {}
      /\ mark' = MarkAfter(card.page)
  BY HistoryParts DEF GapsInv, CardTyped, BuildConversation, RowsOf
<1>2. /\ opens' = opens /\ loads' = loads /\ allDisplayed' = allDisplayed
      /\ UNCHANGED database /\ unseen' = unseen /\ strayed' = strayed
  BY DEF BuildConversation, history
<1>3. rows = {} /\ mark = 0
  BY <1>1 DEF GapsInv, BlankUnlessShown, Shown
<1>4. Shown' /\ BlankUnlessShown' /\ FirstCovers' /\ LoadsOfPast'
  BY <1>1, <1>2 DEF GapsInv, Shown, BlankUnlessShown, FirstCovers, LoadsOfPast
<1>5. ASSUME NEW l \in Loads PROVE LoadCovers(l)'
  <2>1. loads[l].stage # "idle" => loads[l].card # opens
    <3>1. opens \in Nat /\ loads[l].card \in Nat
      BY HistoryParts, BoundsAssumption DEF GapsInv, OthersTyped, LoadsTyped, LoadState
    <3> QED BY <1>1, <3>1 DEF GapsInv, LoadsOfPast
  <2> QED BY <1>2, <2>1 DEF LoadCovers, Stray
<1>6. PICK pg, P, Q : pg = card.page /\ P = pg.plain /\ Q = pg.prompts
  OBVIOUS
<1>7. ASSUME NEW m \in Stored', Reached(pg, m) \/ allDisplayed
      PROVE  Accounted(m)'
  <2>1. m \in Stored /\ PageTyped(pg) /\ Grows
    BY <1>1, <1>2, <1>3, <1>6, SameDatabase DEF GapsInv, HistoryTyped, PagesTyped, Grows, database
  <2>2. AccountedWith(P, Q, m)
    BY <1>1, <1>6, <1>7, <2>1 DEF GapsInv, FirstCovers
  <2>3. AccountedWith(P, Q, m)'
    BY <1>6, <2>1, <2>2, StaysAccounted DEF PageTyped
  <2> QED BY <1>1, <1>6, <2>3, AccountedIsWithNext
<1>8. EndIsComplete'
  BY <1>2, <1>7 DEF EndIsComplete
<1>9. NoUnknownGaps'
  <2> SUFFICES ASSUME NEW m \in Stored', mark' # 0, created'[m] >= mark'
               PROVE  Accounted(m)'
    BY DEF NoUnknownGaps
  <2>1. PageTyped(pg) /\ HistoryTypeOK
    BY <1>6 DEF GapsInv, HistoryTyped, PagesTyped
  <2>2. MarkAfter(pg) \in TimesOf(pg)
    BY <1>1, <1>3, <1>6, <2>1, MarkIsOldest
  <2>3. Reached(pg, m)
    BY <1>1, <1>2, <1>6, <2>2 DEF Reached, database
  <2> QED BY <1>7, <2>3
<1> QED BY <1>0, <1>4, <1>5, <1>8, <1>9 DEF GapsInv

\* A step of the shown card, or of the loads of an earlier one.
LEMMA LoadStepIsSteady ==
    ASSUME GapsInv, UNCHANGED database, card' = card, opens' = opens,
           plain \subseteq plain', tables \subseteq tables', rows \subseteq rows',
           unseen' = unseen, strayed => strayed'
    PROVE  Steady
BY SameDatabase DEF Steady, Grows, database, Shown

LEMMA PastStaysPast ==
    ASSUME GapsInv, card' = card, opens' = opens,
           \A k \in Loads : \/ loads'[k] = NoLoad
                            \/ loads[k].stage # "idle" /\ loads'[k].card = loads[k].card
                            \/ loads'[k] = loads[k]
                            \/ Shown /\ loads'[k].card = opens
    PROVE  LoadsOfPast'
<1>1. opens \in Nat
  BY HistoryParts, BoundsAssumption DEF GapsInv, OthersTyped
<1> QED BY <1>1 DEF GapsInv, LoadsOfPast, NoLoad, Shown

LEMMA IdleIsCovered ==
    ASSUME NEW l \in Loads, loads'[l] = NoLoad PROVE LoadCovers(l)'
BY DEF LoadCovers, NoLoad

LEMMA OlderPageKeepsGaps ==
    ASSUME GapsInv, NEW l \in Loads, ServeOlder(l)
    PROVE  GapsInv'
<1>0. HistoryTyped' /\ HistoryTyped /\ HistoryTypeOK
  BY LoadActionsTyped DEF GapsInv, HistoryTyped
<1>1. PICK pg \in Answers(loads[l].before, OlderPage[loads[l].skin], loads[l].skin) :
         /\ loads' = [loads EXCEPT ![l].stage = "served", ![l].page = pg]
         /\ allDisplayed' = (allDisplayed \/ NothingCame(pg))
         /\ strayed' = (strayed \/ (Stray(l) /\ NothingCame(pg)))
  BY DEF ServeOlder
<1>2. /\ loads[l].stage = "asked" /\ UNCHANGED database /\ card' = card /\ opens' = opens
      /\ UNCHANGED <<plain, tables, rows, mark, unseen>>
  BY DEF ServeOlder, screen
<1>3. /\ loads \in [Loads -> LoadState] /\ LoadTyped(loads[l])
      /\ loads[l].skin \in Skins /\ OlderPage[loads[l].skin] \in Nat \ {0}
  BY <1>0, <1>2, HistoryParts, PagesAssumption DEF LoadsTyped, LoadTyped
<1>4. /\ \A k \in Loads \ {l} : loads'[k] = loads[k]
      /\ loads'[l].stage = "served" /\ loads'[l].page = pg
      /\ loads'[l].card = loads[l].card /\ loads'[l].skin = loads[l].skin
  BY <1>1, <1>3 DEF LoadState
<1>5. Steady
  BY <1>1, <1>2, LoadStepIsSteady
<1>6. PageTyped(pg)
  BY <1>0, <1>3, AnswersAreSmall
<1>7. LoadsOfPast'
  BY <1>2, <1>4, PastStaysPast
<1>8. ~Stray(l) => /\ loads[l].skin = card.skin /\ Shown
                   /\ loads[l].before # 0
                   /\ \A m \in Stored : created[m] >= loads[l].before => Accounted(m)
  BY <1>2 DEF GapsInv, LoadCovers, Stray
<1>9. allDisplayed' /\ Shown => strayed' \/ allDisplayed \/ \A m \in Stored : Accounted(m)
  <2>1. CASE NothingCame(pg) /\ ~Stray(l)
    <3>1. Older(loads[l].before) = {}
      BY <1>0, <1>3, <2>1, NothingIsOlder
    <3>2. \A m \in Stored : created[m] >= loads[l].before
      <4>1. \A m \in Stored : created[m] \in Nat
        BY <1>0, BoundsAssumption DEF HistoryTypeOK, Times, Stored
      <4>2. loads[l].before \in Nat
        BY <1>3, BoundsAssumption DEF LoadState, Times
      <4> QED BY <3>1, <4>1, <4>2 DEF Older
    <3> QED BY <1>8, <2>1, <3>2
  <2> QED BY <1>1, <2>1
<1>10. allDisplayed' /\ ~Shown => strayed' \/ allDisplayed
  BY <1>1 DEF Stray
<1>11. EndIsComplete'
  <2> SUFFICES ASSUME Shown', allDisplayed', NEW m \in Stored' PROVE Accounted(m)'
    BY DEF EndIsComplete
  <2>1. CASE strayed'
    BY <2>1 DEF Accounted
  <2>2. CASE ~strayed'
    <3>1. Shown /\ m \in Stored
      BY <1>2, SameDatabase DEF Shown
    <3>2. Accounted(m)
      BY <1>9, <2>2, <3>1 DEF GapsInv, EndIsComplete
    <3> QED BY <1>0, <1>5, <3>2, CardStaysAccounted
  <2> QED BY <2>1, <2>2
<1>12. BlankUnlessShown' /\ FirstCovers'
  <2>1. BlankUnlessShown'
    BY <1>1, <1>2, <1>10 DEF GapsInv, BlankUnlessShown, Shown
  <2>2. card.stage = "served" => (allDisplayed' => allDisplayed \/ strayed')
    BY <1>10 DEF Shown
  <2>3. FirstCovers'
    BY <1>0, <1>2, <1>5, <2>2, FirstStaysCovered, SameDatabase DEF GapsInv, Steady, FirstCovers
  <2> QED BY <2>1, <2>3
<1>13. NoUnknownGaps'
  BY <1>0, <1>2, <1>5, GapsStayKnown DEF GapsInv
<1>14. ASSUME NEW k \in Loads PROVE LoadCovers(k)'
  <2>1. CASE k # l
    BY <1>0, <1>4, <1>5, <2>1, LoadStaysCovered DEF GapsInv
  <2>2. CASE k = l
    <3> SUFFICES ASSUME ~Stray(l)', NEW m \in Stored', Reached(pg, m)'
                 PROVE  AccountedWith(plain \cup pg.plain, tables \cup pg.prompts, m)'
      <4>1. ~Stray(l)' => ~Stray(l) /\ loads'[l].skin = card'.skin
        BY <1>2, <1>4, <1>8 DEF Stray, Shown
      <4> QED BY <1>4, <2>2, <4>1 DEF LoadCovers, Reached, TimesOf, AccountedWith
    <3>1. ~Stray(l) /\ m \in Stored
      BY <1>2, <1>4, SameDatabase DEF Stray, Shown
    <3>2. PICK P, Q : P = plain \cup pg.plain /\ Q = tables \cup pg.prompts
      OBVIOUS
    <3>3. Reached(pg, m)
      BY <1>5, <1>6, <3>1, ReachedStays DEF Steady
    <3>4. AccountedWith(P, Q, m)
      <4>1. CASE created[m] >= loads[l].before
        <5>1. AccountedWith(plain, tables, m)
          BY <1>8, <3>1, <4>1, AccountedIsWith
        <5> QED BY <3>2, <5>1 DEF AccountedWith
      <4>2. CASE ~(created[m] >= loads[l].before)
        <5>1. m \in Older(loads[l].before)
          <6>1. created[m] \in Nat /\ loads[l].before \in Nat
            BY <1>0, <1>3, <3>1, BoundsAssumption DEF HistoryTypeOK, Times, Stored, LoadState
          <6> QED BY <3>1, <4>2, <6>1 DEF Older
        <5>2. loads[l].skin = card.skin
          BY <1>8, <3>1
        <5> QED BY <1>0, <1>3, <3>2, <3>3, <5>1, <5>2, PageAccounts
      <4> QED BY <4>1, <4>2
    <3>5. Q \in SUBSET Created
      BY <1>6, <3>2, HistoryParts DEF GapsInv, ScreenTyped, PageTyped
    <3>6. AccountedWith(P, Q, m)'
      BY <1>5, <3>1, <3>4, <3>5, StaysAccounted DEF Steady
    <3> QED BY <1>2, <3>2, <3>6 DEF AccountedWith
  <2> QED BY <2>1, <2>2
<1> QED BY <1>0, <1>7, <1>11, <1>12, <1>13, <1>14 DEF GapsInv

LEMMA ScrollKeepsGaps ==
    ASSUME GapsInv, NEW l \in Loads, Scroll(l)
    PROVE  GapsInv'
<1>0. HistoryTyped' /\ HistoryTyped
  BY LoadActionsTyped DEF GapsInv
<1>1. /\ Shown /\ UNCHANGED database /\ card' = card /\ opens' = opens
      /\ UNCHANGED <<plain, tables, rows, mark, allDisplayed, unseen, strayed>>
  BY DEF Scroll, screen, history
<1>2. /\ \A k \in Loads \ {l} : loads'[k] = loads[k]
      /\ loads'[l].stage = (IF mark = 0 THEN "settling" ELSE "asked")
      /\ loads'[l].card = opens /\ loads'[l].skin = card.skin /\ loads'[l].before = mark
  BY HistoryParts DEF GapsInv, LoadsTyped, Scroll
<1>3. Steady
  BY <1>1, LoadStepIsSteady
<1>4. LoadsOfPast'
  BY <1>1, <1>2, PastStaysPast
<1>5. BlankUnlessShown' /\ FirstCovers'
  BY <1>1 DEF BlankUnlessShown, FirstCovers, Shown
<1>6. NoUnknownGaps' /\ EndIsComplete'
  BY <1>0, <1>1, <1>3, GapsStayKnown, EndStaysComplete DEF GapsInv
<1>7. ASSUME NEW k \in Loads PROVE LoadCovers(k)'
  <2>1. CASE k # l
    BY <1>0, <1>2, <1>3, <2>1, LoadStaysCovered DEF GapsInv
  <2>2. CASE k = l
    <3>1. Shown' /\ (mark # 0 => \A m \in Stored' : created'[m] >= mark => Accounted(m)')
      BY <1>1, <1>6 DEF NoUnknownGaps, Shown
    <3> QED BY <1>1, <1>2, <2>2, <3>1 DEF LoadCovers
  <2> QED BY <2>1, <2>2
<1> QED BY <1>0, <1>4, <1>5, <1>6, <1>7 DEF GapsInv

\* A load that fails or ends.
LEMMA EndingKeepsGaps ==
    ASSUME GapsInv, NEW l \in Loads, FailOlder(l) \/ Settle(l)
    PROVE  GapsInv'
<1>0. HistoryTyped' /\ HistoryTyped
  BY LoadActionsTyped DEF GapsInv
<1>1. /\ UNCHANGED database /\ card' = card /\ opens' = opens
      /\ UNCHANGED <<plain, tables, rows, mark, allDisplayed, unseen, strayed>>
      /\ loads' = [loads EXCEPT ![l] = NoLoad]
  BY DEF FailOlder, Settle, screen, history
<1>2. loads'[l] = NoLoad /\ \A k \in Loads \ {l} : loads'[k] = loads[k]
  BY <1>1, HistoryParts DEF GapsInv, LoadsTyped
<1>3. Steady
  BY <1>1, LoadStepIsSteady
<1>4. LoadsOfPast'
  BY <1>1, <1>2, PastStaysPast
<1>5. BlankUnlessShown' /\ FirstCovers'
  <2>1. BlankUnlessShown'
    BY <1>1 DEF GapsInv, BlankUnlessShown, Shown
  <2> QED BY <1>0, <1>1, <1>3, <2>1, FirstStaysCovered, SameDatabase DEF GapsInv, Steady
<1>6. NoUnknownGaps' /\ EndIsComplete'
  BY <1>0, <1>1, <1>3, GapsStayKnown, EndStaysComplete DEF GapsInv
<1>7. \A k \in Loads : LoadCovers(k)'
  BY <1>0, <1>2, <1>3, LoadStaysCovered, IdleIsCovered DEF GapsInv
<1> QED BY <1>0, <1>4, <1>5, <1>6, <1>7 DEF GapsInv

LEMMA AddingKeepsGaps ==
    ASSUME GapsInv, NEW l \in Loads, AddOldMessages(l)
    PROVE  GapsInv'
<1>0. HistoryTyped' /\ HistoryTyped
  BY LoadActionsTyped DEF GapsInv
<1>1. /\ loads[l].stage = "served" /\ ~Stray(l) /\ Shown
      /\ UNCHANGED database /\ card' = card /\ opens' = opens
      /\ UNCHANGED <<allDisplayed, unseen, strayed>>
      /\ plain' = plain \cup loads[l].page.plain /\ tables' = tables \cup loads[l].page.prompts
      /\ rows' = rows /\ mark' = MarkAfter(loads[l].page)
  BY DEF AddOldMessages, Stray, history, RowsOf
<1>2. /\ loads'[l].stage = "settling" /\ loads'[l].card = loads[l].card
      /\ loads'[l].skin = loads[l].skin
      /\ \A k \in Loads \ {l} : loads'[k] = loads[k]
  <2>1. loads \in [Loads -> LoadState]
    BY <1>0, HistoryParts DEF LoadsTyped
  <2> QED BY <2>1 DEF AddOldMessages, LoadState
<1>3. Steady
  BY <1>1, LoadStepIsSteady
<1>4. LoadsOfPast'
  BY <1>1, <1>2, PastStaysPast
<1>5. BlankUnlessShown' /\ FirstCovers'
  BY <1>1 DEF BlankUnlessShown, FirstCovers, Shown
<1>6. EndIsComplete'
  BY <1>0, <1>1, <1>3, EndStaysComplete DEF GapsInv
<1>7. PICK pg : pg = loads[l].page
  OBVIOUS
<1>8. PageTyped(pg) /\ HistoryTypeOK
  BY <1>0, <1>7 DEF HistoryTyped, PagesTyped
<1>9. NoUnknownGaps'
  <2>1. CASE pg = EmptyPage
    <3>1. mark' = mark
      BY <1>1, <1>7, <1>8, <2>1, MarkIsOldest
    <3> QED BY <1>0, <1>3, <3>1, GapsStayKnown DEF GapsInv
  <2>2. CASE pg # EmptyPage
    <3> SUFFICES ASSUME NEW m \in Stored', created'[m] >= mark' PROVE Accounted(m)'
      BY DEF NoUnknownGaps
    <3>1. m \in Stored /\ created'[m] = created[m]
      BY <1>1, SameDatabase DEF database
    <3>2. mark' \in TimesOf(pg)
      BY <1>1, <1>7, <1>8, <2>2, MarkIsOldest
    <3>3. Reached(pg, m)
      BY <3>1, <3>2 DEF Reached
    <3>4. PICK P, Q : P = plain' /\ Q = tables'
      OBVIOUS
    <3>5. AccountedWith(P, Q, m)
      BY <1>1, <1>7, <3>1, <3>3, <3>4 DEF GapsInv, LoadCovers
    <3>6. Q \in SUBSET Created
      BY <1>1, <1>7, <1>8, <3>4, HistoryParts DEF GapsInv, ScreenTyped, PageTyped
    <3>7. AccountedWith(P, Q, m)'
      BY <1>3, <3>1, <3>5, <3>6, StaysAccounted DEF Steady
    <3> QED BY <3>4, <3>7, AccountedIsWithNext
  <2> QED BY <2>1, <2>2
<1>10. ASSUME NEW k \in Loads PROVE LoadCovers(k)'
  <2>1. CASE k # l
    BY <1>0, <1>2, <1>3, <2>1, LoadStaysCovered DEF GapsInv
  <2>2. CASE k = l
    BY <1>1, <1>2, <2>2 DEF GapsInv, LoadCovers
  <2> QED BY <2>1, <2>2
<1> QED BY <1>0, <1>4, <1>5, <1>6, <1>9, <1>10 DEF GapsInv

LEMMA AddingInVainKeepsGaps ==
    ASSUME GapsInv, NEW l \in Loads, AddToClosed(l)
    PROVE  GapsInv'
<1>0. HistoryTyped' /\ HistoryTyped
  BY LoadActionsTyped DEF GapsInv
<1>1. /\ loads[l].stage = "served" /\ Stray(l)
      /\ UNCHANGED database /\ card' = card /\ opens' = opens
      /\ UNCHANGED <<plain, tables, rows, allDisplayed, unseen>>
  BY DEF AddToClosed, screen
<1>2. (strayed => strayed') /\ (mark' = mark \/ strayed') /\ (~Shown => mark' = mark /\ strayed' = strayed)
  BY DEF AddToClosed
<1>3. /\ \A k \in Loads \ {l} : loads'[k] = loads[k]
      /\ loads'[l] = NoLoad \/ loads'[l].card = loads[l].card
  <2>1. loads \in [Loads -> LoadState]
    BY <1>0, HistoryParts DEF LoadsTyped
  <2>2. CASE loads' = [loads EXCEPT ![l].stage = "settling", ![l].page = EmptyPage]
    BY <2>1, <2>2 DEF LoadState
  <2>3. CASE loads' = [loads EXCEPT ![l] = NoLoad]
    BY <2>1, <2>3
  <2> QED BY <2>2, <2>3 DEF AddToClosed
<1>4. Steady
  BY <1>1, <1>2, LoadStepIsSteady
<1>5. LoadsOfPast'
  BY <1>1, <1>3, PastStaysPast
<1>6. BlankUnlessShown' /\ FirstCovers'
  <2>1. BlankUnlessShown'
    BY <1>1, <1>2 DEF GapsInv, BlankUnlessShown, Shown
  <2> QED BY <1>0, <1>1, <1>4, <2>1, FirstStaysCovered, SameDatabase DEF GapsInv, Steady
<1>7. NoUnknownGaps' /\ EndIsComplete'
  BY <1>0, <1>1, <1>2, <1>4, GapsStayKnown, EndStaysComplete DEF GapsInv
<1>8. ASSUME NEW k \in Loads PROVE LoadCovers(k)'
  <2>1. CASE k # l
    BY <1>0, <1>3, <1>4, <2>1, LoadStaysCovered DEF GapsInv
  <2>2. CASE k = l /\ loads'[l] = NoLoad
    BY <2>2, IdleIsCovered
  <2>3. CASE k = l /\ loads'[l].card = loads[l].card
    <3>1. Stray(l)'
      BY <1>1, <2>3 DEF Stray, Shown
    <3> QED BY <2>3, <3>1 DEF LoadCovers
  <2> QED BY <1>3, <2>1, <2>2, <2>3
<1> QED BY <1>0, <1>5, <1>6, <1>7, <1>8 DEF GapsInv

LEMMA LiveKeepsGaps ==
    ASSUME GapsInv, NEW t \in 1..MaxCreated,
           \/ \E p \in Prompts : NewPrompt(p, t)
           \/ \E m \in Messages : UserMessage(m, t)
    PROVE  GapsInv'
<1>0. HistoryTyped' /\ HistoryTyped
  BY LiveActionsTyped DEF GapsInv
<1>1. /\ \A m \in Stored : m \in Stored' /\ created'[m] = created[m]
      /\ \A p \in Created : promptCreated'[p] = promptCreated[p]
  BY <1>0, HistoryParts, DatabaseGrows
<1>2. /\ card' = card /\ opens' = opens /\ mark' = mark /\ loads' = loads
      /\ allDisplayed' = allDisplayed /\ strayed' = strayed
      /\ ~Shown => plain' = plain /\ tables' = tables /\ rows' = rows
      /\ plain \subseteq plain' /\ tables \subseteq tables' /\ rows \subseteq rows'
      /\ unseen \subseteq unseen'
  BY DEF NewPrompt, UserMessage, history
<1>3. \A m \in Stored' \ Stored :
         card.stage \in {"served", "shown"} =>
            \/ m \in unseen'
            \/ Shown /\ m \in plain' \cup rows'
  <2>1. CASE \E p \in Prompts : NewPrompt(p, t)
    BY <2>1 DEF NewPrompt, Stored
  <2>2. ASSUME NEW m \in Messages, UserMessage(m, t)
        PROVE  card.stage \in {"served", "shown"} =>
                  m \in unseen' \/ (Shown /\ m \in plain' \cup rows')
    <3>1. PICK kept \in BOOLEAN :
            LET alone == Shown /\ (card.skin = "base" \/ PromptOf[m] = NoPrompt)
                within == Shown /\ card.skin = "prompts" /\ kept /\ PromptOf[m] \in tables
            IN  /\ plain' = IF alone THEN plain \cup {m} ELSE plain
                /\ rows' = IF within THEN rows \cup {m} ELSE rows
                /\ unseen' = IF card.stage \in {"served", "shown"} /\ ~alone /\ ~within
                             THEN unseen \cup {m} ELSE unseen
      BY <2>2 DEF UserMessage
    <3> QED BY <3>1
  <2>3. ASSUME NEW m \in Messages, UserMessage(m, t) PROVE Stored' \ Stored \subseteq {m}
    BY <1>0, <2>3, HistoryParts DEF UserMessage, Stored, DatabaseTyped
  <2> QED BY <2>1, <2>2, <2>3
<1>4. Steady
  BY <1>1, <1>2, <1>3 DEF Steady, Grows, Shown
<1>5. LoadsOfPast' /\ BlankUnlessShown'
  BY <1>2 DEF GapsInv, LoadsOfPast, BlankUnlessShown, Shown
<1>6. FirstCovers'
  BY <1>0, <1>2, <1>3, <1>4, FirstStaysCovered DEF GapsInv, Steady, Shown
<1>7. NoUnknownGaps' /\ EndIsComplete'
  BY <1>0, <1>2, <1>4, GapsStayKnown, EndStaysComplete DEF GapsInv
<1>8. \A k \in Loads : LoadCovers(k)'
  BY <1>0, <1>2, <1>4, LoadStaysCovered DEF GapsInv
<1> QED BY <1>0, <1>5, <1>6, <1>7, <1>8 DEF GapsInv

LEMMA GapsBegin == ASSUME HistoryInit PROVE GapsInv
<1>1. HistoryTyped /\ ~Shown /\ card.stage = "none"
  BY HistoryTypesBegin DEF HistoryInit, Shown
<1>2. LoadsOfPast
  BY DEF HistoryInit, LoadsOfPast, NoLoad
<1>3. BlankUnlessShown /\ FirstCovers
  BY <1>1 DEF HistoryInit, BlankUnlessShown, FirstCovers
<1> QED BY <1>1, <1>2, <1>3 DEF GapsInv, LoadCovers, Stray, NoUnknownGaps, EndIsComplete

LEMMA GapsKept == ASSUME GapsInv, [HistoryNext]_historyVars PROVE GapsInv'
<1>1. CASE UNCHANGED historyVars
  <2>1. HistoryTyped' /\ HistoryTyped
    BY HistoryTypesKept DEF GapsInv
  <2>2. /\ UNCHANGED database /\ card' = card /\ opens' = opens /\ loads' = loads
        /\ UNCHANGED <<plain, tables, rows, mark, allDisplayed, unseen, strayed>>
    BY <1>1 DEF historyVars, screen, history
  <2>3. Steady
    BY <2>2, LoadStepIsSteady
  <2>4. LoadsOfPast' /\ BlankUnlessShown'
    BY <2>2 DEF GapsInv, LoadsOfPast, BlankUnlessShown, Shown
  <2>5. FirstCovers'
    BY <2>1, <2>2, <2>3, FirstStaysCovered, SameDatabase DEF GapsInv, Steady
  <2>6. NoUnknownGaps' /\ EndIsComplete'
    BY <2>1, <2>2, <2>3, GapsStayKnown, EndStaysComplete DEF GapsInv
  <2>7. \A k \in Loads : LoadCovers(k)'
    BY <2>1, <2>2, <2>3, LoadStaysCovered DEF GapsInv
  <2> QED BY <2>1, <2>4, <2>5, <2>6, <2>7 DEF GapsInv
<1>2. CASE HistoryNext
  BY <1>2, OpeningKeepsGaps, ClosingKeepsGaps, FirstPageKeepsGaps, BuildingKeepsGaps,
     ScrollKeepsGaps, OlderPageKeepsGaps, EndingKeepsGaps, AddingKeepsGaps,
     AddingInVainKeepsGaps, LiveKeepsGaps
     DEF HistoryNext
<1> QED BY <1>1, <1>2

\* Whatever is not older than the mark is on the card, or is missing for one of
\* the listed causes: paging backwards by time leaves no other holes
\* (addOldMessages, initPagination, fetch_shout_data).
THEOREM GapsAreKnown == HistorySpec => []NoUnknownGaps
<1>1. GapsInv => NoUnknownGaps
  BY DEF GapsInv
<1> QED BY <1>1, GapsBegin, GapsKept, PTL DEF HistorySpec

\* Once the client asks for no more (all_messages_displayed), nothing is left on
\* the server but what is missing for one of these causes.
THEOREM TheEndIsComplete == HistorySpec => []EndIsComplete
<1>1. GapsInv => EndIsComplete
  BY DEF GapsInv
<1> QED BY <1>1, GapsBegin, GapsKept, PTL DEF HistorySpec
=============================================================================
