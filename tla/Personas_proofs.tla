--------------------------- MODULE Personas_proofs ---------------------------
(***************************************************************************)
(* Proofs about Personas, for any personas, owners, accounts and models:   *)
(* types, that the models end up with what the table holds, and that an    *)
(* answer, however often it was narrowed, is the asker's own.              *)
(***************************************************************************)
EXTENDS Personas, TLAPS

-----------------------------------------------------------------------------
(***************************************************************************)
(* Types                                                                   *)
(***************************************************************************)
LEMMA TypeInit == Init => TypeOK
  BY BoundAssumption DEF Init, TypeOK, Nothing, Answers, Listings

LEMMA EventOK ==
    ASSUME NEW p \in Personas, NEW rev \in 1..MaxEdits,
           NEW drop \in SUBSET Llms, NEW put \in SUBSET Llms
    PROVE  Event(p, rev, drop, put) \subseteq Events
  BY DEF Event, Events

LEMMA PublishOK ==
    ASSUME TypeOK, NEW p \in Personas, NEW old \in SUBSET Llms, NEW new \in SUBSET Llms,
           Publish(p, old, new)
    PROVE  /\ edits' \in 1..MaxEdits /\ news' \subseteq Events /\ spoiled' \subseteq Personas
           /\ edits' \in 0..MaxEdits
<1>1. edits' \in 1..MaxEdits /\ edits' \in 0..MaxEdits
  BY BoundAssumption DEF TypeOK, Publish
<1>2. Event(p, edits', old \ new, new) \subseteq Events
  BY <1>1, EventOK
<1> QED BY <1>1, <1>2 DEF TypeOK, Publish

LEMMA EditTypes ==
    ASSUME TypeOK, NEW by \in Accounts, NEW p \in Personas, NEW L \in SUBSET Llms, NEW on \in BOOLEAN,
           \/ AddPersona(by, p, L, on) \/ SetPersona(by, p, L)
           \/ DeletePersona(by, p) \/ TogglePersona(by, p)
    PROVE  TypeOK'
<1>1. supports[p] \in SUBSET Llms /\ {} \in SUBSET Llms
  BY DEF TypeOK
<1>2. CASE AddPersona(by, p, L, on)
  <2>1. edits' \in 1..MaxEdits /\ news' \subseteq Events /\ spoiled' \subseteq Personas
        /\ edits' \in 0..MaxEdits
    BY <1>1, <1>2, PublishOK DEF AddPersona
  <2>2. \A q \in Personas : q # p => stored'[q] = stored[q]
    BY <1>2 DEF AddPersona, TypeOK
  <2>3. stored' \in [Personas -> 0..MaxEdits] /\ stored'[p] = edits' /\ edits' > 0
    BY <1>2, <2>1, BoundAssumption DEF AddPersona, TypeOK
  <2>4. enabled' \subseteq {q \in Personas : stored'[q] > 0}
    BY <1>2, <2>2, <2>3 DEF AddPersona, TypeOK
  <2> QED BY <1>2, <2>1, <2>3, <2>4 DEF TypeOK, AddPersona, Silent
<1>3. CASE SetPersona(by, p, L)
  <2>1. edits' \in 1..MaxEdits /\ news' \subseteq Events /\ spoiled' \subseteq Personas
        /\ edits' \in 0..MaxEdits
    BY <1>1, <1>3, PublishOK DEF SetPersona
  <2>2. \A q \in Personas : q # p => stored'[q] = stored[q]
    BY <1>3 DEF SetPersona, TypeOK
  <2>3. stored' \in [Personas -> 0..MaxEdits] /\ stored'[p] = edits' /\ edits' > 0
    BY <1>3, <2>1, BoundAssumption DEF SetPersona, TypeOK
  <2>4. enabled' \subseteq {q \in Personas : stored'[q] > 0}
    BY <1>3, <2>2, <2>3 DEF SetPersona, TypeOK
  <2> QED BY <1>3, <2>1, <2>3, <2>4 DEF TypeOK, SetPersona, Silent
<1>4. CASE DeletePersona(by, p)
  <2>1. edits' \in 1..MaxEdits /\ news' \subseteq Events /\ spoiled' \subseteq Personas
        /\ edits' \in 0..MaxEdits
    BY <1>1, <1>4, PublishOK DEF DeletePersona
  <2>2. \A q \in Personas : q # p => stored'[q] = stored[q]
    BY <1>4 DEF DeletePersona, TypeOK
  <2>3. stored' \in [Personas -> 0..MaxEdits]
    BY <1>4, BoundAssumption DEF DeletePersona, TypeOK
  <2>4. enabled' \subseteq {q \in Personas : stored'[q] > 0}
    BY <1>4, <2>2 DEF DeletePersona, TypeOK
  <2> QED BY <1>4, <2>1, <2>3, <2>4 DEF TypeOK, DeletePersona, Silent
<1>5. CASE TogglePersona(by, p)
  <2>1. edits' \in 0..MaxEdits
    BY <1>5, BoundAssumption DEF TogglePersona, TypeOK
  <2> QED BY <1>5, <2>1 DEF TypeOK, TogglePersona, Silent
<1> QED BY <1>2, <1>3, <1>4, <1>5

\* What is left of an event is an event.
LEMMA ContinueOK ==
    ASSUME TypeOK, NEW e \in news, NEW D \in SUBSET e.drop, NEW P \in SUBSET e.put, NEW rest,
           rest.drop = D, rest.put = P, Continue(e, rest)
    PROVE  /\ news' \subseteq Events
           /\ e.of \in Personas /\ e.rev \in 1..MaxEdits /\ e.rev \in 0..MaxEdits
           /\ e.drop \subseteq Llms /\ e.put \subseteq Llms
<1>1. /\ e.of \in Personas /\ e.rev \in 1..MaxEdits /\ e.rev \in 0..MaxEdits
      /\ e.drop \subseteq Llms /\ e.put \subseteq Llms
  BY BoundAssumption DEF TypeOK, Events
<1>2. Event(e.of, e.rev, D, P) \subseteq Events
  BY <1>1, EventOK
<1> QED BY <1>1, <1>2 DEF Continue, TypeOK

LEMMA TellTypes ==
    ASSUME TypeOK, NEW e \in news, NEW l,
           \/ l \in Llms /\ (TellDeleted(e, l) \/ TellUpdated(e, l))
           \/ LoseNews(e)
    PROVE  TypeOK'
<1>0. e \in Events
  BY DEF TypeOK
<1>1. CASE l \in Llms /\ TellDeleted(e, l)
  <2>1. news' \subseteq Events /\ e.of \in Personas
    <3> DEFINE rest == [e EXCEPT !.drop = e.drop \ {l}]
    <3>1. rest.drop = e.drop \ {l} /\ rest.put = e.put
      BY <1>0 DEF Events
    <3>2. Continue(e, rest)
      BY <1>1 DEF TellDeleted
    <3> HIDE DEF rest
    <3> QED BY <3>1, <3>2, ContinueOK
  <2>2. known' \in [Llms -> [Personas -> 0..MaxEdits]]
    BY <1>1, <2>1, BoundAssumption DEF TypeOK, TellDeleted
  <2> QED BY <1>1, <2>1, <2>2 DEF TypeOK, TellDeleted, Silent, database, counters
<1>2. CASE l \in Llms /\ TellUpdated(e, l)
  <2>1. news' \subseteq Events /\ e.of \in Personas /\ e.rev \in 0..MaxEdits
    <3> DEFINE rest == [e EXCEPT !.put = e.put \ {l}]
    <3>1. rest.drop = e.drop /\ rest.put = e.put \ {l}
      BY <1>0 DEF Events
    <3>2. Continue(e, rest)
      BY <1>2 DEF TellUpdated
    <3> HIDE DEF rest
    <3> QED BY <3>1, <3>2, ContinueOK
  <2>2. known' \in [Llms -> [Personas -> 0..MaxEdits]]
    BY <1>2, <2>1 DEF TypeOK, TellUpdated
  <2> QED BY <1>2, <2>1, <2>2 DEF TypeOK, TellUpdated, Silent, database, counters
<1>3. CASE LoseNews(e)
  <2>1. failures' \in 0..MaxFailures /\ e.of \in Personas
    BY <1>0, <1>3, BoundAssumption DEF TypeOK, LoseNews, Events
  <2> QED BY <1>3, <2>1 DEF TypeOK, LoseNews, Silent, database
<1> QED BY <1>1, <1>2, <1>3

(***************************************************************************)
(* What is kept is nothing, or listings of its user of which the narrowed  *)
(* one is part; it has the id of a request, so that whoever finds it knows *)
(* that somebody was answered before.                                      *)
(***************************************************************************)
KeptOK(k, a) == /\ a \in Answers /\ a.items \subseteq a.listed
                /\ \A x \in a.listed : Owner[x[1]] = k

CacheInv == \A k \in Keys : KeptOK(k, cache[k]) /\ (cache[k].valid => cache[k].id # 0)

\* A request that was not answered out of something kept.
LEMMA ReplyRight ==
    ASSUME TypeOK, CacheInv, NEW r \in Requests, NEW kept, KeptOK(r.for, kept), kept.valid,
           kept.id = 0 => kept.items = kept.listed,
           Reply(r, kept)
    PROVE  /\ cache' \in [Keys -> Answers] /\ CacheInv' /\ AnswerRight'
           /\ \A a \in answer' : a.to \in Requests /\ a.items \subseteq Personas /\ a.id \in 1..MaxAsks
<1> DEFINE mine == {x[1] : x \in {y \in kept.items : y[2] = r.from}}
           id   == IF kept.id = 0 THEN r.id ELSE kept.id
           left == [kept EXCEPT !.items = {x \in kept.items : x[1] \in mine}, !.id = id]
           a    == [to |-> r, items |-> mine, id |-> id,
                    listed |-> kept.listed, kept |-> kept.id # 0]
<1>1. /\ kept \in Answers /\ kept.items \subseteq kept.listed
      /\ kept.listed \subseteq Personas \X Llms /\ kept.id \in 0..MaxAsks
      /\ \A x \in kept.listed : Owner[x[1]] = r.for
  BY DEF KeptOK, Answers, Listings
<1>2. r.for \in Keys /\ r.id \in 1..MaxAsks
  BY DEF Requests
<1>3. id \in 1..MaxAsks /\ id # 0 /\ id \in 0..MaxAsks
  BY <1>1, <1>2, BoundAssumption
<1>4. /\ left \in Answers /\ left.valid /\ left.id = id /\ left.listed = kept.listed
      /\ left.items = {x \in kept.items : x[1] \in mine}
  BY <1>1, <1>3 DEF Answers, Listings
<1>5. KeptOK(r.for, left)
  <2>1. left.items \subseteq kept.items
    BY <1>4
  <2> QED BY <1>1, <1>4, <2>1 DEF KeptOK
<1>6. cache' = [cache EXCEPT ![r.for] = left] /\ answer' = {a}
  BY DEF Reply
<1>7. mine \subseteq Personas /\ \A p \in mine : Owner[p] = r.for /\ <<p, r.from>> \in kept.listed
  <2> SUFFICES ASSUME NEW x \in kept.items, x[2] = r.from
               PROVE  x[1] \in Personas /\ Owner[x[1]] = r.for /\ <<x[1], r.from>> \in kept.listed
    OBVIOUS
  <2>1. x \in kept.listed /\ x \in Personas \X Llms
    BY <1>1
  <2>2. x = <<x[1], r.from>>
    BY <2>1
  <2> QED BY <1>1, <2>1, <2>2
<1>8. kept.id = 0 => /\ \A x \in kept.listed : x[2] = r.from => x[1] \in mine
                     /\ id = r.id
  OBVIOUS
<1> HIDE DEF left
<1>9. cache' \in [Keys -> Answers] /\ CacheInv'
  <2>1. /\ \A k \in Keys : k # r.for => cache'[k] = cache[k]
        /\ cache'[r.for] = left
    BY <1>2, <1>6 DEF TypeOK
  <2>2. cache' \in [Keys -> Answers]
    BY <1>2, <1>4, <1>6 DEF TypeOK
  <2> QED BY <1>3, <1>4, <1>5, <2>1, <2>2 DEF CacheInv
<1>10. AnswerRight'
  <2>1. /\ a.to = r /\ a.items = mine /\ a.id = id /\ a.listed = kept.listed
        /\ a.kept = (kept.id # 0)
    OBVIOUS
  <2> HIDE DEF a, mine, id
  <2>2. AnswerSound'
    BY <1>6, <1>7, <2>1 DEF AnswerSound
  <2>3. FreshAnswerComplete'
    BY <1>6, <1>8, <2>1 DEF FreshAnswerComplete, AnswerComplete
  <2> QED BY <2>2, <2>3 DEF AnswerRight
<1> QED BY <1>3, <1>6, <1>7, <1>9, <1>10

LEMMA SilentRight ==
    ASSUME Silent
    PROVE  /\ AnswerRight'
           /\ \A a \in answer' : a.to \in Requests /\ a.items \subseteq Personas /\ a.id \in 1..MaxAsks
  BY DEF Silent, AnswerRight, AnswerSound, FreshAnswerComplete, AnswerComplete

LEMMA AskKeeps ==
    ASSUME TypeOK, CacheInv, NEW r \in Requests,
           \/ AnswerFresh(r) \/ AnswerKept(r) \/ FetchUnavailable(r) \/ FetchRefused(r)
    PROVE  TypeOK' /\ CacheInv' /\ AnswerRight'
<1>1. /\ asks' \in 0..MaxAsks /\ r.for \in Keys
      /\ UNCHANGED <<database, news, known, edits, spoiled>>
  BY DEF AnswerFresh, AnswerKept, FetchUnavailable, FetchRefused, Answered, Requests
<1>2. failures' \in 0..MaxFailures
  BY BoundAssumption DEF AnswerFresh, AnswerKept, FetchUnavailable, FetchRefused, TypeOK
<1>3. /\ cache' \in [Keys -> Answers] /\ CacheInv' /\ AnswerRight'
      /\ \A a \in answer' : a.to \in Requests /\ a.items \subseteq Personas /\ a.id \in 1..MaxAsks
  <2>1. CASE AnswerFresh(r)
    <3>1. PICK now, kept : /\ now = {x \in Listed(r.for) \X Llms : x[2] \in supports[x[1]]}
                           /\ kept = [valid |-> TRUE, items |-> now, id |-> 0, listed |-> now]
                           /\ Reply(r, kept)
      BY <2>1 DEF AnswerFresh
    <3>2. now \subseteq Personas \X Llms /\ \A x \in now : Owner[x[1]] = r.for
      BY <3>1 DEF TypeOK, Listed
    <3>3. KeptOK(r.for, kept) /\ kept.valid /\ kept.items = kept.listed
      BY <3>1, <3>2, BoundAssumption DEF KeptOK, Answers, Listings
    <3> QED BY <3>1, <3>3, ReplyRight
  <2>2. CASE AnswerKept(r)
    <3>1. Reply(r, cache[r.for]) /\ cache[r.for].valid
      BY <2>2 DEF AnswerKept
    <3>2. KeptOK(r.for, cache[r.for]) /\ cache[r.for].id # 0
      BY <1>1, <3>1 DEF CacheInv
    <3> QED BY <3>1, <3>2, ReplyRight
  <2>3. CASE FetchUnavailable(r)
    <3>1. PICK kept : kept = [Nothing EXCEPT !.valid = TRUE] /\ Reply(r, kept)
      BY <2>3 DEF FetchUnavailable
    <3>2. kept = [valid |-> TRUE, items |-> {}, id |-> 0, listed |-> {}]
      BY <3>1 DEF Nothing
    <3>3. kept \in Answers /\ kept.valid /\ kept.items = {} /\ kept.listed = {}
      BY <3>2, BoundAssumption DEF Answers, Listings
    <3> QED BY <3>1, <3>3, ReplyRight DEF KeptOK
  <2>4. CASE FetchRefused(r)
    BY <2>4, SilentRight DEF FetchRefused, CacheInv, TypeOK
  <2> QED BY <2>1, <2>2, <2>3, <2>4
<1> QED BY <1>1, <1>2, <1>3 DEF TypeOK, database

LEMMA ExpiryKeeps ==
    ASSUME TypeOK, CacheInv, NEW k \in Keys, CacheExpires(k)
    PROVE  TypeOK' /\ CacheInv' /\ AnswerRight'
<1>1. Nothing \in Answers /\ ~Nothing.valid /\ Nothing.items = {} /\ Nothing.listed = {}
  BY BoundAssumption DEF Nothing, Answers, Listings
<1>2. cache' = [cache EXCEPT ![k] = Nothing]
  BY DEF CacheExpires
<1>3. cache' \in [Keys -> Answers] /\ CacheInv'
  BY <1>1, <1>2 DEF TypeOK, CacheInv, KeptOK
<1> QED BY <1>3, SilentRight DEF CacheExpires, TypeOK, Silent, database, counters

-----------------------------------------------------------------------------
(***************************************************************************)
(* What models are told                                                    *)
(***************************************************************************)
Due(l, p) == IF l \in supports[p] THEN stored[p] ELSE 0
Waits(l, e) == l \in e.drop \/ l \in e.put

\* An event still brings the table's state: those it drops are not supported,
\* those it updates are, with the revision that is stored.
Current(e) == /\ \A l \in e.drop : l \notin supports[e.of]
              /\ \A l \in e.put : l \in supports[e.of]
              /\ e.put # {} => e.rev = stored[e.of]

\* One event at a time, and a model that it will not tell knows already.
ToldInv ==
    /\ \A e, f \in news : e.of = f.of /\ e.of \notin spoiled => e = f
    /\ \A e \in news : e.of \notin spoiled => Current(e)
    /\ \A p \in Personas : p \notin spoiled =>
          \A l \in Llms : (\A e \in news : e.of = p => ~Waits(l, e)) => known[l][p] = Due(l, p)

LEMMA ToldInit == Init => ToldInv
  BY DEF Init, ToldInv, Due

LEMMA ToldMeans == ToldInv => ToldLast
  BY DEF ToldInv, ToldLast, Due

\* Nothing that models are told, or should be, changes.
LEMMA ToldStutter ==
    ASSUME ToldInv, UNCHANGED <<stored, supports, news, known, spoiled>>
    PROVE  ToldInv'
  BY DEF ToldInv, Current, Due

LEMMA PublishTells ==
    ASSUME TypeOK, ToldInv, NEW p \in Personas, NEW old \in SUBSET Llms, NEW new \in SUBSET Llms,
           NEW rev, Publish(p, old, new), known' = known,
           stored' = [stored EXCEPT ![p] = rev],
           supports' = [supports EXCEPT ![p] = new],
           new # {} => rev = edits',
           \A l \in supports[p] : l \in old \/ stored[p] = 0
    PROVE  ToldInv'
<1>1. /\ \A q \in Personas : q # p => stored'[q] = stored[q] /\ supports'[q] = supports[q]
      /\ stored'[p] = rev /\ supports'[p] = new
  BY DEF TypeOK
<1>2. \A e \in news : e.of \in Personas
  BY DEF TypeOK, Events
<1>3. /\ news' = news \cup Event(p, edits', old \ new, new)
      /\ spoiled' = IF \E e \in news : e.of = p THEN spoiled \cup {p} ELSE spoiled
  BY DEF Publish
<1>4. \A e \in Event(p, edits', old \ new, new) :
          e = [of |-> p, rev |-> edits', drop |-> old \ new, put |-> new]
  BY DEF Event
<1>5. \A e, f \in news' : e.of = f.of /\ e.of \notin spoiled' => e = f
  <2> SUFFICES ASSUME NEW e \in news', NEW f \in news', e.of = f.of, e.of \notin spoiled'
               PROVE  e = f
    OBVIOUS
  <2>1. CASE e \in news /\ f \in news
    BY <1>3, <2>1 DEF ToldInv
  <2>2. CASE e \notin news /\ f \notin news
    BY <1>3, <1>4, <2>2
  <2>3. CASE (e \in news /\ f \notin news) \/ (e \notin news /\ f \in news)
    BY <1>3, <1>4, <2>3
  <2> QED BY <2>1, <2>2, <2>3
<1>6. \A e \in news' : e.of \notin spoiled' => Current(e)'
  <2> SUFFICES ASSUME NEW e \in news', e.of \notin spoiled'
               PROVE  Current(e)'
    OBVIOUS
  <2>1. CASE e \in news
    <3>1. e.of # p /\ e.of \notin spoiled /\ e.of \in Personas
      BY <1>2, <1>3, <2>1
    <3> QED BY <1>1, <2>1, <3>1 DEF ToldInv, Current
  <2>2. CASE e \notin news
    <3>1. e = [of |-> p, rev |-> edits', drop |-> old \ new, put |-> new]
      BY <1>3, <1>4, <2>2
    <3>2. e.of = p /\ e.rev = edits' /\ e.drop = old \ new /\ e.put = new
      BY <3>1
    <3> QED BY <1>1, <3>2 DEF Current
  <2> QED BY <2>1, <2>2
<1>7. ASSUME NEW q \in Personas, q \notin spoiled', NEW l \in Llms,
             \A e \in news' : e.of = q => ~Waits(l, e)
      PROVE  known[l][q] = Due(l, q)'
  <2>1. q \notin spoiled /\ \A e \in news : e.of = q => ~Waits(l, e)
    BY <1>3, <1>7
  <2>2. known[l][q] = Due(l, q)
    BY <2>1 DEF ToldInv
  <2>3. CASE q # p
    BY <1>1, <2>2, <2>3 DEF Due
  <2>4. CASE q = p
    <3>1. l \notin old \ new /\ l \notin new
      <4> SUFFICES ASSUME l \in old \/ l \in new PROVE FALSE
        OBVIOUS
      <4> DEFINE e == [of |-> p, rev |-> edits', drop |-> old \ new, put |-> new]
      <4>1. e \in news'
        BY <1>3 DEF Event
      <4>2. e.of = p /\ e.drop = old \ new /\ e.put = new
        OBVIOUS
      <4> HIDE DEF e
      <4> QED BY <1>7, <2>4, <4>1, <4>2 DEF Waits
    <3>2. l \notin supports[p] \/ stored[p] = 0
      BY <3>1
    <3> QED BY <1>1, <2>2, <2>4, <3>1, <3>2 DEF Due
  <2> QED BY <2>3, <2>4
<1> QED BY <1>5, <1>6, <1>7 DEF ToldInv

LEMMA EditTells ==
    ASSUME TypeOK, ToldInv, NEW by \in Accounts, NEW p \in Personas, NEW L \in SUBSET Llms, NEW on \in BOOLEAN,
           \/ AddPersona(by, p, L, on) \/ SetPersona(by, p, L)
           \/ DeletePersona(by, p) \/ TogglePersona(by, p)
    PROVE  ToldInv'
<1>1. supports[p] \in SUBSET Llms /\ {} \in SUBSET Llms
  BY DEF TypeOK
<1>2. CASE AddPersona(by, p, L, on)
  BY <1>1, <1>2, PublishTells DEF AddPersona
<1>3. CASE SetPersona(by, p, L)
  BY <1>1, <1>3, PublishTells DEF SetPersona
<1>4. CASE DeletePersona(by, p)
  BY <1>1, <1>4, PublishTells DEF DeletePersona
<1>5. CASE TogglePersona(by, p)
  BY <1>5, ToldStutter DEF TogglePersona
<1> QED BY <1>2, <1>3, <1>4, <1>5

\* A message tells one model what is due and is one less to send.
LEMMA MessageTells ==
    ASSUME TypeOK, ToldInv, NEW e \in news, NEW l \in Llms,
           TellDeleted(e, l) \/ TellUpdated(e, l)
    PROVE  \E D, P, v :
             /\ D \subseteq e.drop /\ P \subseteq e.put
             /\ \A k : (k \in e.drop \/ k \in e.put) /\ k # l => k \in D \/ k \in P
             /\ news' = (news \ {e}) \cup Event(e.of, e.rev, D, P)
             /\ known' = [known EXCEPT ![l][e.of] = v]
             /\ e.of \notin spoiled => v = Due(l, e.of)
<1>0. e \in Events /\ e.of \in Personas /\ (e.of \notin spoiled => Current(e))
  BY DEF TypeOK, Events, ToldInv
<1>1. CASE TellDeleted(e, l)
  <2>1. PICK rest : rest = [e EXCEPT !.drop = e.drop \ {l}] /\ Continue(e, rest)
    BY <1>1 DEF TellDeleted
  <2>2. rest.drop = e.drop \ {l} /\ rest.put = e.put
    BY <1>0, <2>1 DEF Events
  <2>3. PICK D, P : D = e.drop \ {l} /\ P = e.put
    OBVIOUS
  <2>4. news' = (news \ {e}) \cup Event(e.of, e.rev, D, P)
    BY <2>1, <2>2, <2>3 DEF Continue
  <2>5. e.of \notin spoiled => 0 = Due(l, e.of)
    BY <1>0, <1>1 DEF TellDeleted, Current, Due
  <2> QED BY <1>1, <2>3, <2>4, <2>5 DEF TellDeleted
<1>2. CASE TellUpdated(e, l)
  <2>1. PICK rest : rest = [e EXCEPT !.put = e.put \ {l}] /\ Continue(e, rest)
    BY <1>2 DEF TellUpdated
  <2>2. rest.drop = e.drop /\ rest.put = e.put \ {l}
    BY <1>0, <2>1 DEF Events
  <2>3. PICK D, P : D = e.drop /\ P = e.put \ {l}
    OBVIOUS
  <2>4. news' = (news \ {e}) \cup Event(e.of, e.rev, D, P)
    BY <2>1, <2>2, <2>3 DEF Continue
  <2>5. e.of \notin spoiled => e.rev = Due(l, e.of)
    BY <1>0, <1>2 DEF TellUpdated, Current, Due
  <2>6. PICK v : v = e.rev
    OBVIOUS
  <2>7. D \subseteq e.drop /\ P \subseteq e.put /\ known' = [known EXCEPT ![l][e.of] = v]
    BY <1>2, <2>3, <2>6 DEF TellUpdated
  <2>8. \A k : (k \in e.drop \/ k \in e.put) /\ k # l => k \in D \/ k \in P
    BY <2>3
  <2> QED BY <2>4, <2>5, <2>6, <2>7, <2>8
<1> QED BY <1>1, <1>2

LEMMA TellTells ==
    ASSUME TypeOK, ToldInv, NEW e \in news, NEW l \in Llms,
           TellDeleted(e, l) \/ TellUpdated(e, l)
    PROVE  ToldInv'
<1>1. e \in Events /\ e.of \in Personas /\ UNCHANGED <<stored, supports, spoiled>>
  BY DEF TypeOK, Events, TellDeleted, TellUpdated, database
<1>2. PICK D, P, v :
             /\ D \subseteq e.drop /\ P \subseteq e.put
             /\ \A k : (k \in e.drop \/ k \in e.put) /\ k # l => k \in D \/ k \in P
             /\ news' = (news \ {e}) \cup Event(e.of, e.rev, D, P)
             /\ known' = [known EXCEPT ![l][e.of] = v]
             /\ e.of \notin spoiled => v = Due(l, e.of)
  BY MessageTells
<1>3. \A f \in Event(e.of, e.rev, D, P) : f = [of |-> e.of, rev |-> e.rev, drop |-> D, put |-> P]
  BY DEF Event
<1>4. \A f \in news' : \/ (f \in news /\ f # e)
                        \/ (f = [of |-> e.of, rev |-> e.rev, drop |-> D, put |-> P])
  BY <1>2, <1>3
<1>5. \A f, g \in news' : f.of = g.of /\ f.of \notin spoiled' => f = g
  BY <1>1, <1>2, <1>4 DEF ToldInv
<1>6. \A f \in news' : f.of \notin spoiled' => Current(f)'
  BY <1>1, <1>2, <1>4 DEF ToldInv, Current
<1>7. ASSUME NEW q \in Personas, q \notin spoiled, NEW k \in Llms,
             \A f \in news' : f.of = q => ~Waits(k, f)
      PROVE  known'[k][q] = Due(k, q)'
  <2>1. Due(k, q)' = Due(k, q)
    BY <1>1 DEF Due
  <2>2. CASE k = l /\ q = e.of
    BY <1>1, <1>2, <1>7, <2>1, <2>2 DEF TypeOK
  <2>3. CASE ~(k = l /\ q = e.of)
    <3>1. known'[k][q] = known[k][q]
      BY <1>1, <1>2, <2>3 DEF TypeOK
    <3>2. ASSUME q = e.of PROVE ~Waits(k, e)
      <4> SUFFICES ASSUME Waits(k, e) PROVE FALSE
        OBVIOUS
      <4>1. k \in D \/ k \in P
        BY <1>2, <2>3, <3>2 DEF Waits
      <4>2. PICK f : f = [of |-> e.of, rev |-> e.rev, drop |-> D, put |-> P]
        OBVIOUS
      <4>3. f \in news' /\ f.of = q /\ f.drop = D /\ f.put = P
        BY <1>2, <3>2, <4>1, <4>2 DEF Event
      <4> QED BY <1>7, <4>1, <4>3 DEF Waits
    <3>3. \A f \in news : f.of = q => ~Waits(k, f)
      BY <1>2, <1>7, <3>2
    <3> QED BY <1>7, <2>1, <3>1, <3>3 DEF ToldInv
  <2> QED BY <2>2, <2>3
<1> QED BY <1>1, <1>5, <1>6, <1>7 DEF ToldInv

LEMMA LossTells ==
    ASSUME TypeOK, ToldInv, NEW e \in news, LoseNews(e)
    PROVE  ToldInv'
<1>1. e.of \in Personas
  BY DEF TypeOK, Events
<1> QED BY <1>1 DEF LoseNews, database, ToldInv, Current, Due

-----------------------------------------------------------------------------
(***************************************************************************)
(* The inductive invariant and the theorems                                *)
(***************************************************************************)
IInv == TypeOK /\ ToldInv /\ CacheInv /\ AnswerRight

LEMMA InvInit == Init => IInv
<1> SUFFICES ASSUME Init PROVE IInv
  OBVIOUS
<1>1. CacheInv
  BY BoundAssumption DEF Init, CacheInv, KeptOK, Nothing, Answers, Listings
<1>2. AnswerRight
  BY DEF Init, AnswerRight, AnswerSound, FreshAnswerComplete, AnswerComplete
<1> QED BY <1>1, <1>2, TypeInit, ToldInit DEF IInv

LEMMA InvStep == IInv /\ [Next]_vars => IInv'
<1> SUFFICES ASSUME IInv, [Next]_vars PROVE IInv'
  OBVIOUS
<1> USE DEF IInv
<1>1. CASE \E by \in Accounts, p \in Personas, L \in SUBSET Llms, on \in BOOLEAN :
              \/ AddPersona(by, p, L, on) \/ SetPersona(by, p, L)
              \/ DeletePersona(by, p) \/ TogglePersona(by, p)
  <2> PICK by \in Accounts, p \in Personas, L \in SUBSET Llms, on \in BOOLEAN :
              \/ AddPersona(by, p, L, on) \/ SetPersona(by, p, L)
              \/ DeletePersona(by, p) \/ TogglePersona(by, p)
    BY <1>1
  <2>1. CacheInv' /\ AnswerRight'
    BY SilentRight DEF AddPersona, SetPersona, DeletePersona, TogglePersona, CacheInv
  <2> QED BY <2>1, EditTypes, EditTells
<1>2. CASE \E e \in news : \/ \E l \in Llms : TellDeleted(e, l) \/ TellUpdated(e, l)
                          \/ LoseNews(e)
  <2> PICK e, l : /\ e \in news
                  /\ \/ l \in Llms /\ (TellDeleted(e, l) \/ TellUpdated(e, l))
                     \/ LoseNews(e)
    BY <1>2
  <2>1. CacheInv' /\ AnswerRight'
    BY SilentRight DEF TellDeleted, TellUpdated, LoseNews, CacheInv
  <2> QED BY <2>1, TellTypes, TellTells, LossTells
<1>3. CASE \E r \in Requests : \/ AnswerFresh(r) \/ AnswerKept(r)
                              \/ FetchUnavailable(r) \/ FetchRefused(r)
  <2>1. UNCHANGED <<stored, supports, news, known, spoiled>>
    BY <1>3 DEF AnswerFresh, AnswerKept, FetchUnavailable, FetchRefused, Answered, database
  <2> QED BY <1>3, <2>1, AskKeeps, ToldStutter
<1>4. CASE \E k \in Keys : CacheExpires(k)
  <2>1. UNCHANGED <<stored, supports, news, known, spoiled>>
    BY <1>4 DEF CacheExpires, database
  <2> QED BY <1>4, <2>1, ExpiryKeeps, ToldStutter
<1>5. CASE UNCHANGED vars
  <2> USE <1>5 DEF vars, database, counters
  <2>1. TypeOK'
    BY DEF TypeOK
  <2>2. ToldInv'
    BY ToldStutter
  <2>3. CacheInv' /\ AnswerRight'
    BY DEF CacheInv, AnswerRight, AnswerSound, FreshAnswerComplete, AnswerComplete
  <2> QED BY <2>1, <2>2, <2>3
<1>6. {} \in SUBSET Llms /\ TRUE \in BOOLEAN
  OBVIOUS
<1> QED BY <1>1, <1>2, <1>3, <1>4, <1>5, <1>6 DEF Next

LEMMA Inductive == Spec => []IInv
  BY InvInit, InvStep, PTL DEF Spec

\* Every variable keeps its type; no persona is enabled that is not stored.
THEOREM TypeCorrect == Spec => []TypeOK
<1>1. IInv => TypeOK
  BY DEF IInv
<1> QED BY <1>1, Inductive, PTL

\* For any personas, models and interleaving of edits and messages: once its
\* events are worked off, each model knows what the table holds of a persona
\* of which no event failed or met another one.
THEOREM ModelsFollow == Spec => []ToldLast
<1>1. IInv => ToldLast
  BY ToldMeans DEF IInv
<1> QED BY <1>1, Inductive, PTL

\* However often and for whomever the kept answer is narrowed: an answer holds
\* personas of the user asked for that support the asker, and the first after
\* a fetch all of them.
THEOREM AnswersRight == Spec => []AnswerRight
<1>1. IInv => AnswerRight
  BY DEF IInv
<1> QED BY <1>1, Inductive, PTL
=============================================================================
