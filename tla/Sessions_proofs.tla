------------------------ MODULE Sessions_proofs ----------------------------
(***************************************************************************)
(* Proofs about sessions.  ObserverSession, for any threads, roles,        *)
(* lifetime and bounds: a connected observer talks under the token it      *)
(* keeps, and a refused event is attended.  Both are about what happens    *)
(* between the storing of a new token and the disconnect that follows it.  *)
(*                                                                         *)
(* Accounts, for any tabs, nicknames, lifetimes and bounds: sessions do    *)
(* not outlive the password by more than their lifetime, pages act as the  *)
(* account they show, names stay unique, and the browser does not change   *)
(* its account by itself.                                                  *)
(***************************************************************************)
EXTENDS ObserverSession, Accounts, FiniteSetTheorems, TLAPS

State == [at : {"idle", "post", "store", "drop"}, got : Times \cup {None}]

-----------------------------------------------------------------------------
(***************************************************************************)
(* The types of every variable, and that notices and refusals belong to a  *)
(* link that is up.                                                        *)
(***************************************************************************)
THEOREM TypeCorrect == Spec => []TypeOK
<1> USE BoundAssumption
<1>1. Init => TypeOK
  <2> SUFFICES ASSUME Init PROVE TypeOK
    OBVIOUS
  <2>1. login \in [Threads -> State]
    BY DEF Init, Idle, State
  <2>2. notices \in 0..MaxNotices /\ now \in Times /\ faults \in 0..MaxFaults /\ ~(notices > 0)
    BY SMT DEF Init, Times
  <2>3. token \in Times \cup {None} /\ header \in Times \cup {None}
    BY DEF Init
  <2>4. /\ redial \in BOOLEAN /\ waiting \in BOOLEAN /\ refused \in BOOLEAN /\ ~refused
        /\ crossed \in BOOLEAN /\ failed \in BOOLEAN /\ beat \in BOOLEAN
    BY DEF Init
  <2>5. link \in {"down", "dialing", "up"} /\ last \in {"none", "handled", "refused"}
    BY DEF Init
  <2> QED BY <2>1, <2>2, <2>3, <2>4, <2>5 DEF State, TypeOK
<1>2. TypeOK /\ [Next]_vars => TypeOK'
  <2> SUFFICES ASSUME TypeOK, [Next]_vars PROVE TypeOK'
    OBVIOUS
  <2>0. ASSUME Guard(1)
        PROVE  /\ last' \in {"none", "handled", "refused"} /\ refused' \in BOOLEAN
               /\ notices' \in 0..MaxNotices
    <3>1. CASE Refused(header)
      BY <2>0, <3>1 DEF Guard, TypeOK
    <3>2. CASE ~Refused(header)
      BY <2>0, <3>2 DEF Guard, TypeOK
    <3> QED BY <3>1, <3>2
  <2>1. ASSUME Emit PROVE TypeOK'
    <3>1. CASE EmitDown
      BY <2>1, <3>1 DEF Emit, EmitDown, EmitUp, Dial, TypeOK
    <3>2. CASE EmitUp
      BY <2>0, <2>1, <3>2 DEF Emit, EmitDown, EmitUp, TypeOK
    <3> QED BY <2>1, <3>1, <3>2 DEF Emit
  <2>2. ASSUME Redial PROVE TypeOK'
    BY <2>2 DEF Redial, Dial, TypeOK
  <2>3. ASSUME DialOk PROVE TypeOK'
    <3>1. CASE waiting
      BY <2>0, <2>3, <3>1 DEF DialOk, TypeOK
    <3>2. CASE ~waiting
      BY <2>3, <3>2 DEF DialOk, TypeOK
    <3> QED BY <3>1, <3>2
  <2>4. ASSUME DialFail \/ Drop PROVE TypeOK'
    <3>1. faults' \in 0..MaxFaults
      BY <2>4 DEF DialFail, Drop, Fault, TypeOK
    <3>2. notices' \in 0..MaxNotices /\ (notices' > 0 => link' = "up")
      BY <2>4 DEF DialFail, Drop, Cut, TypeOK
    <3>3. CASE DialFail
      BY <3>1, <3>2, <3>3 DEF DialFail, TypeOK
    <3>4. CASE Drop
      BY <3>1, <3>2, <3>4 DEF Drop, Cut, TypeOK
    <3> QED BY <2>4, <3>3, <3>4
  <2>5. ASSUME Tick PROVE TypeOK'
    <3>1. now' \in Times
      BY <2>5 DEF Tick, Times, TypeOK
    <3> QED BY <2>5, <3>1 DEF Tick, TypeOK
  <2>6. ASSUME NEW t \in Threads, Notice(t) \/ Fetch(t) PROVE TypeOK'
    <3>1. login' \in [Threads -> State]
      BY <2>6 DEF Notice, Fetch, Goto, State, TypeOK
    <3>2. notices' \in 0..MaxNotices /\ (notices' > 0 => link = "up")
      BY <2>6 DEF Notice, Fetch, TypeOK
    <3> QED BY <2>6, <3>1, <3>2 DEF Notice, Fetch, State, TypeOK
  <2>7. ASSUME NEW t \in Threads, LoginOk(t) \/ LoginFail(t) PROVE TypeOK'
    <3>1. login' \in [Threads -> State]
      BY <2>7 DEF LoginOk, LoginFail, Idle, State, TypeOK
    <3>2. faults' \in 0..MaxFaults
      BY <2>7 DEF LoginOk, LoginFail, Fault, TypeOK
    <3>3. CASE LoginOk(t)
      BY <3>1, <3>3 DEF LoginOk, State, TypeOK
    <3>4. CASE LoginFail(t)
      BY <3>1, <3>2, <3>4 DEF LoginFail, State, TypeOK
    <3> QED BY <2>7, <3>3, <3>4
  <2>8. ASSUME NEW t \in Threads, Store(t) PROVE TypeOK'
    <3>1. login' \in [Threads -> State] /\ login[t].got \in Times \cup {None}
      BY <2>8 DEF Store, Goto, State, TypeOK
    <3> QED BY <2>8, <3>1 DEF Store, State, TypeOK
  <2>9. ASSUME NEW t \in Threads, Disconnect(t) PROVE TypeOK'
    <3>1. login' \in [Threads -> State]
      BY <2>9 DEF Disconnect, Idle, State, TypeOK
    <3>2. notices' \in 0..MaxNotices /\ (notices' > 0 => link' = "up")
      BY <2>9 DEF Disconnect, Cut, TypeOK
    <3>3. link' \in {"down", "dialing", "up"} /\ (refused' => link' = "up")
      BY <2>9 DEF Disconnect, Cut, TypeOK
    <3>4. crossed' \in BOOLEAN /\ refused' \in BOOLEAN
      BY <2>9 DEF Disconnect, Cut, TypeOK
    <3>5. UNCHANGED <<token, header, redial, waiting, last, failed, beat, now, faults>>
      BY <2>9 DEF Disconnect
    <3> QED BY <3>1, <3>2, <3>3, <3>4, <3>5 DEF State, TypeOK
  <2>10. CASE UNCHANGED vars
    BY <2>10 DEF vars, TypeOK
  <2> QED
    BY <2>1, <2>2, <2>3, <2>4, <2>5, <2>6, <2>7, <2>8, <2>9, <2>10 DEF Next, Handler
<1> QED
  BY <1>1, <1>2, PTL DEF Spec

-----------------------------------------------------------------------------
(***************************************************************************)
(* The headers of a link, up or being dialed, are those of the kept token  *)
(* unless a thread is about to disconnect, or a dial that was under way or *)
(* the library kept old ones.                                              *)
(***************************************************************************)
HeaderInv ==
    (link # "down" /\ \A t \in Threads : login[t].at # "drop")
        => header = token \/ crossed

\* FreshHeader: a connected observer that is not logging in talks under the
\* token that it keeps.
THEOREM HeaderIsFresh == Spec => []FreshHeader
<1>1. Init => HeaderInv
  BY DEF Init, HeaderInv
<1>2. TypeOK /\ HeaderInv /\ [Next]_vars => HeaderInv'
  <2> SUFFICES ASSUME TypeOK, HeaderInv, [Next]_vars PROVE HeaderInv'
    OBVIOUS
  <2>1. CASE Emit
    BY <2>1 DEF Emit, EmitDown, EmitUp, Dial, HeaderInv
  <2>2. CASE Redial
    BY <2>2 DEF Redial, Dial, HeaderInv
  <2>3. CASE DialOk
    BY <2>3 DEF DialOk, HeaderInv
  <2>4. CASE DialFail \/ Drop
    BY <2>4 DEF DialFail, Drop, HeaderInv
  <2>5. CASE Tick \/ UNCHANGED vars
    BY <2>5 DEF Tick, vars, HeaderInv
  <2>6. ASSUME NEW t \in Threads, Notice(t) \/ Fetch(t) \/ LoginOk(t) \/ LoginFail(t)
        PROVE  HeaderInv'
    <3>1. login[t].at # "drop" /\ UNCHANGED <<token, header, link, crossed>>
      BY <2>6 DEF Notice, Fetch, LoginOk, LoginFail, Idle
    <3>2. \A u \in Threads \ {t} : login'[u] = login[u]
      BY <2>6 DEF Notice, Fetch, LoginOk, LoginFail, Goto, TypeOK
    <3> QED BY <3>1, <3>2 DEF HeaderInv
  <2>7. ASSUME NEW t \in Threads, Store(t) PROVE HeaderInv'
    <3>1. login'[t].at = "drop"
      BY <2>7 DEF Store, Goto, TypeOK
    <3> QED BY <3>1 DEF HeaderInv
  <2>8. ASSUME NEW t \in Threads, Disconnect(t) PROVE HeaderInv'
    <3>1. CASE link = "up"
      BY <2>8, <3>1 DEF Disconnect, HeaderInv
    <3>2. CASE link # "up"
      BY <2>8, <3>2 DEF Disconnect, HeaderInv, TypeOK
    <3> QED BY <3>1, <3>2
  <2> QED
    BY <2>1, <2>2, <2>3, <2>4, <2>5, <2>6, <2>7, <2>8 DEF Next, Handler
<1>3. HeaderInv => FreshHeader
  BY DEF HeaderInv, FreshHeader, LoggingIn, Idle
<1> QED
  BY <1>1, <1>2, <1>3, TypeCorrect, PTL DEF Spec

-----------------------------------------------------------------------------
(***************************************************************************)
(* RefusalAttended: a connection on which an event was refused has a       *)
(* notice under way or a thread that logs in, unless a login failed.       *)
(***************************************************************************)
THEOREM RefusalIsAttended == Spec => []RefusalAttended
<1>1. Init => RefusalAttended
  BY DEF Init, RefusalAttended
<1>2. TypeOK /\ RefusalAttended /\ [Next]_vars => RefusalAttended'
  <2> SUFFICES ASSUME TypeOK, RefusalAttended, [Next]_vars PROVE RefusalAttended'
    OBVIOUS
  <2> USE DEF RefusalAttended, LoggingIn
  <2>1. ASSUME Guard(1) PROVE refused' => notices' > 0 \/ (refused /\ notices' = notices)
    BY <2>1, BoundAssumption DEF Guard, TypeOK
  <2>2. CASE Emit
    <3>1. CASE EmitUp
      BY <2>1, <2>2, <3>1 DEF Emit, EmitUp
    <3>2. CASE EmitDown
      BY <2>2, <3>2 DEF Emit, EmitDown
    <3> QED BY <2>2, <3>1, <3>2 DEF Emit
  <2>3. CASE DialOk
    <3>1. CASE waiting
      BY <2>1, <2>3, <3>1 DEF DialOk
    <3>2. CASE ~waiting
      BY <2>3, <3>2 DEF DialOk
    <3> QED BY <3>1, <3>2
  <2>4. CASE Redial \/ DialFail \/ Drop \/ Tick \/ UNCHANGED vars
    BY <2>4 DEF Redial, Dial, DialFail, Drop, Cut, Tick, vars
  <2>5. ASSUME NEW t \in Threads, Notice(t) \/ Fetch(t) \/ LoginOk(t) \/ Store(t)
        PROVE  RefusalAttended'
    <3>1. login'[t].at # "idle"
      BY <2>5 DEF Notice, Fetch, LoginOk, Store, Goto, TypeOK
    <3> QED BY <3>1 DEF Idle
  <2>6. ASSUME NEW t \in Threads, LoginFail(t) PROVE RefusalAttended'
    BY <2>6 DEF LoginFail
  <2>7. ASSUME NEW t \in Threads, Disconnect(t) PROVE RefusalAttended'
    <3>1. ~refused'
      BY <2>7 DEF Disconnect, Cut, TypeOK
    <3> QED BY <3>1
  <2> QED
    BY <2>2, <2>3, <2>4, <2>5, <2>6, <2>7 DEF Next, Handler
<1> QED
  BY <1>1, <1>2, TypeCorrect, PTL DEF Spec

-----------------------------------------------------------------------------
(***************************************************************************)
(* Accounts and sessions, for any tabs, nicknames and bounds.  The steps   *)
(* come in four kinds: a page asks for something, the server answers and   *)
(* the page stores what came, the server refuses, and a call leaves the    *)
(* token of the browser as it is.                                          *)
(***************************************************************************)
Answer(r) ==
    \/ ShowUser(r) \/ ShowGuest(r) \/ ShowNobody(r) \/ Signup(r) \/ Logout(r)
    \/ \E u \in 1..Len(users) : Login(r, u)
Refusal == \E r \in requests : LoginRefused(r) \/ SignupRefused(r)
Demand(t) ==
    \/ Load(t) \/ OpenSettings(t) \/ SubmitLogout(t)
    \/ \E u \in Ids : SubmitLogin(t, u)
    \/ \E n \in Nicks : SubmitSignup(t, n)
QuietCall ==
    \/ \E t \in Tabs : Call(t) \/ \E n \in Nicks : UpdateProfile(t, n)
    \/ \E n \in BotNicks : GetBotData(n)
    \/ GetNeonData

LEMMA AccountsSteps ==
    ASSUME [AccountsNext]_accountsVars
    PROVE  \/ \E r \in requests : Answer(r)
           \/ Refusal \/ PassTime \/ UNCHANGED accountsVars
           \/ \E t \in Tabs : Demand(t)
           \/ QuietCall
BY DEF AccountsNext, Answer, Refusal, Demand, QuietCall

User == [nick : Nicks \cup {Fresh}, tmp : BOOLEAN, bot : BOOLEAN]
PageOf(n) == [state : {"closed", "loading", "open", "leaving"},
              shown : 0..n, stale : BOOLEAN]
AnyToken == Tokens \cup {Undefined}

\* What a page asks for, and as whom.
RequestsTyped ==
    \A r \in requests :
        /\ r \in [tab : Tabs, kind : {"me", "login", "signup", "logout"},
                  sent : AnyToken, as : Nicks \cup {Fresh, 0}]
        /\ r.kind \in {"login", "signup"} => r.as \in Nicks \cup {Fresh}

AccountsTyped == AccountsTypeOK /\ RequestsTyped

\* What the three ways to change the accounts leave: Append, and an EXCEPT of
\* a nickname or of the mark of a bot.
LEMMA AddedIsTyped ==
    ASSUME users \in Seq(User), NEW user \in User, Add(user)
    PROVE  /\ users' \in Seq(User) /\ Len(users') = Len(users) + 1
           /\ Len(users') \in 1..MaxUsers
           /\ users'[Len(users')] = user
           /\ \A u \in 1..Len(users) : users'[u] = users[u]
BY UsersAssumption DEF Add

LEMMA RenamedIsTyped ==
    ASSUME users \in Seq(User), NEW u \in 1..Len(users), NEW n \in Nicks,
           users' = [users EXCEPT ![u].nick = n]
    PROVE  /\ users' \in Seq(User) /\ Len(users') = Len(users)
           /\ \A v \in 1..Len(users) : /\ users'[v].tmp = users[v].tmp
                                       /\ users'[v].bot = users[v].bot
                                       /\ users'[v].nick = IF v = u THEN n ELSE users[v].nick
<1>1. \A v \in 1..Len(users) : users[v] \in User
  OBVIOUS
<1>2. [users[u] EXCEPT !.nick = n] \in User
  BY <1>1 DEF User
<1> QED BY <1>1, <1>2 DEF User

LEMMA MarkedIsTyped ==
    ASSUME users \in Seq(User), NEW u, users' = [users EXCEPT ![u].bot = TRUE]
    PROVE  /\ users' \in Seq(User) /\ Len(users') = Len(users)
           /\ \A v \in 1..Len(users) : /\ users'[v].tmp = users[v].tmp
                                       /\ users'[v].nick = users[v].nick
<1>1. CASE u \in 1..Len(users)
  <2>1. \A v \in 1..Len(users) : users[v] \in User
    OBVIOUS
  <2>2. [users[u] EXCEPT !.bot = TRUE] \in User
    BY <1>1, <2>1 DEF User
  <2> QED BY <1>1, <2>1, <2>2 DEF User
<1>2. CASE u \notin 1..Len(users)
  <2>1. users' = users
    BY <1>2
  <2> QED BY <2>1
<1> QED BY <1>1, <1>2

LEMMA GuestsAreUsers ==
    /\ Guest \in User /\ Guest.tmp = TRUE /\ Guest.nick = Fresh
    /\ Neon \in User /\ Neon.tmp = TRUE /\ Neon.nick = NeonNick
    /\ \A n \in Nicks \cup {Fresh} : Person(n) \in User /\ Bot(n) \in User
    /\ \A n \in Nicks : /\ [Guest EXCEPT !.nick = n] \in User
                        /\ [Guest EXCEPT !.nick = n].tmp = TRUE
                        /\ [Guest EXCEPT !.nick = n].nick = n
BY NickAssumption DEF Guest, Neon, Person, Bot, User

LEMMA TokensAreTyped ==
    ASSUME clock \in 0..MaxClock
    PROVE  /\ \A id \in 0..MaxUsers : /\ NewToken(id) \in Tokens
                                      /\ NewToken(id).sub = id
                                      /\ NewToken(id).created = clock
           /\ Undefined.sub = 0 /\ Undefined # Empty
           /\ \A held \in AnyToken :
                 /\ held.sub \in 0..MaxUsers
                 /\ held.sub # 0 => held \in Tokens /\ held.created \in 0..MaxClock
           /\ \A held \in Tokens : /\ Refreshed(held) \in Tokens
                                    /\ Refreshed(held).sub = held.sub
                                    /\ Refreshed(held).created = held.created
BY UsersAssumption, TimeAssumption DEF NewToken, Undefined, Empty, AnyToken, Tokens, Refreshed

\* What a step may do to the accounts: they are never removed, and a guest
\* remains one.
Grown ==
    /\ users' \in Seq(User) /\ Len(users) <= Len(users') /\ Len(users') <= MaxUsers
    /\ \A u \in 1..Len(users) : users'[u].tmp = users[u].tmp

LEMMA AddingGrows ==
    ASSUME AccountsTypeOK, NEW user \in User, Add(user)
    PROVE  /\ Grown
           /\ Len(users') = Len(users) + 1 /\ Len(users') \in 1..MaxUsers
           /\ users'[Len(users')] = user
           /\ \A u \in 1..Len(users) : users'[u] = users[u]
<1>1. users \in Seq(User)
  BY DEF AccountsTypeOK, User
<1> QED BY <1>1, AddedIsTyped, UsersAssumption DEF Grown

LEMMA SameAccounts ==
    ASSUME AccountsTypeOK, users' = users PROVE Grown
BY DEF AccountsTypeOK, Grown, User

\* An answer that stores a token, and the account that the page then shows.
Stores(t, held, shown) ==
    /\ SetSessionToken(t, held, shown)
    /\ held \in AnyToken /\ held # Empty
    /\ held.sub \in 0..Len(users') /\ shown \in 0..Len(users')

\* The accounts and tokens that an answer leaves behind.
AnswerStores(r) ==
    \E held, shown :
        /\ Stores(r.tab, held, shown)
        /\ IF r.kind = "me" THEN shown = held.sub ELSE shown = page[r.tab].shown
        /\ Grown /\ given' \in [Ids -> 0..MaxClock]
        /\ \A u \in Ids : given'[u] = given[u] \/ given'[u] = clock
        /\ held.sub # 0 =>
              \/ users'[held.sub].tmp
              \/ given'[held.sub] = clock /\ held.created = clock
              \/ held.sub = r.sent.sub /\ held.created = r.sent.created

LEMMA AnswersStore ==
    ASSUME AccountsTyped, NEW r \in requests, Answer(r)
    PROVE  AnswerStores(r)
<1> USE DEF AccountsTyped
<1>0. /\ clock \in 0..MaxClock /\ given \in [Ids -> 0..MaxClock]
      /\ r.sent \in AnyToken /\ r.sent.sub <= Len(users) /\ r.sent.sub \in 0..MaxUsers
      /\ Len(users) \in Nat /\ Len(users) <= MaxUsers /\ MaxUsers \in Nat
      /\ r.tab \in Tabs /\ page[r.tab].shown \in 0..Len(users)
  <2>1. r.sent \in AnyToken /\ r.tab \in Tabs /\ r.sent.sub <= Len(users)
    BY DEF AccountsTypeOK, RequestsTyped
  <2>2. page[r.tab].shown \in 0..Len(users) /\ clock \in 0..MaxClock
    BY <2>1 DEF AccountsTypeOK
  <2> QED BY <2>1, <2>2, TokensAreTyped, UsersAssumption DEF AccountsTypeOK
<1>1. CASE ShowUser(r)
  <2>1. r.sent.sub # 0 /\ r.sent \in Tokens
    BY <1>0, <1>1, TokensAreTyped DEF ShowUser, Served, Live
  <2>2. /\ Refreshed(r.sent) \in AnyToken /\ Refreshed(r.sent).sub = r.sent.sub
        /\ Refreshed(r.sent).created = r.sent.created /\ Refreshed(r.sent) # Empty
    BY <1>0, <2>1, TokensAreTyped DEF AnyToken, Empty
  <2>3. Grown /\ users' = users /\ given' = given
    BY <1>1, SameAccounts DEF ShowUser
  <2>4. Stores(r.tab, Refreshed(r.sent), r.sent.sub)
    BY <1>0, <1>1, <2>2, <2>3 DEF ShowUser, Stores
  <2> QED BY <1>0, <1>1, <2>2, <2>3, <2>4 DEF AnswerStores, ShowUser, Answered
<1>2. CASE ShowNobody(r)
  <2>1. Undefined \in AnyToken /\ Undefined.sub = 0 /\ Undefined # Empty
    BY <1>0, TokensAreTyped DEF AnyToken
  <2>2. Grown /\ users' = users /\ given' = given
    BY <1>2, SameAccounts DEF ShowNobody
  <2>3. Stores(r.tab, Undefined, 0)
    BY <1>0, <1>2, <2>1, <2>2 DEF ShowNobody, Stores
  <2> QED BY <1>0, <1>2, <2>1, <2>2, <2>3 DEF AnswerStores, ShowNobody, Answered
<1>3. CASE ShowGuest(r) \/ Logout(r)
  <2>1. /\ Grown /\ Len(users') = Len(users) + 1 /\ Len(users') \in 1..MaxUsers
        /\ users'[Len(users')].tmp = TRUE /\ given' = given
    BY <1>3, GuestsAreUsers, AddingGrows DEF ShowGuest, Logout
  <2>2. PICK n \in 1..MaxUsers : n = Len(users')
    BY <2>1
  <2>3. NewToken(n) \in AnyToken /\ NewToken(n).sub = n /\ NewToken(n) # Empty
    BY <1>0, <2>2, TokensAreTyped DEF AnyToken, Empty
  <2>4. CASE ShowGuest(r)
    <3>1. Stores(r.tab, NewToken(n), n) /\ r.kind = "me"
      BY <2>2, <2>3, <2>4 DEF ShowGuest, Answered, Stores
    <3> QED BY <1>0, <2>1, <2>2, <2>3, <3>1 DEF AnswerStores
  <2>5. CASE Logout(r)
    <3>1. Stores(r.tab, NewToken(n), page[r.tab].shown) /\ r.kind # "me"
      BY <1>0, <2>1, <2>2, <2>3, <2>5 DEF Logout, Answered, Stores
    <3> QED BY <1>0, <2>1, <2>2, <2>3, <3>1 DEF AnswerStores
  <2> QED BY <1>3, <2>4, <2>5
<1>4. CASE Signup(r)
  <2>1. Person(r.as) \in User
    BY <1>4, GuestsAreUsers DEF RequestsTyped, Signup, Answered
  <2>2. /\ Grown /\ Len(users') = Len(users) + 1 /\ Len(users') \in 1..MaxUsers
    BY <1>4, <2>1, AddingGrows DEF Signup
  <2>3. PICK n \in 1..MaxUsers : n = Len(users')
    BY <2>2
  <2>4. /\ NewToken(n) \in AnyToken /\ NewToken(n).sub = n /\ NewToken(n) # Empty
        /\ NewToken(n).created = clock
    BY <1>0, <2>3, TokensAreTyped DEF AnyToken, Empty
  <2>5. Stores(r.tab, NewToken(n), page[r.tab].shown) /\ r.kind # "me"
    BY <1>0, <1>4, <2>2, <2>3, <2>4 DEF Signup, Answered, Stores
  <2>6. given' = [given EXCEPT ![n] = clock] /\ n \in Ids
    BY <1>4, <2>3 DEF Signup, Ids
  <2> QED BY <1>0, <2>2, <2>3, <2>4, <2>5, <2>6 DEF AnswerStores
<1>5. ASSUME NEW u \in 1..Len(users), Login(r, u) PROVE AnswerStores(r)
  <2>1. Grown /\ users' = users
    BY <1>5, SameAccounts DEF Login
  <2>2. u \in Ids /\ u # 0 /\ u \in 0..MaxUsers
    BY <1>0 DEF Ids
  <2>3. /\ NewToken(u) \in AnyToken /\ NewToken(u).sub = u /\ NewToken(u) # Empty
        /\ NewToken(u).created = clock
    BY <1>0, <2>2, TokensAreTyped DEF AnyToken, Empty
  <2>4. Stores(r.tab, NewToken(u), page[r.tab].shown) /\ r.kind # "me"
    BY <1>0, <1>5, <2>1, <2>3 DEF Login, Answered, Stores
  <2>5. given' = [given EXCEPT ![u] = clock]
    BY <1>5 DEF Login
  <2> QED BY <1>0, <2>1, <2>2, <2>3, <2>4, <2>5 DEF AnswerStores
<1> QED BY <1>1, <1>2, <1>3, <1>4, <1>5 DEF Answer

\* The pages stay pages when accounts are added.
LEMMA PagesStayTyped ==
    ASSUME AccountsTyped, Grown
    PROVE  /\ page \in [Tabs -> PageOf(Len(users'))]
           /\ stored.sub <= Len(users')
           /\ \A r \in requests : r.sent.sub <= Len(users')
           /\ acted \subseteq 1..Len(users')
<1>1. Len(users) \in Nat /\ Len(users') \in Nat /\ Len(users) <= Len(users')
  BY DEF AccountsTyped, AccountsTypeOK, Grown, User
<1>2. PageOf(Len(users)) \subseteq PageOf(Len(users'))
  BY <1>1 DEF PageOf
<1>3. page \in [Tabs -> PageOf(Len(users))]
  BY DEF AccountsTyped, AccountsTypeOK, PageOf
<1>4. \A r \in requests : r.sent.sub \in Nat
  BY TokensAreTyped, UsersAssumption DEF AccountsTypeOK, RequestsTyped, AccountsTyped
<1>5. stored.sub \in Nat
  BY TokensAreTyped, UsersAssumption DEF AccountsTyped, AccountsTypeOK, AnyToken
<1> QED BY <1>1, <1>2, <1>3, <1>4, <1>5 DEF AccountsTyped, AccountsTypeOK

\* What a stored token makes of the pages.
LEMMA StoredPages ==
    ASSUME AccountsTyped, Grown, NEW t \in Tabs, NEW held, NEW shown,
           Stores(t, held, shown)
    PROVE  /\ stored' = held /\ held \in AnyToken /\ held # Empty
           /\ held.sub <= Len(users')
           /\ page' \in [Tabs -> PageOf(Len(users'))]
           /\ page'[t].state \in {"leaving", "open"} /\ page'[t].shown = shown
           /\ page'[t].stale = (page[t].stale /\ shown # held.sub)
           /\ page'[t].state = "open" =>
                 page[t].state # "leaving" /\ (stored = Empty \/ held = stored)
           /\ \A s \in Tabs \ {t} : /\ page'[s].state = page[s].state
                                    /\ page'[s].shown = page[s].shown
                                    /\ page'[s].stale = (page[s].stale \/ held.sub # stored.sub)
<1>1. page \in [Tabs -> PageOf(Len(users'))]
  BY PagesStayTyped
<1>2. held.sub \in Nat /\ shown \in 0..Len(users') /\ held.sub <= Len(users')
  BY DEF Stores
<1>3. stored' = held /\ held \in AnyToken /\ held # Empty
  BY DEF Stores, SetSessionToken
<1>4. ASSUME NEW s \in Tabs \ {t}
      PROVE  /\ page'[s] \in PageOf(Len(users'))
             /\ page'[s].state = page[s].state /\ page'[s].shown = page[s].shown
             /\ page'[s].stale = (page[s].stale \/ held.sub # stored.sub)
  <2>1. page'[s] = [page[s] EXCEPT !.stale = @ \/ held.sub # stored.sub]
    BY DEF Stores, SetSessionToken
  <2>2. page[s] \in PageOf(Len(users'))
    BY <1>1
  <2> QED BY <2>1, <2>2 DEF PageOf
<1>5. /\ page'[t] \in PageOf(Len(users'))
      /\ page'[t].state \in {"leaving", "open"} /\ page'[t].shown = shown
      /\ page'[t].stale = (page[t].stale /\ shown # held.sub)
      /\ page'[t].state = "open" =>
            page[t].state # "leaving" /\ (stored = Empty \/ held = stored)
  <2> DEFINE leaves == page[t].state = "leaving" \/ (stored # Empty /\ held # stored)
  <2>1. page'[t] = [state |-> IF leaves THEN "leaving" ELSE "open", shown |-> shown,
                    stale |-> page[t].stale /\ shown # held.sub]
    BY DEF Stores, SetSessionToken
  <2> QED BY <2>1, <1>2 DEF PageOf
<1>6. page' = [s \in Tabs |-> page'[s]]
  BY DEF Stores, SetSessionToken
<1> QED BY <1>2, <1>3, <1>4, <1>5, <1>6

\* An answer leaves types as they are, if it leaves fewer requests.
LEMMA AnswersAreTyped ==
    ASSUME AccountsTyped, NEW r \in requests, Answer(r)
    PROVE  AccountsTyped'
<1>1. PICK held, shown :
        /\ Stores(r.tab, held, shown) /\ Grown /\ given' \in [Ids -> 0..MaxClock]
  BY AnswersStore DEF AnswerStores
<1>2. r.tab \in Tabs /\ r \in [tab : Tabs, kind : {"me", "login", "signup", "logout"},
                               sent : AnyToken, as : Nicks \cup {Fresh, 0}]
  BY DEF AccountsTyped, RequestsTyped
<1>3. /\ requests' \subseteq requests /\ clock' = clock /\ taken' = taken
      /\ failures' \in 0..MaxFailures
      /\ (acted' = {} \/ (ShowUser(r) /\ acted' = {r.sent.sub}))
  BY UsersAssumption DEF Answer, ShowUser, ShowGuest, ShowNobody, Signup, Logout, Login,
       Answered, AccountsTyped, AccountsTypeOK
<1>4. page' \in [Tabs -> PageOf(Len(users'))] /\ stored' = held
  BY <1>1, <1>2, StoredPages
<1>5. held \in AnyToken /\ held.sub <= Len(users')
  BY <1>1 DEF Stores, Grown, User
<1>6. acted' \subseteq 1..Len(users')
  <2>1. CASE ShowUser(r) /\ acted' = {r.sent.sub}
    <3>1. r.sent.sub # 0 /\ r.sent.sub \in 0..MaxUsers /\ r.sent.sub <= Len(users')
      BY <1>1, <1>2, <2>1, TokensAreTyped, PagesStayTyped
         DEF ShowUser, Served, Live, AccountsTyped, AccountsTypeOK
    <3> QED BY <2>1, <3>1, <1>1, UsersAssumption DEF Grown
  <2> QED BY <1>3, <2>1
<1>7. \A q \in requests' : /\ q.sent.sub <= Len(users') /\ page'[q.tab].state # "closed"
                           /\ q.tab \in Tabs /\ q.kind \in {"me", "login", "signup", "logout"}
  <2> SUFFICES ASSUME NEW q \in requests
               PROVE  /\ q.sent.sub <= Len(users') /\ page'[q.tab].state # "closed"
                      /\ q.tab \in Tabs /\ q.kind \in {"me", "login", "signup", "logout"}
    BY <1>3
  <2>1. /\ page[q.tab].state # "closed" /\ q.tab \in Tabs
        /\ q.kind \in {"me", "login", "signup", "logout"}
    BY DEF AccountsTyped, AccountsTypeOK
  <2>2. page'[q.tab].state # "closed"
    BY <1>1, <1>2, <2>1, StoredPages
  <2> QED BY <1>1, <2>1, <2>2, PagesStayTyped
<1>8. AccountsTypeOK'
  BY <1>1, <1>3, <1>4, <1>5, <1>6, <1>7
     DEF AccountsTypeOK, AccountsTyped, Grown, PageOf, AnyToken, User
<1>9. RequestsTyped'
  BY <1>3 DEF RequestsTyped, AccountsTyped
<1> QED BY <1>8, <1>9 DEF AccountsTyped

\* So do answers that refuse, and time.
LEMMA RefusalsAreTyped ==
    ASSUME AccountsTyped, Refusal \/ PassTime \/ UNCHANGED accountsVars
    PROVE  AccountsTyped'
<1>1. /\ requests' \subseteq requests /\ taken' = taken /\ page' = page /\ stored' = stored
      /\ users' = users /\ given' = given /\ failures' = failures
      /\ (acted' = {} \/ acted' = acted) /\ clock' \in 0..MaxClock
  BY TimeAssumption DEF Refusal, LoginRefused, SignupRefused, PassTime, Answered, accountsVars,
                        AccountsTyped, AccountsTypeOK
<1> QED BY <1>1 DEF AccountsTyped, AccountsTypeOK, RequestsTyped

\* A page that is loaded, the settings and the forms: one request more.
LEMMA DemandsAreTyped ==
    ASSUME AccountsTyped, NEW t \in Tabs, Demand(t)
    PROVE  AccountsTyped'
<1>1. /\ taken' = taken /\ stored' = stored /\ users' = users /\ given' = given
      /\ failures' = failures /\ acted' = {} /\ clock' = clock
  BY DEF Demand, Load, OpenSettings, SubmitLogout, SubmitLogin, SubmitSignup, Submit
<1>2. \E kind \in {"me", "login", "signup", "logout"}, as \in Nicks \cup {Fresh, 0} :
        /\ requests' \subseteq requests \cup {Request(t, kind, stored, as), Request(t, kind, Empty, as)}
        /\ kind \in {"login", "signup"} => as \in Nicks \cup {Fresh}
  <2>1. \A u \in Ids : u <= Len(users) => users[u].nick \in Nicks \cup {Fresh}
    <3>1. \A u \in 1..Len(users) : users[u] \in User
      <4>1. users \in Seq(User)
        BY DEF AccountsTyped, AccountsTypeOK, User
      <4> QED BY <4>1
    <3>2. \A u \in 1..Len(users) : users[u].nick \in Nicks \cup {Fresh}
      BY <3>1 DEF User
    <3> QED BY <3>2, UsersAssumption DEF Ids, AccountsTyped, AccountsTypeOK
  <2>2. CASE Load(t) \/ OpenSettings(t)
    BY <2>2 DEF Load, OpenSettings
  <2>3. CASE SubmitLogout(t)
    BY <2>3 DEF SubmitLogout, Submit
  <2>4. ASSUME NEW u \in Ids, SubmitLogin(t, u)
        PROVE  requests' = requests \cup {Request(t, "login", Empty, users[u].nick)}
               /\ users[u].nick \in Nicks \cup {Fresh}
    BY <2>1, <2>4 DEF SubmitLogin, Submit
  <2>5. ASSUME NEW n \in Nicks, SubmitSignup(t, n)
        PROVE  requests' = requests \cup {Request(t, "signup", Empty, n)}
    BY <2>5 DEF SubmitSignup, Submit
  <2> QED BY <2>2, <2>3, <2>4, <2>5 DEF Demand
<1>3. /\ page' \in [Tabs -> PageOf(Len(users))]
      /\ page'[t].state # "closed" /\ \A s \in Tabs \ {t} : page'[s] = page[s]
  <2>1. page \in [Tabs -> PageOf(Len(users))]
    BY DEF AccountsTyped, AccountsTypeOK, PageOf
  <2>2. CASE Load(t)
    <3>1. [state |-> "loading", shown |-> 0, stale |-> FALSE] \in PageOf(Len(users))
      BY DEF PageOf, AccountsTyped, AccountsTypeOK
    <3> QED BY <2>1, <2>2, <3>1 DEF Load
  <2>3. CASE page' = page /\ page[t].state = "open"
    BY <2>1, <2>3
  <2> QED BY <2>2, <2>3 DEF Demand, OpenSettings, SubmitLogout, SubmitLogin, SubmitSignup, Submit
<1>4. /\ Empty \in AnyToken /\ stored \in AnyToken
      /\ Empty.sub <= Len(users) /\ stored.sub <= Len(users)
  BY UsersAssumption, TimeAssumption DEF AccountsTyped, AccountsTypeOK, AnyToken, Empty, Tokens
<1>5. PICK kind \in {"me", "login", "signup", "logout"}, as \in Nicks \cup {Fresh, 0} :
        /\ requests' \subseteq requests \cup {Request(t, kind, stored, as), Request(t, kind, Empty, as)}
        /\ kind \in {"login", "signup"} => as \in Nicks \cup {Fresh}
  BY <1>2
<1>6. ASSUME NEW q \in requests'
      PROVE  /\ q.tab \in Tabs /\ page'[q.tab].state # "closed" /\ q.sent.sub <= Len(users)
             /\ q \in [tab : Tabs, kind : {"me", "login", "signup", "logout"},
                       sent : AnyToken, as : Nicks \cup {Fresh, 0}]
             /\ q.kind \in {"login", "signup"} => q.as \in Nicks \cup {Fresh}
  <2>1. CASE q \in requests
    BY <2>1, <1>3 DEF AccountsTyped, AccountsTypeOK, RequestsTyped
  <2>2. CASE q \in {Request(t, kind, stored, as), Request(t, kind, Empty, as)}
    <3>1. PICK held \in {stored, Empty} : q = Request(t, kind, held, as)
      BY <2>2
    <3>2. held \in AnyToken /\ held.sub <= Len(users)
      BY <1>4, <3>1
    <3>3. /\ q.tab = t /\ q.kind = kind /\ q.sent = held /\ q.as = as
          /\ q = [tab |-> t, kind |-> kind, sent |-> held, as |-> as]
      BY <3>1 DEF Request
    <3> QED BY <1>3, <1>5, <3>2, <3>3
  <2> QED BY <1>5, <2>1, <2>2
<1>7. AccountsTypeOK'
  <2>1. \A q \in requests' : q.kind \in {"me", "login", "signup", "logout"}
    BY <1>6
  <2> QED BY <1>1, <1>3, <1>6, <2>1 DEF AccountsTypeOK, AccountsTyped, PageOf
<1>8. RequestsTyped'
  BY <1>6 DEF RequestsTyped
<1> QED BY <1>7, <1>8 DEF AccountsTyped

\* And the calls that change accounts.
LEMMA CallsGrow ==
    ASSUME AccountsTyped, QuietCall
    PROVE  /\ Grown /\ Quiet
           /\ (acted' = {} \/ (Served(stored) /\ acted' = {stored.sub}))
           /\ taken \subseteq taken' /\ taken' \subseteq Nicks
           /\ page' \in [Tabs -> PageOf(Len(users'))]
           /\ \A t \in Tabs :
                 (page'[t] = page[t] \/ (page[t].state = "open" /\ page'[t].state = "leaving"))
<1>0. /\ users \in Seq(User) /\ Len(users) <= MaxUsers /\ stored.sub \in 0..Len(users)
      /\ stored.sub # 0 => stored.sub \in 1..Len(users)
      /\ page \in [Tabs -> PageOf(Len(users))] /\ taken \subseteq Nicks
  BY TokensAreTyped DEF AccountsTyped, AccountsTypeOK, User, PageOf, AnyToken
<1>1. ASSUME NEW t \in Tabs, Call(t) PROVE Grown /\ page' = page /\ taken' = taken
  BY <1>1, SameAccounts, AddingGrows, GuestsAreUsers DEF Call, AccountsTyped
<1>2. ASSUME NEW t \in Tabs, NEW n \in Nicks, UpdateProfile(t, n)
      PROVE  /\ Grown /\ taken' = taken \cup {n}
             /\ page' = [page EXCEPT ![t].state = "leaving"] /\ page[t].state = "open"
  <2>1. CASE Served(stored) /\ users' = [users EXCEPT ![stored.sub].nick = n]
    <3>1. stored.sub \in 1..Len(users)
      BY <1>0, <2>1 DEF Served, Live
    <3>2. PICK u \in 1..Len(users) : u = stored.sub
      BY <3>1
    <3>3. /\ users' \in Seq(User) /\ Len(users') = Len(users)
          /\ \A v \in 1..Len(users) : users'[v].tmp = users[v].tmp
      BY <1>0, <2>1, <3>2, RenamedIsTyped
    <3>4. Grown
      BY <1>0, <3>3 DEF Grown
    <3> QED BY <1>2, <3>4 DEF UpdateProfile
  <2>2. CASE Add([Guest EXCEPT !.nick = n])
    BY <1>2, <2>2, AddingGrows, GuestsAreUsers DEF UpdateProfile, AccountsTyped
  <2> QED BY <1>2, <2>1, <2>2 DEF UpdateProfile
<1>3. ASSUME NEW n \in BotNicks, GetBotData(n) PROVE Grown /\ page' = page /\ taken' = taken
  <2>1. CASE Add(Bot(n))
    BY <1>3, <2>1, AddingGrows, GuestsAreUsers, NickAssumption DEF GetBotData, AccountsTyped
  <2>2. CASE users' = [users EXCEPT ![First(n)].bot = TRUE]
    <3>1. /\ users' \in Seq(User) /\ Len(users') = Len(users)
          /\ \A v \in 1..Len(users) : users'[v].tmp = users[v].tmp
      BY <1>0, <2>2, MarkedIsTyped
    <3>2. Grown
      BY <1>0, <3>1 DEF Grown
    <3> QED BY <1>3, <3>2 DEF GetBotData
  <2> QED BY <1>3, <2>1, <2>2 DEF GetBotData
<1>4. ASSUME GetNeonData PROVE Grown /\ page' = page /\ taken' = taken
  BY <1>4, SameAccounts, AddingGrows, GuestsAreUsers DEF GetNeonData, AccountsTyped
<1>5. Grown
  BY <1>1, <1>2, <1>3, <1>4 DEF QuietCall
<1>6. /\ Quiet /\ (acted' = {} \/ (Served(stored) /\ acted' = {stored.sub}))
  BY DEF QuietCall, Call, UpdateProfile, GetBotData, GetNeonData
<1>7. page \in [Tabs -> PageOf(Len(users'))]
  BY <1>5, PagesStayTyped
<1>8. CASE page' = page /\ taken' = taken
  BY <1>0, <1>5, <1>6, <1>7, <1>8
<1>9. ASSUME NEW t \in Tabs, NEW n \in Nicks, UpdateProfile(t, n)
      PROVE  /\ taken \subseteq taken' /\ taken' \subseteq Nicks
             /\ page' \in [Tabs -> PageOf(Len(users'))]
             /\ page'[t].state = "leaving" /\ page[t].state = "open"
             /\ \A s \in Tabs \ {t} : page'[s] = page[s]
  <2>1. [page[t] EXCEPT !.state = "leaving"] \in PageOf(Len(users'))
    BY <1>7 DEF PageOf
  <2>2. page' = [page EXCEPT ![t] = [page[t] EXCEPT !.state = "leaving"]]
    BY <1>2, <1>9
  <2>3. /\ page' \in [Tabs -> PageOf(Len(users'))]
        /\ \A s \in Tabs \ {t} : page'[s] = page[s]
    BY <2>1, <2>2, <1>7
  <2>4. page'[t] = [page[t] EXCEPT !.state = "leaving"]
    BY <2>2, <1>7
  <2>5. page'[t].state = "leaving"
    BY <2>4, <1>7 DEF PageOf
  <2> QED BY <2>3, <2>5, <1>0, <1>2, <1>9
<1> QED BY <1>1, <1>3, <1>4, <1>5, <1>6, <1>8, <1>9 DEF QuietCall

LEMMA CallsAreTyped ==
    ASSUME AccountsTyped, QuietCall
    PROVE  AccountsTyped'
<1>1. /\ Grown /\ Quiet
      /\ (acted' = {} \/ (Served(stored) /\ acted' = {stored.sub}))
      /\ taken' \subseteq Nicks
      /\ page' \in [Tabs -> PageOf(Len(users'))]
      /\ \A t \in Tabs :
            (page'[t] = page[t] \/ (page[t].state = "open" /\ page'[t].state = "leaving"))
  BY CallsGrow
<1>2. acted' \subseteq 1..Len(users')
  <2>1. stored.sub # 0 => stored.sub \in 1..Len(users')
    BY <1>1, PagesStayTyped, TokensAreTyped, UsersAssumption
       DEF AccountsTyped, AccountsTypeOK, AnyToken, Grown
  <2> QED BY <1>1, <2>1 DEF Served, Live
<1>3. \A q \in requests : q.sent.sub <= Len(users') /\ page'[q.tab].state # "closed"
  BY <1>1, PagesStayTyped DEF AccountsTyped, AccountsTypeOK
<1>4. AccountsTypeOK'
  BY <1>1, <1>2, <1>3, PagesStayTyped DEF AccountsTypeOK, AccountsTyped, Grown, PageOf, User, Quiet
<1>5. RequestsTyped'
  BY <1>1 DEF Quiet, RequestsTyped, AccountsTyped
<1> QED BY <1>4, <1>5 DEF AccountsTyped

LEMMA AccountsTypesBegin == ASSUME AccountsInit PROVE AccountsTyped
<1>1. /\ Empty \in Tokens /\ Empty.sub = 0
  BY UsersAssumption, TimeAssumption DEF Empty, Tokens
<1>2. Len(users) = 0 /\ users \in Seq(User)
  BY DEF AccountsInit
<1>3. /\ requests = {} /\ acted = {} /\ taken = {} /\ failures \in 0..MaxFailures
      /\ clock \in 0..MaxClock /\ given \in [Ids -> 0..MaxClock]
  BY UsersAssumption, TimeAssumption DEF AccountsInit
<1>4. page \in [Tabs -> PageOf(0)]
  BY DEF AccountsInit, PageOf
<1>5. AccountsTypeOK
  BY <1>1, <1>2, <1>3, <1>4, UsersAssumption DEF AccountsInit, AccountsTypeOK, User, PageOf
<1> QED BY <1>3, <1>5 DEF AccountsTyped, RequestsTyped

LEMMA AccountsTypesKept ==
    ASSUME AccountsTyped, [AccountsNext]_accountsVars PROVE AccountsTyped'
BY AnswersAreTyped, RefusalsAreTyped, DemandsAreTyped, CallsAreTyped, AccountsSteps

\* Accounts, sessions, pages and requests keep their types; no session or page
\* refers to an account that does not exist.
THEOREM AccountsTypeCorrect == AccountsSpec => []AccountsTypeOK
<1>1. AccountsTyped => AccountsTypeOK
  BY DEF AccountsTyped
<1> QED BY <1>1, AccountsTypesBegin, AccountsTypesKept, PTL DEF AccountsSpec

-----------------------------------------------------------------------------
\* A session of a person was made no later than the password was last given.
TokenGiven(held) ==
    held.sub # 0 /\ ~users[held.sub].tmp => held.created <= given[held.sub]
TokensGiven == TokenGiven(stored) /\ \A r \in requests : TokenGiven(r.sent)
GivenBefore == \A u \in Ids : given[u] <= clock

\* Logins, signups and logouts are submitted on a page that shows somebody.
FormsOpen ==
    \A r \in requests : r.kind # "me" => page[r.tab].state \in {"open", "leaving"}

\* No page shows anybody before the browser has a token.
NoPageYet == stored = Empty => \A t \in Tabs : page[t].state \in {"closed", "loading"}

\* NicksUnique without a number.
OneOfAName == \A n \in Nicks \ taken : \A u, v \in Named(n) : u = v

AccountsInv ==
    /\ AccountsTyped
    /\ TokensGiven /\ GivenBefore /\ SessionBounded
    /\ FormsOpen /\ NoPageYet /\ PageActsAsShown
    /\ OneOfAName

\* What a page or the refusal of a form leaves alone.
LEMMA DemandsKeep ==
    ASSUME NEW t \in Tabs, Demand(t)
    PROVE  /\ taken' = taken /\ stored' = stored /\ users' = users /\ given' = given
           /\ acted' = {} /\ clock' = clock
BY DEF Demand, Load, OpenSettings, SubmitLogout, SubmitLogin, SubmitSignup, Submit

LEMMA RefusalsKeep ==
    ASSUME Refusal
    PROVE  /\ taken' = taken /\ stored' = stored /\ users' = users /\ given' = given
           /\ page' = page /\ requests' \subseteq requests /\ acted' = {} /\ clock' = clock
BY DEF Refusal, LoginRefused, SignupRefused, Answered

LEMMA AnswersKeep ==
    ASSUME NEW r \in requests, Answer(r)
    PROVE  /\ requests' = requests \ {r} /\ taken' = taken /\ clock' = clock
           /\ (acted' = {} \/ (ShowUser(r) /\ acted' = {r.sent.sub}))
BY DEF Answer, ShowUser, ShowGuest, ShowNobody, Signup, Logout, Login, Answered

-----------------------------------------------------------------------------
(***************************************************************************)
(* SessionBounded: passwords are given now, so that the time at which one  *)
(* was given last only grows, and a session that is stored or was sent     *)
(* began no later.                                                         *)
(***************************************************************************)
LEMMA TokenStays ==
    ASSUME AccountsTyped, GivenBefore, Grown, given' \in [Ids -> 0..MaxClock],
           \A u \in Ids : given'[u] = given[u] \/ given'[u] = clock,
           NEW held \in AnyToken, held.sub <= Len(users), TokenGiven(held)
    PROVE  held.sub # 0 /\ ~users'[held.sub].tmp => held.created <= given'[held.sub]
<1> SUFFICES ASSUME held.sub # 0, ~users'[held.sub].tmp
             PROVE  held.created <= given'[held.sub]
  OBVIOUS
<1>1. /\ held.sub \in 1..Len(users) /\ held.sub \in Ids
      /\ held.created \in Nat /\ clock \in Nat
  BY TokensAreTyped, UsersAssumption DEF AccountsTyped, AccountsTypeOK, Ids
<1>2. ~users[held.sub].tmp
  BY <1>1 DEF Grown
<1>3. held.created <= given[held.sub] /\ given[held.sub] \in Nat
  BY <1>1, <1>2 DEF TokenGiven, AccountsTyped, AccountsTypeOK
<1> QED BY <1>1, <1>3 DEF GivenBefore

LEMMA RequestToken ==
    ASSUME AccountsTyped, NEW r \in requests
    PROVE  r.sent \in AnyToken /\ r.sent.sub <= Len(users) /\ r.tab \in Tabs
BY DEF AccountsTyped, AccountsTypeOK, RequestsTyped

LEMMA StoredToken ==
    ASSUME AccountsTyped
    PROVE  stored \in AnyToken /\ stored.sub <= Len(users)
BY DEF AccountsTyped, AccountsTypeOK, AnyToken

LEMMA TokensStayGiven ==
    ASSUME AccountsTyped, TokensGiven, GivenBefore, [AccountsNext]_accountsVars
    PROVE  TokensGiven' /\ GivenBefore'
<1>1. ASSUME NEW r \in requests, Answer(r) PROVE TokensGiven' /\ GivenBefore'
  <2>1. PICK held, shown :
        /\ Stores(r.tab, held, shown)
        /\ Grown /\ given' \in [Ids -> 0..MaxClock]
        /\ \A u \in Ids : given'[u] = given[u] \/ given'[u] = clock
        /\ held.sub # 0 =>
              \/ users'[held.sub].tmp
              \/ given'[held.sub] = clock /\ held.created = clock
              \/ held.sub = r.sent.sub /\ held.created = r.sent.created
    BY <1>1, AnswersStore DEF AnswerStores
  <2>2. stored' = held
    BY <2>1 DEF Stores, SetSessionToken
  <2>3. \A q \in requests : q.sent.sub # 0 /\ ~users'[q.sent.sub].tmp
                              => q.sent.created <= given'[q.sent.sub]
    BY <2>1, TokenStays, RequestToken DEF TokensGiven
  <2>4. clock <= clock
    BY DEF AccountsTyped, AccountsTypeOK
  <2>5. TokenGiven(stored)'
    BY <2>1, <2>2, <2>3, <2>4 DEF TokenGiven
  <2>6. requests' \subseteq requests /\ clock' = clock
    BY <1>1, AnswersKeep
  <2>7. GivenBefore'
    BY <2>1, <2>4, <2>6 DEF GivenBefore
  <2> QED BY <2>3, <2>5, <2>6, <2>7 DEF TokensGiven, TokenGiven
<1>2. CASE Refusal
  BY <1>2, RefusalsKeep DEF TokensGiven, TokenGiven, GivenBefore
<1>3. CASE PassTime
  BY <1>3 DEF PassTime, TokensGiven, TokenGiven, GivenBefore, AccountsTyped, AccountsTypeOK
<1>4. CASE UNCHANGED accountsVars
  BY <1>4 DEF accountsVars, TokensGiven, TokenGiven, GivenBefore
<1>5. ASSUME NEW t \in Tabs, Demand(t) PROVE TokensGiven' /\ GivenBefore'
  <2>1. \A q \in requests' : q \in requests \/ q.sent \in {stored, Empty}
    BY <1>5 DEF Demand, Load, OpenSettings, SubmitLogout, SubmitLogin, SubmitSignup, Submit, Request
  <2>2. Empty.sub = 0
    BY DEF Empty
  <2> QED BY <1>5, <2>1, <2>2, DemandsKeep DEF TokensGiven, TokenGiven, GivenBefore
<1>6. CASE QuietCall
  <2>1. Grown /\ Quiet
    BY <1>6, CallsGrow
  <2>2. given' = given /\ stored' = stored /\ requests' = requests /\ clock' = clock
    BY <2>1 DEF Quiet
  <2>3. given' \in [Ids -> 0..MaxClock]
    BY <2>2 DEF AccountsTyped, AccountsTypeOK
  <2>4. \A q \in requests : q.sent.sub # 0 /\ ~users'[q.sent.sub].tmp
                              => q.sent.created <= given'[q.sent.sub]
    BY <2>1, <2>2, <2>3, TokenStays, RequestToken DEF TokensGiven
  <2>5. stored.sub # 0 /\ ~users'[stored.sub].tmp => stored.created <= given'[stored.sub]
    BY <2>1, <2>2, <2>3, TokenStays, StoredToken DEF TokensGiven
  <2> QED BY <2>2, <2>4, <2>5 DEF TokensGiven, TokenGiven, GivenBefore
<1> QED BY <1>1, <1>2, <1>3, <1>4, <1>5, <1>6, AccountsSteps

\* The server acts for the account of a live session.
LEMMA LiveIsBounded ==
    ASSUME AccountsTyped, NEW held \in AnyToken, held.sub <= Len(users),
           TokenGiven(held), Live(held), ~users[held.sub].tmp
    PROVE  held.sub \in 1..Len(users) /\ clock - given[held.sub] <= SessionLifetime
<1>1. /\ held.sub \in 1..Len(users) /\ held.sub \in Ids
      /\ held.created \in Nat /\ clock \in Nat /\ SessionLifetime \in Nat
  BY TokensAreTyped, UsersAssumption, TimeAssumption
     DEF AccountsTyped, AccountsTypeOK, Ids, Live
<1>2. given[held.sub] \in Nat
  BY <1>1 DEF AccountsTyped, AccountsTypeOK
<1> QED BY <1>1, <1>2 DEF TokenGiven, Live

LEMMA SessionsStayBounded ==
    ASSUME AccountsTyped, TokensGiven, SessionBounded, [AccountsNext]_accountsVars
    PROVE  SessionBounded'
<1>1. ASSUME NEW r \in requests, Answer(r) PROVE SessionBounded'
  <2>1. CASE ShowUser(r) /\ acted' = {r.sent.sub}
    <3>1. users' = users /\ given' = given /\ clock' = clock /\ Live(r.sent)
      BY <2>1 DEF ShowUser, Answered, Served
    <3> QED BY <2>1, <3>1, LiveIsBounded, RequestToken DEF SessionBounded, TokensGiven
  <2> QED BY <1>1, <2>1, AnswersKeep DEF SessionBounded
<1>2. CASE acted' = {}
  BY <1>2 DEF SessionBounded
<1>3. CASE UNCHANGED accountsVars
  BY <1>3 DEF accountsVars, SessionBounded
<1>4. CASE QuietCall
  <2>1. Grown /\ Quiet /\ (acted' = {} \/ (Served(stored) /\ acted' = {stored.sub}))
    BY <1>4, CallsGrow
  <2>2. CASE Served(stored) /\ acted' = {stored.sub}
    <3>1. /\ stored \in AnyToken /\ stored.sub <= Len(users)
          /\ Live(stored) /\ TokenGiven(stored)
      BY <2>2, StoredToken DEF Served, TokensGiven
    <3>2. stored.sub \in 1..Len(users)
      BY <3>1, TokensAreTyped, UsersAssumption DEF Live, AccountsTyped, AccountsTypeOK
    <3>3. users'[stored.sub].tmp = users[stored.sub].tmp
      BY <2>1, <3>2 DEF Grown
    <3> QED BY <2>1, <2>2, <3>1, <3>3, LiveIsBounded DEF SessionBounded, Quiet
  <2> QED BY <2>1, <2>2, <1>2
<1> QED BY <1>1, <1>2, <1>3, <1>4, AccountsSteps, RefusalsKeep, DemandsKeep DEF PassTime

-----------------------------------------------------------------------------
(***************************************************************************)
(* PageActsAsShown: an answer to a form comes to a page that shows         *)
(* somebody, so that setSessionToken lets that page stay open only if the  *)
(* token is the one that was stored already.                               *)
(***************************************************************************)
LEMMA FormsStayOpen ==
    ASSUME AccountsTyped, FormsOpen, [AccountsNext]_accountsVars
    PROVE  FormsOpen'
<1>0. \A q \in requests : q.tab \in Tabs
  BY RequestToken
<1>1. ASSUME NEW r \in requests, Answer(r) PROVE FormsOpen'
  <2>1. PICK held, shown : Stores(r.tab, held, shown) /\ Grown
    BY <1>1, AnswersStore DEF AnswerStores
  <2>2. /\ page'[r.tab].state \in {"leaving", "open"}
        /\ \A s \in Tabs \ {r.tab} : page'[s].state = page[s].state
    BY <1>0, <2>1, StoredPages
  <2>3. requests' \subseteq requests
    BY <1>1, AnswersKeep
  <2> QED BY <1>0, <2>2, <2>3 DEF FormsOpen
<1>2. CASE Refusal
  BY <1>2, RefusalsKeep DEF FormsOpen
<1>3. CASE PassTime \/ UNCHANGED accountsVars
  BY <1>3 DEF PassTime, accountsVars, FormsOpen
<1>4. ASSUME NEW t \in Tabs, Demand(t) PROVE FormsOpen'
  <2>1. CASE Load(t)
    <3>1. /\ \A s \in Tabs \ {t} : page'[s] = page[s]
          /\ \A q \in requests' : q.kind = "me" \/ (q \in requests /\ q.tab # t)
      BY <2>1 DEF Load, Request, AccountsTyped, AccountsTypeOK
    <3> QED BY <1>0, <3>1 DEF FormsOpen
  <2>2. CASE page' = page /\ page[t].state = "open" /\ \A q \in requests' : q \in requests \/ q.tab = t
    BY <2>2 DEF FormsOpen
  <2>3. CASE Demand(t) /\ ~Load(t)
    <3>1. page' = page /\ page[t].state = "open" /\ \A q \in requests' : q \in requests \/ q.tab = t
      BY <2>3 DEF Demand, OpenSettings, SubmitLogout, SubmitLogin, SubmitSignup, Submit, Request
    <3> QED BY <2>2, <3>1
  <2> QED BY <1>4, <2>1, <2>3
<1>5. CASE QuietCall
  <2>1. /\ Quiet
        /\ \A t \in Tabs :
              (page'[t] = page[t] \/ (page[t].state = "open" /\ page'[t].state = "leaving"))
    BY <1>5, CallsGrow
  <2> QED BY <1>0, <2>1 DEF Quiet, FormsOpen
<1> QED BY <1>1, <1>2, <1>3, <1>4, <1>5, AccountsSteps

\* A page that shows somebody shows the account of the stored token.
LEMMA PagesStayTrue ==
    ASSUME AccountsTyped, FormsOpen, NoPageYet, PageActsAsShown, [AccountsNext]_accountsVars
    PROVE  NoPageYet' /\ PageActsAsShown'
<1>1. ASSUME NEW r \in requests, Answer(r) PROVE NoPageYet' /\ PageActsAsShown'
  <2>1. PICK held, shown :
          /\ Stores(r.tab, held, shown) /\ Grown
          /\ IF r.kind = "me" THEN shown = held.sub ELSE shown = page[r.tab].shown
    BY <1>1, AnswersStore DEF AnswerStores
  <2>2. r.tab \in Tabs
    BY RequestToken
  <2>3. /\ stored' = held /\ held # Empty
        /\ page'[r.tab].shown = shown
        /\ page'[r.tab].stale = (page[r.tab].stale /\ shown # held.sub)
        /\ page'[r.tab].state = "open" =>
              page[r.tab].state # "leaving" /\ (stored = Empty \/ held = stored)
        /\ \A s \in Tabs \ {r.tab} :
              /\ page'[s].state = page[s].state /\ page'[s].shown = page[s].shown
              /\ page'[s].stale = (page[s].stale \/ held.sub # stored.sub)
    BY <2>1, <2>2, StoredPages
  <2>4. ASSUME page'[r.tab].state = "open", ~page'[r.tab].stale
        PROVE  held.sub = page'[r.tab].shown
    <3>1. CASE r.kind = "me"
      BY <3>1, <2>1, <2>3
    <3>2. CASE r.kind # "me"
      <4>1. page[r.tab].state = "open" /\ held = stored
        BY <3>2, <2>2, <2>3, <2>4 DEF FormsOpen, NoPageYet
      <4>2. CASE page[r.tab].stale
        BY <4>2, <2>3, <2>4
      <4>3. CASE ~page[r.tab].stale
        BY <4>1, <4>3, <3>2, <2>1, <2>2, <2>3 DEF PageActsAsShown
      <4> QED BY <4>2, <4>3
    <3> QED BY <3>1, <3>2
  <2>5. NoPageYet'
    BY <2>3 DEF NoPageYet
  <2> QED BY <2>3, <2>4, <2>5 DEF PageActsAsShown
<1>2. CASE Refusal
  BY <1>2, RefusalsKeep DEF NoPageYet, PageActsAsShown
<1>3. CASE PassTime \/ UNCHANGED accountsVars
  BY <1>3 DEF PassTime, accountsVars, NoPageYet, PageActsAsShown
<1>4. ASSUME NEW t \in Tabs, Demand(t) PROVE NoPageYet' /\ PageActsAsShown'
  <2>1. /\ stored' = stored
        /\ \A s \in Tabs : page'[s] = page[s] \/ page'[s].state = "loading"
    BY <1>4 DEF Demand, Load, OpenSettings, SubmitLogout, SubmitLogin, SubmitSignup, Submit,
                AccountsTyped, AccountsTypeOK
  <2> QED BY <2>1 DEF NoPageYet, PageActsAsShown
<1>5. CASE QuietCall
  <2>1. /\ stored' = stored
        /\ \A t \in Tabs :
              (page'[t] = page[t] \/ (page[t].state = "open" /\ page'[t].state = "leaving"))
    BY <1>5, CallsGrow DEF Quiet
  <2> QED BY <2>1 DEF NoPageYet, PageActsAsShown
<1> QED BY <1>1, <1>2, <1>3, <1>4, <1>5, AccountsSteps

-----------------------------------------------------------------------------
(***************************************************************************)
(* NicksUnique                                                             *)
(***************************************************************************)

\* An account is added under a name that nobody has.
LEMMA NewNameIsUnique ==
    ASSUME AccountsTypeOK, OneOfAName, NEW user \in User, Add(user), taken \subseteq taken',
           user.nick \in Nicks \ taken' => Named(user.nick) = {}
    PROVE  OneOfAName'
<1>1. /\ Len(users) \in Nat /\ Len(users') = Len(users) + 1
      /\ users'[Len(users')] = user
      /\ \A u \in 1..Len(users) : users'[u] = users[u]
  BY AddingGrows DEF AccountsTypeOK
<1> SUFFICES ASSUME NEW n \in Nicks \ taken', NEW u \in Named(n)', NEW v \in Named(n)'
             PROVE  u = v
  BY DEF OneOfAName
<1>2. /\ u \in 1..Len(users) \cup {Len(users')} /\ users'[u].nick = n
      /\ v \in 1..Len(users) \cup {Len(users')} /\ users'[v].nick = n
  BY <1>1 DEF Named
<1>3. CASE u \in 1..Len(users) /\ v \in 1..Len(users)
  BY <1>1, <1>2, <1>3 DEF Named, OneOfAName
<1>4. CASE u = Len(users') \/ v = Len(users')
  <2>1. user.nick = n
    BY <1>1, <1>2, <1>4
  <2>2. Named(n) = {}
    BY <2>1
  <2>3. u \notin 1..Len(users) /\ v \notin 1..Len(users)
    BY <1>1, <1>2, <2>2 DEF Named
  <2> QED BY <1>2, <2>3
<1> QED BY <1>2, <1>3, <1>4

\* The accounts stay the same, or only those change their name that are taken.
LEMMA SameNamesAreUnique ==
    ASSUME OneOfAName, taken \subseteq taken', Len(users') = Len(users),
           \A u \in 1..Len(users) : \/ users'[u].nick = users[u].nick
                                    \/ users'[u].nick \in taken'
    PROVE  OneOfAName'
BY DEF OneOfAName, Named

LEMMA NamesStayUnique ==
    ASSUME AccountsTyped, OneOfAName, [AccountsNext]_accountsVars
    PROVE  OneOfAName'
<1>0. /\ users \in Seq(User) /\ AccountsTypeOK /\ Fresh \notin Nicks
      /\ NeonNick \in Nicks /\ BotNicks \subseteq Nicks
  BY NickAssumption DEF AccountsTyped, AccountsTypeOK, User
<1>1. CASE users' = users /\ taken \subseteq taken'
  BY <1>1, SameNamesAreUnique
<1>2. ASSUME NEW r \in requests, Answer(r) PROVE OneOfAName'
  <2>1. taken' = taken
    BY <1>2, AnswersKeep
  <2>2. CASE ShowGuest(r) \/ Logout(r)
    BY <1>0, <2>1, <2>2, GuestsAreUsers, NewNameIsUnique DEF ShowGuest, Logout
  <2>3. CASE Signup(r)
    <3>1. Person(r.as) \in User /\ Person(r.as).nick = r.as
      BY <2>3, GuestsAreUsers DEF AccountsTyped, RequestsTyped, Signup, Answered, Person
    <3> QED BY <1>0, <2>1, <2>3, <3>1, NewNameIsUnique DEF Signup
  <2>4. CASE users' = users
    BY <1>1, <2>1, <2>4
  <2> QED BY <1>2, <2>2, <2>3, <2>4 DEF Answer, ShowUser, ShowNobody, Login
<1>3. CASE QuietCall
  <2>1. taken \subseteq taken'
    BY <1>3, CallsGrow
  <2>2. ASSUME NEW t \in Tabs, Call(t) PROVE OneOfAName'
    BY <1>0, <1>1, <2>1, <2>2, GuestsAreUsers, NewNameIsUnique DEF Call
  <2>3. ASSUME NEW t \in Tabs, NEW n \in Nicks, UpdateProfile(t, n) PROVE OneOfAName'
    <3>1. n \in taken'
      BY <2>3 DEF UpdateProfile
    <3>2. CASE Served(stored) /\ users' = [users EXCEPT ![stored.sub].nick = n]
      <4>1. stored.sub \in 1..Len(users)
        BY <3>2, StoredToken, TokensAreTyped DEF Served, Live, AccountsTyped, AccountsTypeOK
      <4>2. PICK u \in 1..Len(users) : u = stored.sub
        BY <4>1
      <4>3. /\ Len(users') = Len(users)
            /\ \A v \in 1..Len(users) : users'[v].nick = IF v = u THEN n ELSE users[v].nick
        BY <1>0, <3>2, <4>2, RenamedIsTyped
      <4> QED BY <2>1, <3>1, <4>3, SameNamesAreUnique
    <3>3. CASE Add([Guest EXCEPT !.nick = n])
      BY <1>0, <2>1, <3>1, <3>3, GuestsAreUsers, NewNameIsUnique
    <3> QED BY <2>3, <3>2, <3>3 DEF UpdateProfile
  <2>4. ASSUME NEW n \in BotNicks, GetBotData(n) PROVE OneOfAName'
    <3>1. CASE Named(n) = {} /\ Add(Bot(n))
      <4>1. Bot(n) \in User /\ Bot(n).nick = n
        BY <1>0, GuestsAreUsers DEF Bot
      <4> QED BY <1>0, <2>1, <3>1, <4>1, NewNameIsUnique
    <3>2. CASE users' = [users EXCEPT ![First(n)].bot = TRUE]
      <4>1. /\ Len(users') = Len(users)
            /\ \A v \in 1..Len(users) : users'[v].nick = users[v].nick
        BY <1>0, <3>2, MarkedIsTyped
      <4> QED BY <2>1, <4>1, SameNamesAreUnique
    <3> QED BY <2>4, <3>1, <3>2 DEF GetBotData
  <2>5. CASE GetNeonData
    BY <1>0, <1>1, <2>1, <2>5, GuestsAreUsers, NewNameIsUnique DEF GetNeonData
  <2> QED BY <1>3, <2>2, <2>3, <2>4, <2>5 DEF QuietCall
<1>4. CASE PassTime \/ UNCHANGED accountsVars
  BY <1>1, <1>4 DEF PassTime, accountsVars
<1> QED BY <1>1, <1>2, <1>3, <1>4, AccountsSteps, RefusalsKeep, DemandsKeep

-----------------------------------------------------------------------------
LEMMA AccountsInvBegins == ASSUME AccountsInit PROVE AccountsInv
<1>1. AccountsTyped
  BY AccountsTypesBegin
<1>2. \A n : Named(n) = {}
  BY DEF AccountsInit, Named
<1>3. TokensGiven
  BY DEF AccountsInit, TokensGiven, TokenGiven, Empty
<1>4. FormsOpen /\ NoPageYet /\ PageActsAsShown /\ SessionBounded /\ OneOfAName /\ GivenBefore
  BY <1>2 DEF AccountsInit, FormsOpen, NoPageYet, PageActsAsShown, SessionBounded, OneOfAName,
              GivenBefore
<1> QED BY <1>1, <1>3, <1>4 DEF AccountsInv

LEMMA AccountsInvKept ==
    ASSUME AccountsInv, [AccountsNext]_accountsVars PROVE AccountsInv'
BY AccountsTypesKept, TokensStayGiven, SessionsStayBounded, FormsStayOpen, PagesStayTrue,
   NamesStayUnique DEF AccountsInv

LEMMA AccountsInvHolds == AccountsSpec => []AccountsInv
BY AccountsInvBegins, AccountsInvKept, PTL DEF AccountsSpec

(***************************************************************************)
(* Nobody acts as a person later than the lifetime of a session after that *)
(* person's password was given (session_token_expired), because refreshes  *)
(* keep the time at which a session began (refresh_session).               *)
(***************************************************************************)
THEOREM SessionsAreBounded == AccountsSpec => []SessionBounded
<1>1. AccountsInv => SessionBounded
  BY DEF AccountsInv
<1> QED BY <1>1, AccountsInvHolds, PTL

(***************************************************************************)
(* A page that no other tab has overtaken acts as the account that it      *)
(* shows: setSessionToken reloads a page whose token is replaced.          *)
(***************************************************************************)
THEOREM PagesActAsShown == AccountsSpec => []PageActsAsShown
<1>1. AccountsInv => PageActsAsShown
  BY DEF AccountsInv
<1> QED BY <1>1, AccountsInvHolds, PTL

(***************************************************************************)
(* Nicknames are unique until an update of a profile sets one: signup,     *)
(* get_bot_data and get_neon_data look a name up before they add it.       *)
(***************************************************************************)
THEOREM NicknamesAreUnique == AccountsSpec => []NicksUnique
<1>1. AccountsInv => NicksUnique
  <2> SUFFICES ASSUME AccountsInv, NEW n \in Nicks \ taken
               PROVE  Cardinality(Named(n)) <= 1
    BY DEF NicksUnique
  <2>1. CASE Named(n) = {}
    BY <2>1, FS_EmptySet
  <2>2. ASSUME NEW u \in Named(n) PROVE Cardinality(Named(n)) <= 1
    <3>1. Named(n) = {u}
      BY <2>2 DEF AccountsInv, OneOfAName
    <3> QED BY <3>1, FS_Singleton
  <2> QED BY <2>1, <2>2
<1> QED BY <1>1, AccountsInvHolds, PTL

\* The action of SessionKept.
KeepsSession ==
    stored'.sub # stored.sub =>
         \/ \E r \in requests \ requests' : r.kind # "me"
         \/ ~Served(stored)
         \/ \E r \in requests : r.kind = "me" /\
              (r.sent.sub # stored.sub \/ ~Live(r.sent))
         \/ failures' # failures

LEMMA StepsKeepSession ==
    ASSUME AccountsTyped, [AccountsNext]_accountsVars PROVE KeepsSession
<1>1. ASSUME NEW r \in requests, Answer(r) PROVE KeepsSession
  <2>1. CASE ShowUser(r)
    <3>1. stored' = Refreshed(r.sent) /\ r.kind = "me"
      BY <2>1 DEF ShowUser, SetSessionToken, Answered
    <3>2. Refreshed(r.sent).sub = r.sent.sub
      <4>1. r.sent \in Tokens
        BY <2>1, RequestToken, TokensAreTyped DEF ShowUser, Served, Live, AccountsTyped, AccountsTypeOK
      <4> QED BY <4>1, TokensAreTyped DEF AccountsTyped, AccountsTypeOK
    <3> QED BY <3>1, <3>2 DEF KeepsSession
  <2>2. CASE ShowGuest(r)
    BY <2>2 DEF ShowGuest, Answered, KeepsSession
  <2>3. CASE ShowNobody(r)
    <3>1. CASE Live(r.sent) /\ users[r.sent.sub].bot
      BY <2>3, <3>1 DEF ShowNobody, Answered, Served, KeepsSession
    <3>2. CASE failures' = failures + 1
      BY <3>2 DEF KeepsSession, AccountsTyped, AccountsTypeOK
    <3> QED BY <2>3, <3>1, <3>2 DEF ShowNobody
  <2>4. CASE r.kind # "me"
    BY <1>1, <2>4, AnswersKeep DEF KeepsSession
  <2> QED BY <1>1, <2>1, <2>2, <2>3, <2>4 DEF Answer, Signup, Logout, Login, Answered
<1>2. CASE stored' = stored
  BY <1>2 DEF KeepsSession
<1> QED BY <1>1, <1>2, AccountsSteps, RefusalsKeep, DemandsKeep, CallsGrow
        DEF PassTime, accountsVars, Quiet, QuietCall

(***************************************************************************)
(* The browser changes its account only by a login, a signup or a logout,  *)
(* or when its session is not served or a request was sent without it      *)
(* (getUserData).                                                          *)
(***************************************************************************)
THEOREM SessionIsKept == AccountsSpec => SessionKept
<1>1. AccountsTyped /\ [AccountsNext]_accountsVars => [KeepsSession]_accountsVars
  BY StepsKeepSession
<1>2. AccountsTyped /\ [AccountsNext]_accountsVars => AccountsTyped'
  BY AccountsTypesKept
<1>3. AccountsInit => AccountsTyped
  BY AccountsTypesBegin
<1> QED BY <1>1, <1>2, <1>3, PTL DEF AccountsSpec, SessionKept, KeepsSession
=============================================================================
