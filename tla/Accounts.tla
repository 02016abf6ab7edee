------------------------------ MODULE Accounts ------------------------------
(***************************************************************************)
(* Accounts and sessions: the users of the database, with the guests and   *)
(* bots that are created on demand, the session tokens of the chat server, *)
(* which expire and are refreshed, and the browser, whose pages share one  *)
(* stored token (user_utils.js, http_utils.js).                            *)
(*                                                                         *)
(* A request is answered in one step with the reception of the answer:     *)
(* what matters is that the token it carries was read before.              *)
(***************************************************************************)
EXTENDS Naturals, Sequences, FiniteSets

CONSTANTS Tabs,
          Nicks,       \* nicknames that people and bots use
          BotNicks,    \* those of bots on the message bus
          NeonNick,    \* that of Neon
          Fresh,       \* the random nickname of a guest
          SessionLifetime, \* session_lifetime
          RefreshRate, \* session_refresh_rate
          MaxClock,    \* bound on the clock
          MaxUsers,    \* bound on accounts
          MaxFailures  \* bound on requests that fail

ASSUME NickAssumption == BotNicks \cup {NeonNick} \subseteq Nicks /\ Fresh \notin Nicks
ASSUME TimeAssumption == SessionLifetime \in Nat /\ RefreshRate \in Nat /\ MaxClock \in Nat
ASSUME UsersAssumption == MaxUsers \in Nat \ {0} /\ MaxFailures \in Nat

VARIABLES users,    \* database, in the order of insertion; the id is the place
          clock,    \* time()
          stored,   \* localStorage "session" of the browser
          page,     \* what each tab shows
          requests, \* requests of pages that have not been answered
          acted,    \* accounts on whose behalf the last step acted
          given,    \* history: when the password of an account was last given
          taken,    \* history: nicknames that profile updates have set
          failures

accountsVars == <<users, clock, stored, page, requests, acted, given, taken, failures>>

Ids == 1..MaxUsers
Person(n) == [nick |-> n, tmp |-> FALSE, bot |-> FALSE]
Guest == [nick |-> Fresh, tmp |-> TRUE, bot |-> FALSE]
Neon == [nick |-> NeonNick, tmp |-> TRUE, bot |-> FALSE]
Bot(n) == [nick |-> n, tmp |-> FALSE, bot |-> TRUE]

\* A token names its account; 0 for a string that is none.
Tokens == [sub : 0..MaxUsers, created : 0..MaxClock, refreshed : 0..MaxClock]
Empty == [sub |-> 0, created |-> 0, refreshed |-> 0]
Undefined == [sub |-> 0, created |-> 0, refreshed |-> 1]  \* "undefined"

\* generate_session_token
NewToken(id) == [sub |-> id, created |-> clock, refreshed |-> clock]

AccountsTypeOK ==
    /\ users \in Seq([nick : Nicks \cup {Fresh}, tmp : BOOLEAN, bot : BOOLEAN])
    /\ Len(users) <= MaxUsers
    /\ clock \in 0..MaxClock
    /\ stored \in Tokens \cup {Undefined} /\ stored.sub <= Len(users)
    /\ page \in [Tabs -> [state : {"closed", "loading", "open", "leaving"},
                          shown : 0..Len(users), stale : BOOLEAN]]
    /\ \A r \in requests : /\ r.tab \in Tabs /\ page[r.tab].state # "closed"
                           /\ r.kind \in {"me", "login", "signup", "logout"}
                           /\ r.sent.sub <= Len(users)
    /\ acted \subseteq 1..Len(users)
    /\ given \in [Ids -> 0..MaxClock]
    /\ taken \subseteq Nicks
    /\ failures \in 0..MaxFailures

AccountsInit ==
    /\ users = <<>> /\ clock = 0
    /\ stored = Empty
    /\ page = [t \in Tabs |-> [state |-> "closed", shown |-> 0, stale |-> FALSE]]
    /\ requests = {} /\ acted = {}
    /\ given = [u \in Ids |-> 0] /\ taken = {}
    /\ failures = 0

-----------------------------------------------------------------------------
(***************************************************************************)
(* The server                                                              *)
(***************************************************************************)

\* decode_jwt_token and session_token_expired
Live(token) == token.sub # 0 /\ clock - token.created <= SessionLifetime

\* Mutant: a session that is refreshed starts anew.
RefreshedAnew(token) ==
    IF clock - token.refreshed > RefreshRate
    THEN [token EXCEPT !.created = clock, !.refreshed = clock]
    ELSE token

\* refresh_token_expired and refresh_session, which keeps creation_time
Refreshed(token) ==
    IF clock - token.refreshed > RefreshRate THEN [token EXCEPT !.refreshed = clock]
    ELSE token

\* An account marked as a bot fails the strict validation of CurrentUserModel,
\* in which is_bot is a bool: the request ends as an internal error.
Served(token) == Live(token) /\ ~users[token.sub].bot

Add(user) ==
    /\ Len(users) < MaxUsers
    /\ users' = Append(users, user)

\* get_user by nickname: the first that was inserted.
Named(n) == {u \in 1..Len(users) : users[u].nick = n}
First(n) == CHOOSE u \in Named(n) : \A v \in Named(n) : u <= v

-----------------------------------------------------------------------------
(***************************************************************************)
(* The browser                                                             *)
(***************************************************************************)

\* Mutant: the page goes on without a reload.
SetSessionTokenOnly(t, token, shown) ==
    /\ stored' = token
    /\ page' = [s \in Tabs |->
         IF s = t THEN [state |-> "open", shown |-> shown, stale |-> FALSE]
         ELSE [page[s] EXCEPT !.stale = @ \/ token.sub # stored.sub]]

\* setSessionToken on tab t, which shows the account shown: it reloads if
\* another token was stored; the same token may come out of two logins of one
\* second, and then the tab goes on to show what it showed.  A tab is stale
\* once another one has changed the account of the browser.  A tab that is to
\* reload still runs callbacks.
SetSessionToken(t, token, shown) ==
    LET leaves == page[t].state = "leaving" \/ (stored # Empty /\ token # stored)
    IN  /\ stored' = token
        /\ page' = [s \in Tabs |->
             IF s = t THEN [state |-> IF leaves THEN "leaving" ELSE "open",
                            shown |-> shown,
                            stale |-> page[t].stale /\ shown # token.sub]
             ELSE [page[s] EXCEPT !.stale = @ \/ token.sub # stored.sub]]

Request(t, kind, sent, as) == [tab |-> t, kind |-> kind, sent |-> sent, as |-> as]
Sends(t, kind) == \E r \in requests : r.tab = t /\ r.kind = kind
Sending(t) == \E r \in requests : r.tab = t /\ r.kind # "me"

\* The page is loaded, or loaded again: by the user, after auth_expired or an
\* update of the profile, or by setSessionToken.  refreshCurrentUser asks who
\* the user is; what the old page was waiting for is lost.
Load(t) ==
    /\ page' = [page EXCEPT ![t] = [state |-> "loading", shown |-> 0, stale |-> FALSE]]
    /\ requests' = {r \in requests : r.tab # t} \cup {Request(t, "me", stored, 0)}
    /\ acted' = {}
    /\ UNCHANGED <<users, clock, stored, given, taken, failures>>

\* The settings are opened: refreshCurrentUser without a reload.
OpenSettings(t) ==
    /\ page[t].state = "open" /\ ~Sends(t, "me")
    /\ requests' = requests \cup {Request(t, "me", stored, 0)}
    /\ acted' = {}
    /\ UNCHANGED <<users, clock, stored, page, given, taken, failures>>

\* A click on the name of the user offers a login or a signup to a guest, and
\* the logout to anybody else.
Submit(t, kind, as) ==
    /\ page[t].state = "open" /\ ~Sending(t)
    /\ LET guest == page[t].shown # 0 /\ users[page[t].shown].tmp
       IN  guest <=> kind # "logout"
    /\ requests' = requests \cup {Request(t, kind, Empty, as)}
    /\ acted' = {}
    /\ UNCHANGED <<users, clock, stored, page, given, taken, failures>>

SubmitLogin(t, u) == u <= Len(users) /\ ~users[u].tmp /\ Submit(t, "login", users[u].nick)
SubmitSignup(t, n) == Submit(t, "signup", n)
SubmitLogout(t) == Submit(t, "logout", Fresh)

-----------------------------------------------------------------------------
(***************************************************************************)
(* Answers                                                                 *)
(***************************************************************************)
Answered(r, kind) ==
    /\ r.kind = kind
    /\ requests' = requests \ {r}
    /\ UNCHANGED <<clock, taken>>

\* GET users_api/ with a session: get_current_user_data
ShowUser(r) ==
    /\ Answered(r, "me")
    /\ Served(r.sent)
    /\ SetSessionToken(r.tab, Refreshed(r.sent), r.sent.sub)
    /\ acted' = {r.sent.sub}
    /\ UNCHANGED <<users, given, failures>>

\* Mutant: the guest of the answer is not stored.
ShowGuestUnsaved(r) ==
    /\ Answered(r, "me")
    /\ ~Live(r.sent)
    /\ SetSessionToken(r.tab, NewToken(Len(users) + 1), Len(users) + 1)
    /\ acted' = {}
    /\ UNCHANGED <<users, given, failures>>

\* Mutant: so does a session that is due for its refresh.
ShowGuestUnrefreshed(r) ==
    /\ Answered(r, "me")
    /\ ~Live(r.sent) \/ clock - r.sent.refreshed > RefreshRate
    /\ Add(Guest)
    /\ SetSessionToken(r.tab, NewToken(Len(users')), Len(users'))
    /\ acted' = {}
    /\ UNCHANGED <<given, failures>>

\* Without one, or with one that has expired: a new guest.
ShowGuest(r) ==
    /\ Answered(r, "me")
    /\ ~Live(r.sent)
    /\ Add(Guest)
    /\ SetSessionToken(r.tab, NewToken(Len(users')), Len(users'))
    /\ acted' = {}
    /\ UNCHANGED <<given, failures>>

\* The answer is an error: there is no token in it, and that is stored.
ShowNobody(r) ==
    /\ Answered(r, "me")
    /\ \/ Live(r.sent) /\ users[r.sent.sub].bot /\ UNCHANGED failures
       \/ failures < MaxFailures /\ failures' = failures + 1
    /\ SetSessionToken(r.tab, Undefined, 0)
    /\ acted' = {}
    /\ UNCHANGED <<users, given>>

\* POST auth/login, for a password that belongs to an account named r.as: the
\* first account of that name is the one that is looked at.
Login(r, u) ==
    /\ Answered(r, "login")
    /\ users[u].nick = r.as /\ ~users[u].tmp
    /\ u = First(r.as)
    /\ SetSessionToken(r.tab, NewToken(u), page[r.tab].shown)
    /\ given' = [given EXCEPT ![u] = clock]
    /\ acted' = {}
    /\ UNCHANGED <<users, failures>>

LoginRefused(r) ==
    /\ Answered(r, "login")
    /\ Cardinality(Named(r.as)) # 1 \/ \E u \in Named(r.as) : users[u].tmp
    /\ acted' = {}
    /\ UNCHANGED <<users, stored, page, given, failures>>

\* POST auth/signup: no await between the look-up and the insertion.
Signup(r) ==
    /\ Answered(r, "signup")
    /\ Named(r.as) = {}
    /\ Add(Person(r.as))
    /\ SetSessionToken(r.tab, NewToken(Len(users')), page[r.tab].shown)
    /\ given' = [given EXCEPT ![Len(users')] = clock]
    /\ acted' = {}
    /\ UNCHANGED failures

SignupRefused(r) ==
    /\ Answered(r, "signup")
    /\ Named(r.as) # {}
    /\ acted' = {}
    /\ UNCHANGED <<users, stored, page, given, failures>>

\* GET auth/logout: the session goes on to exist, the browser gets a guest's.
Logout(r) ==
    /\ Answered(r, "logout")
    /\ Add(Guest)
    /\ SetSessionToken(r.tab, NewToken(Len(users')), page[r.tab].shown)
    /\ acted' = {}
    /\ UNCHANGED <<given, failures>>

-----------------------------------------------------------------------------
(***************************************************************************)
(* Calls whose answer does not change the session                          *)
(***************************************************************************)
Quiet == UNCHANGED <<clock, stored, requests, given, failures>>

\* Any call of the API that looks up the current user: with a session that has
\* expired it makes a guest of whom the page never hears.
Call(t) ==
    /\ page[t].state = "open"
    /\ Quiet
    /\ \/ Served(stored) /\ acted' = {stored.sub} /\ UNCHANGED users
       \/ ~Live(stored) /\ Add(Guest) /\ acted' = {}
    /\ UNCHANGED <<page, taken>>

\* POST users_api/update, then a reload.  The nickname is not looked up, and
\* is set for the account of the session.
UpdateProfile(t, n) ==
    /\ page[t].state = "open" /\ page[t].shown # 0 /\ ~users[page[t].shown].tmp
    /\ Quiet
    /\ \/ /\ Served(stored)
          /\ users' = [users EXCEPT ![stored.sub].nick = n]
          /\ acted' = {stored.sub}
       \/ /\ ~Live(stored)
          /\ Add([Guest EXCEPT !.nick = n])
          /\ acted' = {}
    /\ taken' = taken \cup {n}
    /\ page' = [page EXCEPT ![t].state = "leaving"]

\* Mutant: a bot gets an account of its own beside one of its name.
GetBotDataApart(n) ==
    /\ Quiet
    /\ IF \E u \in Named(n) : users[u].bot THEN UNCHANGED users ELSE Add(Bot(n))
    /\ acted' = {}
    /\ UNCHANGED <<page, taken>>

\* get_bot_data, when a bot's message comes in: an account of its nickname is
\* marked as a bot's, or one is made.
GetBotData(n) ==
    /\ Quiet
    /\ IF Named(n) = {} THEN Add(Bot(n))
       ELSE users' = [users EXCEPT ![First(n)].bot = TRUE]
    /\ acted' = {}
    /\ UNCHANGED <<page, taken>>

\* get_neon_data, when a message of Neon comes in: whoever has its nickname.
GetNeonData ==
    /\ Quiet
    /\ IF Named(NeonNick) = {} THEN Add(Neon) ELSE UNCHANGED users
    /\ acted' = {}
    /\ UNCHANGED <<page, taken>>

PassTime ==
    /\ clock < MaxClock /\ clock' = clock + 1
    /\ acted' = {}
    /\ UNCHANGED <<users, stored, page, requests, given, taken, failures>>

-----------------------------------------------------------------------------
AccountsNext ==
    \/ \E t \in Tabs : Load(t) \/ OpenSettings(t) \/ SubmitLogout(t) \/ Call(t)
    \/ \E t \in Tabs, u \in Ids : SubmitLogin(t, u)
    \/ \E t \in Tabs, n \in Nicks : SubmitSignup(t, n) \/ UpdateProfile(t, n)
    \/ \E r \in requests : \/ ShowUser(r) \/ ShowGuest(r) \/ ShowNobody(r)
                           \/ \E u \in 1..Len(users) : Login(r, u)
                           \/ LoginRefused(r) \/ Logout(r)
                           \/ Signup(r) \/ SignupRefused(r)
    \/ \E n \in BotNicks : GetBotData(n)
    \/ GetNeonData
    \/ PassTime

AccountsSpec == AccountsInit /\ [][AccountsNext]_accountsVars

-----------------------------------------------------------------------------
(***************************************************************************)
(* Properties                                                              *)
(***************************************************************************)

\* The server acts for a person only within the lifetime of a session after
\* that person's password was given, however often the session is refreshed
\* (session_token_expired, refresh_session).
SessionBounded ==
    \A u \in acted : ~users[u].tmp => clock - given[u] <= SessionLifetime

\* A page acts as the account that it shows, unless another tab has changed
\* the account of the browser (setSessionToken, getUserData).
PageActsAsShown ==
    \A t \in Tabs : (page[t].state = "open" /\ ~page[t].stale)
                      => stored.sub = page[t].shown

\* The browser changes its account only by a login, a signup or a logout, as
\* long as its session lives, is served, and no request is under way that was
\* sent before it was stored (getUserData, get_current_user_data).
SessionKept ==
    [][stored'.sub # stored.sub =>
         \/ \E r \in requests \ requests' : r.kind # "me"
         \/ ~Served(stored)
         \/ \E r \in requests : r.kind = "me" /\
              (r.sent.sub # stored.sub \/ ~Live(r.sent))
         \/ failures' # failures]_accountsVars

\* Two accounts have one nickname only if an update of a profile has set it:
\* neither signups nor bots nor Neon add an account under a name that is used.
NicksUnique ==
    \A n \in Nicks \ taken : Cardinality(Named(n)) <= 1

=============================================================================
