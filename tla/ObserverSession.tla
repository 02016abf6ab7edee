-------------------------- MODULE ObserverSession --------------------------
(***************************************************************************)
(* The session of the observer on the Klat server: the token it keeps      *)
(* (controller.py), the token its Socket.IO link was dialed with, the      *)
(* check of that token for every guarded event (sio/utils.py), the notice  *)
(* auth_expired of a refused event, and the threads that log in again.     *)
(*                                                                         *)
(* The queue of events that wait for the link and the threads inside       *)
(* connect_sio are the subject of ObserverLink; here an emission and a     *)
(* flush of the queue are one step.                                        *)
(***************************************************************************)
EXTENDS Integers, FiniteSets

CONSTANTS Threads,     \* handlers of auth_expired and of MQ requests
          Role,        \* role of the observer's account
          Roles,       \* UserRoles, as numbers
          MinRole,     \* min_required_role of the event
          Lifetime,    \* session_lifetime
          MaxTime,     \* bound on the clock
          MaxNotices,  \* bound on notices under way
          MaxFaults    \* bound on drops, failed dials and failed logins

ASSUME RoleAssumption == Roles \subseteq Nat /\ {Role, MinRole} \subseteq Roles
ASSUME BoundAssumption ==
    {Lifetime, MaxTime, MaxNotices, MaxFaults} \subseteq Nat /\ MaxNotices > 0

VARIABLES token,    \* _klat_session_token, by its creation time
          header,   \* session header of the current or last connection
          link,     \* down, dialing, or up
          redial,   \* a retry timer or the library's task will connect
          login,    \* where each thread is in _login_to_klat_server
          notices,  \* auth_expired events on their way over the link
          waiting,  \* sio_queued_messages is not empty
          last,     \* what became of the last guarded event
          refused,  \* an event was refused on this connection
          crossed,  \* history: a login met a dial or a drop, and the link may
                    \* keep the old token
          failed,   \* history: a login failed since the last success
          beat,     \* flips with every emission
          now, faults

vars == <<token, header, link, redial, login, notices, waiting, last, refused,
          crossed, failed, beat, now, faults>>

None == -1
Times == 0..MaxTime
Idle == [at |-> "idle", got |-> None]

TypeOK ==
    /\ token \in Times \cup {None} /\ header \in Times \cup {None}
    /\ link \in {"down", "dialing", "up"}
    /\ login \in [Threads -> [at : {"idle", "post", "store", "drop"},
                              got : Times \cup {None}]]
    /\ notices \in 0..MaxNotices /\ (notices > 0 => link = "up")
    /\ last \in {"none", "handled", "refused"}
    /\ redial \in BOOLEAN /\ waiting \in BOOLEAN /\ refused \in BOOLEAN
    /\ crossed \in BOOLEAN /\ failed \in BOOLEAN /\ beat \in BOOLEAN
    /\ refused => link = "up"
    /\ now \in Times /\ faults \in 0..MaxFaults

\* The constructor dials before there is a token.
Init ==
    /\ token = None /\ header = None
    /\ link = "dialing" /\ redial = FALSE
    /\ login = [t \in Threads |-> Idle]
    /\ notices = 0 /\ waiting = FALSE
    /\ last = "none" /\ refused = FALSE
    /\ crossed = FALSE /\ failed = FALSE /\ beat = FALSE
    /\ now = 0 /\ faults = 0

-----------------------------------------------------------------------------
(***************************************************************************)
(* The server                                                              *)
(***************************************************************************)

\* session_token_expired
Expired(tok) == now - tok > Lifetime

\* _user_has_min_required_role
MayHandle(role) == MinRole = 0 \/ role >= MinRole

\* login_required: how the check of the header ends
Status(tok) ==
    CASE tok = None -> 404
      [] tok # None /\ Expired(tok) -> 401
      [] tok # None /\ ~Expired(tok) /\ ~MayHandle(Role) -> 403
      [] OTHER -> 200

\* A lack of permission alone does not keep the event from its handler.
Refused(tok) == Status(tok) \notin {200, 403}

\* The wrapper of login_required for one event, or for the n events of a
\* flush: a refused event is dropped and auth_expired sent back instead.
Guard(n) ==
    /\ last' = IF Refused(header) THEN "refused" ELSE "handled"
    /\ refused' = (refused \/ Refused(header))
    /\ notices' = IF Refused(header)
                  THEN IF notices + n > MaxNotices THEN MaxNotices ELSE notices + n
                  ELSE notices

-----------------------------------------------------------------------------
(***************************************************************************)
(* The link                                                                *)
(***************************************************************************)

Fault == faults < MaxFaults /\ faults' = faults + 1

\* What was on its way over a link is gone with it.
Cut == notices' = 0 /\ refused' = FALSE

\* Mutant: the headers are those of the first dial.
DialAsBefore == link' = "dialing" /\ redial' = FALSE /\ UNCHANGED header

\* connect_sio takes the token of this moment.
Dial == link' = "dialing" /\ header' = token /\ redial' = FALSE

\* A handler emits: broadcast, the only event of the observer that is guarded.
EmitUp ==
    /\ link = "up"
    /\ Guard(1)
    /\ UNCHANGED <<token, header, link, redial, waiting>>

\* ... it is queued, and the thread dials unless one is dialing.
EmitDown ==
    /\ link # "up"
    /\ waiting' = TRUE
    /\ \/ link = "dialing" /\ UNCHANGED <<header, link, redial, crossed>>
       \/ link = "down" /\ Dial /\ crossed' = FALSE
    /\ UNCHANGED <<token, notices, last, refused>>

Emit ==
    /\ beat' = ~beat
    /\ EmitDown \/ (EmitUp /\ UNCHANGED crossed)
    /\ UNCHANGED <<login, failed, now, faults>>

\* Timer(5, connect_sio) or the library's own task.  The library dials with
\* the headers of the call of connect, old as they may be.
Redial ==
    /\ link = "down" /\ redial
    /\ \/ Dial /\ crossed' = FALSE
       \/ link' = "dialing" /\ redial' = FALSE
          /\ crossed' = (crossed \/ header # token) /\ UNCHANGED header
    /\ UNCHANGED <<token, login, notices, waiting, last, refused, failed, beat,
                   now, faults>>

\* The link is up; the queue, if it was not empty, is flushed over it.
DialOk ==
    /\ link = "dialing" /\ link' = "up"
    /\ waiting' = FALSE
    /\ IF waiting THEN Guard(1) ELSE UNCHANGED <<last, refused, notices>>
    /\ UNCHANGED <<token, header, redial, login, crossed, failed, beat, now, faults>>

DialFail ==
    /\ link = "dialing" /\ link' = "down"
    /\ redial' = TRUE
    /\ Fault
    /\ UNCHANGED <<token, header, login, notices, waiting, last, refused,
                   crossed, failed, beat, now>>

Drop ==
    /\ link = "up" /\ link' = "down"
    /\ redial' = TRUE
    /\ Cut /\ Fault
    /\ UNCHANGED <<token, header, login, waiting, last, crossed, failed, beat, now>>

-----------------------------------------------------------------------------
(***************************************************************************)
(* Logging in                                                              *)
(***************************************************************************)

Goto(t, l) == login' = [login EXCEPT ![t].at = l]

\* Mutant: the notice is logged and that is all.
NoticeIgnored(t) ==
    /\ notices > 0 /\ login[t] = Idle
    /\ notices' = notices - 1
    /\ UNCHANGED <<token, header, link, redial, login, waiting, last, refused,
                   crossed, failed, beat, now, faults>>

\* _handle_auth_expired
Notice(t) ==
    /\ notices > 0 /\ login[t] = Idle
    /\ notices' = notices - 1
    /\ Goto(t, "post")
    /\ UNCHANGED <<token, header, link, redial, waiting, last, refused, crossed,
                   failed, beat, now, faults>>

\* _fetch_klat_server logs in first when there is no token.  With one the
\* request is answered: configs/ asks for no session, and personas/list takes
\* the sender of an expired one for a guest.
NeedsLogin == token = None

\* handle_get_prompts_data, and the same way handle_get_configured_personas
Fetch(t) ==
    /\ NeedsLogin /\ login[t] = Idle
    /\ Goto(t, "post")
    /\ UNCHANGED <<token, header, link, redial, notices, waiting, last, refused,
                   crossed, failed, beat, now, faults>>

\* The server answers POST auth/login with a token of this moment ...
LoginOk(t) ==
    /\ login[t].at = "post"
    /\ login' = [login EXCEPT ![t] = [at |-> "store", got |-> now]]
    /\ UNCHANGED <<token, header, link, redial, notices, waiting, last, refused,
                   crossed, failed, beat, now, faults>>

\* ... or not: KlatAPIAuthorizationError.
LoginFail(t) ==
    /\ login[t].at = "post"
    /\ login' = [login EXCEPT ![t] = Idle]
    /\ failed' = TRUE
    /\ Fault
    /\ UNCHANGED <<token, header, link, redial, notices, waiting, last, refused,
                   crossed, beat, now>>

\* self._klat_session_token = response.json()["token"]
Store(t) ==
    /\ login[t].at = "store"
    /\ token' = login[t].got
    /\ Goto(t, "drop")
    /\ failed' = FALSE
    /\ UNCHANGED <<header, link, redial, notices, waiting, last, refused, crossed,
                   beat, now, faults>>

\* Mutant: the new token is stored and the link kept.
DisconnectNot(t) ==
    /\ login[t].at = "drop"
    /\ login' = [login EXCEPT ![t] = Idle]
    /\ UNCHANGED <<token, header, link, redial, notices, waiting, last, refused,
                   crossed, failed, beat, now, faults>>

\* self._sio.disconnect(): nothing dials again until the next emission.  A dial
\* that is under way, and the library's task, go on with the token they have.
Disconnect(t) ==
    /\ login[t].at = "drop"
    /\ login' = [login EXCEPT ![t] = Idle]
    /\ IF link = "up"
       THEN link' = "down" /\ Cut /\ UNCHANGED crossed
       ELSE crossed' = (crossed \/ header # token) /\ UNCHANGED <<link, notices, refused>>
    /\ UNCHANGED <<token, header, redial, waiting, last, failed, beat, now, faults>>

Tick ==
    /\ now < MaxTime
    /\ now' = now + 1
    /\ UNCHANGED <<token, header, link, redial, login, notices, waiting, last,
                   refused, crossed, failed, beat, faults>>

-----------------------------------------------------------------------------
Handler(t) == Notice(t) \/ LoginOk(t) \/ Store(t) \/ Disconnect(t)

Next ==
    \/ Emit \/ Redial \/ DialOk \/ DialFail \/ Drop \/ Tick
    \/ \E t \in Threads : Handler(t) \/ Fetch(t) \/ LoginFail(t)

\* Threads run, timers fire, the network answers.  No handler has to emit.
Spec == Init /\ [][Next]_vars /\ WF_vars(Redial) /\ WF_vars(DialOk)
             /\ \A t \in Threads : WF_vars(Handler(t))

-----------------------------------------------------------------------------
LoggingIn == \E t \in Threads : login[t] # Idle

(***************************************************************************)
(* Once the logins under way have ended, a connected observer talks under  *)
(* the token it keeps, because _login_to_klat_server stores the token      *)
(* before it disconnects.  The exceptions are a dial that was under way    *)
(* and a reconnection by the library, which keep the headers they began    *)
(* with.                                                                   *)
(***************************************************************************)
FreshHeader == link = "up" /\ ~LoggingIn => header = token \/ crossed

(***************************************************************************)
(* A refusal is never the end of it: while the link on which the server    *)
(* refused an event is up, the notice is under way or a thread logs in,    *)
(* unless a login failed.                                                  *)
(***************************************************************************)
RefusalAttended == refused => notices > 0 \/ LoggingIn \/ failed

(***************************************************************************)
(* An observer that goes on emitting gets out of an expired session: from  *)
(* some point on its guarded events are handled, however logins, dials and *)
(* drops of the link were interleaved and whichever token was stored last. *)
(***************************************************************************)
Recovers == []<><<Emit>>_vars => <>[](last # "refused")
=============================================================================
