---------------------------- MODULE ObserverLink ----------------------------
(***************************************************************************)
(* The Socket.IO channel of the klatchat observer                          *)
(* (services/klatchat_observer/controller.py): connect_sio, _sio_emit, the *)
(* queue of events that wait for the connection, the retry timers, and     *)
(* _login_to_klat_server, which drops the connection.                      *)
(*                                                                         *)
(* The methods run on several threads at once: MQ consumers and Socket.IO  *)
(* handlers (Workers), threading.Timer threads (TimerThreads) and the      *)
(* thread that runs the constructor (Main).  They share the queue, the     *)
(* flag sio_connecting and the client's flag connected without a lock, so  *)
(* every test of a shared variable is a step of its own.                   *)
(***************************************************************************)
EXTENDS Naturals, Sequences

CONSTANTS Workers,       \* threads that emit events
          TimerThreads,  \* threads that run Timer(5, connect_sio)
          Main,          \* thread of the constructor
          Events,        \* events the MQ services hand to the observer
          NoEvent,       \* "this thread holds no event"
          QueueCap,      \* maxsize of sio_queued_messages
          MaxFaults,     \* bound on drops, failed dials and failed emits
          MaxLogins      \* bound on successful calls of /auth/login

Threads == Workers \cup TimerThreads \cup {Main}

ASSUME ThreadsAssumption ==
    /\ Main \notin Workers \cup TimerThreads
    /\ Workers \cap TimerThreads = {}
    /\ NoEvent \notin Events

ASSUME BoundsAssumption ==
    /\ QueueCap \in Nat \ {0}
    /\ MaxFaults \in Nat
    /\ MaxLogins \in Nat

VARIABLES pc,            \* where each thread is in _sio_emit / connect_sio
          held,          \* the event a thread is emitting
          depth,         \* flush loops of connect_sio on the thread's stack
          queue,         \* sio_queued_messages
          connected,     \* _sio.connected
          connecting,    \* sio_connecting
          reconnecting,  \* the library's own reconnection task is running
          timers,        \* pending Timer(5, connect_sio)
          accepted,      \* events handed to _sio_emit by a handler
          sent,          \* events the server received, oldest first
          faults, logins

thread == <<pc, held, depth>>
link   == <<connected, connecting, reconnecting, timers>>
bounds == <<faults, logins>>
vars   == <<thread, queue, link, accepted, sent, bounds>>

Locations == {"idle", "emit", "send", "requeue", "park", "ask", "connect",
              "mark", "dial", "verdict", "flush", "get"}

TypeOK == /\ pc \in [Threads -> Locations]
          /\ held \in [Threads -> Events \cup {NoEvent}]
          /\ depth \in [Threads -> Nat]
          /\ queue \in Seq(Events)
          /\ Len(queue) <= QueueCap
          /\ connected \in BOOLEAN
          /\ connecting \in BOOLEAN
          /\ reconnecting \in BOOLEAN
          /\ timers \in Nat
          /\ accepted \in SUBSET Events
          /\ sent \in Seq(Events)
          /\ faults \in 0..MaxFaults
          /\ logins \in 0..MaxLogins

\* The constructor calls connect_sio before it registers the MQ consumers.
Init == /\ pc = [t \in Threads |-> IF t = Main THEN "connect" ELSE "idle"]
        /\ held = [t \in Threads |-> NoEvent]
        /\ depth = [t \in Threads |-> 0]
        /\ queue = <<>>
        /\ connected = FALSE
        /\ connecting = FALSE
        /\ reconnecting = FALSE
        /\ timers = 0
        /\ accepted = {}
        /\ sent = <<>>
        /\ faults = 0
        /\ logins = 0

-----------------------------------------------------------------------------
Goto(t, l) == pc' = [pc EXCEPT ![t] = l]

\* Where a call of _sio_emit or connect_sio returns to: the flush loop that
\* made it, or the handler.
Caller(t) == IF depth[t] = 0 THEN "idle" ELSE "flush"

Fault == faults < MaxFaults /\ faults' = faults + 1

(***************************************************************************)
(* _sio_emit                                                               *)
(***************************************************************************)

\* A handler calls _sio_emit with a new event.
Submit(t, e) ==
    /\ t \in Workers
    /\ pc[t] = "idle"
    /\ pc[Main] = "idle"
    /\ e \notin accepted
    /\ accepted' = accepted \cup {e}
    /\ held' = [held EXCEPT ![t] = e]
    /\ Goto(t, "emit")
    /\ UNCHANGED <<depth, queue, link, sent, bounds>>

\* if self._sio.connected
EmitCheck(t) ==
    /\ pc[t] = "emit"
    /\ Goto(t, IF connected THEN "send" ELSE "park")
    /\ UNCHANGED <<held, depth, queue, link, accepted, sent, bounds>>

\* self._sio.emit returns: the server has the event.
SendOk(t) ==
    /\ pc[t] = "send"
    /\ connected
    /\ sent' = Append(sent, held[t])
    /\ held' = [held EXCEPT ![t] = NoEvent]
    /\ Goto(t, Caller(t))
    /\ UNCHANGED <<depth, queue, link, accepted, bounds>>

\* Mutant: the server has the event although the emit raises.
SendFailAfterDelivery(t) ==
    /\ pc[t] = "send"
    /\ IF connected THEN Fault ELSE UNCHANGED faults
    /\ sent' = IF connected THEN Append(sent, held[t]) ELSE sent
    /\ connected' = FALSE
    /\ Goto(t, "requeue")
    /\ UNCHANGED <<held, depth, queue, connecting, reconnecting, timers,
                   accepted, logins>>

\* self._sio.emit raises SocketIOError; the handler calls disconnect.
SendFail(t) ==
    /\ pc[t] = "send"
    /\ IF connected THEN Fault ELSE UNCHANGED faults
    /\ connected' = FALSE
    /\ Goto(t, "requeue")
    /\ UNCHANGED <<held, depth, queue, connecting, reconnecting, timers,
                   accepted, sent, logins>>

\* sio_queued_messages.put: blocks while the queue is full.
Put(t) ==
    /\ Len(queue) < QueueCap
    /\ queue' = Append(queue, held[t])
    /\ held' = [held EXCEPT ![t] = NoEvent]

\* Mutant: the error path reconnects and forgets the event.
RequeueNothing(t) ==
    /\ pc[t] = "requeue"
    /\ held' = [held EXCEPT ![t] = NoEvent]
    /\ Goto(t, "connect")
    /\ UNCHANGED <<depth, queue, link, accepted, sent, bounds>>

Requeue(t) ==
    /\ pc[t] = "requeue"
    /\ Put(t)
    /\ Goto(t, "connect")
    /\ UNCHANGED <<depth, link, accepted, sent, bounds>>

Park(t) ==
    /\ pc[t] = "park"
    /\ Put(t)
    /\ Goto(t, "ask")
    /\ UNCHANGED <<depth, link, accepted, sent, bounds>>

\* if not self.sio_connecting: self.connect_sio()
Ask(t) ==
    /\ pc[t] = "ask"
    /\ Goto(t, IF connecting THEN Caller(t) ELSE "connect")
    /\ UNCHANGED <<held, depth, queue, link, accepted, sent, bounds>>

(***************************************************************************)
(* connect_sio                                                             *)
(***************************************************************************)

\* if self.sio_connecting or self._sio.connected: return
ConnectCheck(t) ==
    /\ pc[t] = "connect"
    /\ Goto(t, IF connecting \/ connected THEN Caller(t) ELSE "mark")
    /\ UNCHANGED <<held, depth, queue, link, accepted, sent, bounds>>

\* self.sio_connecting = True
Mark(t) ==
    /\ pc[t] = "mark"
    /\ connecting' = TRUE
    /\ Goto(t, "dial")
    /\ UNCHANGED <<held, depth, queue, connected, reconnecting, timers,
                   accepted, sent, bounds>>

\* self._sio.connect returns; finally: self.sio_connecting = False
DialOk(t) ==
    /\ pc[t] = "dial"
    /\ connected' = TRUE
    /\ connecting' = FALSE
    /\ Goto(t, "verdict")
    /\ UNCHANGED <<held, depth, queue, reconnecting, timers,
                   accepted, sent, bounds>>

\* Mutant: sio_connecting is not reset when connect raises (no finally).
DialFailKeepsFlag(t) ==
    /\ pc[t] = "dial"
    /\ IF connected THEN UNCHANGED faults ELSE Fault
    /\ Goto(t, "verdict")
    /\ UNCHANGED <<held, depth, queue, connected, connecting, reconnecting,
                   timers, accepted, sent, logins>>

\* self._sio.connect raises SocketIOError: the server does not answer, or
\* another thread has connected the client meanwhile.
DialFail(t) ==
    /\ pc[t] = "dial"
    /\ IF connected THEN UNCHANGED faults ELSE Fault
    /\ connecting' = FALSE
    /\ Goto(t, "verdict")
    /\ UNCHANGED <<held, depth, queue, connected, reconnecting, timers,
                   accepted, sent, logins>>

\* Mutant: a failed dial starts no timer.
VerdictWithoutRetry(t) ==
    /\ pc[t] = "verdict"
    /\ depth' = [depth EXCEPT ![t] = IF connected THEN @ + 1 ELSE @]
    /\ Goto(t, IF connected THEN "flush" ELSE Caller(t))
    /\ UNCHANGED <<held, queue, link, accepted, sent, bounds>>

\* if not self._sio.connected: start a retry timer, else flush the queue
Verdict(t) ==
    /\ pc[t] = "verdict"
    /\ \/ /\ ~connected
          /\ timers' = timers + 1
          /\ Goto(t, Caller(t))
          /\ UNCHANGED depth
       \/ /\ connected
          /\ depth' = [depth EXCEPT ![t] = @ + 1]
          /\ Goto(t, "flush")
          /\ UNCHANGED timers
    /\ UNCHANGED <<held, queue, connected, connecting, reconnecting,
                   accepted, sent, bounds>>

\* while not self.sio_queued_messages.empty()
FlushCheck(t) ==
    /\ pc[t] = "flush"
    /\ \/ /\ queue = <<>>
          /\ depth' = [depth EXCEPT ![t] = @ - 1]
          /\ Goto(t, IF depth[t] = 1 THEN "idle" ELSE "flush")
       \/ /\ queue # <<>>
          /\ Goto(t, "get")
          /\ UNCHANGED depth
    /\ UNCHANGED <<held, queue, link, accepted, sent, bounds>>

\* Mutant: the flush loop reads the head of the queue and leaves it there.
GetPeek(t) ==
    /\ pc[t] = "get"
    /\ queue # <<>>
    /\ held' = [held EXCEPT ![t] = Head(queue)]
    /\ Goto(t, "emit")
    /\ UNCHANGED <<depth, queue, link, accepted, sent, bounds>>

\* self._sio_emit(**self.sio_queued_messages.get()): get blocks while the
\* queue is empty.
Get(t) ==
    /\ pc[t] = "get"
    /\ queue # <<>>
    /\ held' = [held EXCEPT ![t] = Head(queue)]
    /\ queue' = Tail(queue)
    /\ Goto(t, "emit")
    /\ UNCHANGED <<depth, link, accepted, sent, bounds>>

TimerFire(t) ==
    /\ t \in TimerThreads
    /\ pc[t] = "idle"
    /\ timers > 0
    /\ timers' = timers - 1
    /\ Goto(t, "connect")
    /\ UNCHANGED <<held, depth, queue, connected, connecting, reconnecting,
                   accepted, sent, bounds>>

(***************************************************************************)
(* The connection, as python-socketio's Client (reconnection on by         *)
(* default) and the handlers that log in again see it.                     *)
(***************************************************************************)

\* The transport breaks; the library starts its own reconnection task.
Drop ==
    /\ connected
    /\ Fault
    /\ connected' = FALSE
    /\ reconnecting' = TRUE
    /\ UNCHANGED <<thread, queue, connecting, timers, accepted, sent, logins>>

\* That task connects the client.  It does not run connect_sio.
LibReconnect ==
    /\ reconnecting
    /\ ~connected
    /\ connected' = TRUE
    /\ reconnecting' = FALSE
    /\ UNCHANGED <<thread, queue, connecting, timers, accepted, sent, bounds>>

\* _login_to_klat_server on a Socket.IO handler or MQ thread: the new token
\* is stored and the client disconnected.
Login(t) ==
    /\ t \in Workers
    /\ pc[t] = "idle"
    /\ logins < MaxLogins
    /\ logins' = logins + 1
    /\ connected' = FALSE
    /\ UNCHANGED <<thread, queue, connecting, reconnecting, timers,
                   accepted, sent, faults>>

-----------------------------------------------------------------------------
\* A thread inside _sio_emit or connect_sio takes its next step.
Step(t) == \/ EmitCheck(t) \/ SendOk(t) \/ SendFail(t) \/ Requeue(t)
           \/ Park(t) \/ Ask(t) \/ ConnectCheck(t) \/ Mark(t)
           \/ DialOk(t) \/ DialFail(t) \/ Verdict(t) \/ FlushCheck(t)
           \/ Get(t)

Next == \/ \E t \in Threads : \/ Step(t)
                              \/ TimerFire(t)
                              \/ Login(t)
                              \/ \E e \in Events : Submit(t, e)
        \/ Drop
        \/ LibReconnect

Spec == Init /\ [][Next]_vars

(***************************************************************************)
(* Threads are scheduled by the interpreter, timers expire and the library *)
(* retries for ever.  No handler is obliged to emit, log in or fail.       *)
(***************************************************************************)
Fairness == /\ \A t \in Threads : WF_vars(Step(t))
            /\ WF_vars(\E t \in TimerThreads : TimerFire(t))
            /\ WF_vars(LibReconnect)

FairSpec == Spec /\ Fairness

-----------------------------------------------------------------------------
Places(e) == {t \in Threads : held[t] = e}
Waits(e) == {i \in 1..Len(queue) : queue[i] = e}
Arrived(e) == {i \in 1..Len(sent) : sent[i] = e}

(***************************************************************************)
(* Nothing handed to _sio_emit is dropped by the error path, the queue or  *)
(* the flush loops: it is held by a thread inside _sio_emit, waits in the  *)
(* queue, or has reached the server.                                       *)
(***************************************************************************)
NothingLost ==
    \A e \in Events : e \in accepted <=>
                        Places(e) \cup Waits(e) \cup Arrived(e) # {}

(***************************************************************************)
(* No event is in two hands: requeueing after a failed emit, two flush     *)
(* loops running at once and a retry on a timer never copy an event, so    *)
(* the server cannot receive it twice.                                     *)
(***************************************************************************)
NothingCopied ==
    /\ \A t, u \in Threads : held[t] = held[u] => t = u \/ held[t] = NoEvent
    /\ \A i, j \in 1..Len(queue) : queue[i] = queue[j] => i = j
    /\ \A i, j \in 1..Len(sent) : sent[i] = sent[j] => i = j
    /\ \A t \in Threads, i \in 1..Len(queue) : held[t] # queue[i]
    /\ \A t \in Threads, i \in 1..Len(sent) : held[t] # sent[i]
    /\ \A i \in 1..Len(queue), j \in 1..Len(sent) : queue[i] # sent[j]

(***************************************************************************)
(* While the connection is down, somebody is going to dial: the library, a *)
(* pending retry timer, or a thread on its way through connect_sio.  Only  *)
(* the disconnect in _login_to_klat_server breaks this, hence the          *)
(* condition.                                                              *)
(***************************************************************************)
LinkAttended ==
    (~connected /\ logins = 0) =>
        \/ reconnecting
        \/ timers > 0
        \/ \E t \in Threads :
             pc[t] \in {"requeue", "connect", "mark", "dial", "verdict"}

(***************************************************************************)
(* The channel implements the at-most-once channel of EventChannel.        *)
(***************************************************************************)
Channel == INSTANCE EventChannel
ImplementsChannel == Channel!Spec

(***************************************************************************)
(* Once faults stop and nobody logs in again, the observer ends up         *)
(* connected for good, whichever threads were dialing or failing when the  *)
(* connection broke (docstring of connect_sio: "ensuring persistent        *)
(* connection").                                                           *)
(***************************************************************************)
Persistent == <>[]connected

(***************************************************************************)
(* What comments and docstrings of the controller say of the channel, and  *)
(* the code does not keep.                                                 *)
(***************************************************************************)

\* _sio_emit, "Emit events to the Socket.IO server, ensuring reliability":
\* an event handed over reaches the server.
Reliable == \A e \in Events : e \in accepted ~> Arrived(e) # {}
=============================================================================
