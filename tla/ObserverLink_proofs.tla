------------------------- MODULE ObserverLink_proofs -------------------------
(***************************************************************************)
(* Theorems about the observer's channel, for any threads, events, queue   *)
(* size and bounds.                                                        *)
(***************************************************************************)
EXTENDS ObserverLink, SequenceTheorems, TLAPS

\* A thread holds an event exactly while it is inside _sio_emit before the
\* event is sent or queued.
HoldsWhileEmitting ==
    \A t \in Threads : held[t] # NoEvent <=>
                       pc[t] \in {"emit", "send", "requeue", "park"}

\* A thread in the flush loop has a frame of connect_sio to return from.
FlushHasFrame == \A t \in Threads : pc[t] \in {"flush", "get"} => depth[t] >= 1

\* sio_connecting is only set while some thread dials.
FlagMeansDialing == connecting => \E t \in Threads : pc[t] = "dial"

TypeInv == TypeOK /\ HoldsWhileEmitting /\ FlushHasFrame

\* Whether the thread, the queue or the server has e, without set builders.
Somewhere(e) == \/ \E t \in Threads : held[t] = e
                \/ \E i \in 1..Len(queue) : queue[i] = e
                \/ \E i \in 1..Len(sent) : sent[i] = e

AccountInv == /\ TypeInv
              /\ NothingCopied
              /\ \A e \in Events : e \in accepted <=> Somewhere(e)

AttendInv == TypeInv /\ FlagMeansDialing /\ LinkAttended

\* The actions of a thread inside _sio_emit and connect_sio that move no event.
Quiet(t) == \/ EmitCheck(t) \/ SendFail(t) \/ Ask(t) \/ ConnectCheck(t)
            \/ Mark(t) \/ DialOk(t) \/ DialFail(t) \/ Verdict(t)
            \/ FlushCheck(t) \/ TimerFire(t) \/ Login(t) \/ Drop
            \/ LibReconnect

LEMMA QuietMovesNothing ==
    ASSUME NEW t \in Threads, Quiet(t)
    PROVE  UNCHANGED <<held, queue, accepted, sent>>
BY DEF Quiet, EmitCheck, SendFail, Ask, ConnectCheck, Mark, DialOk, DialFail,
       Verdict, FlushCheck, TimerFire, Login, Drop, LibReconnect, thread

\* Every step is a move of an event, a quiet step of some thread or a stutter.
LEMMA NextCases ==
    ASSUME [Next]_vars
    PROVE  \/ \E t \in Threads, e \in Events : Submit(t, e)
           \/ \E t \in Threads : SendOk(t)
           \/ \E t \in Threads : Requeue(t) \/ Park(t)
           \/ \E t \in Threads : Get(t)
           \/ \E t \in Threads : Quiet(t)
           \/ UNCHANGED vars
<1>1. Main \in Threads
  BY DEF Threads
<1> QED
  BY <1>1 DEF Next, Step, Quiet

-----------------------------------------------------------------------------
LEMMA TypeInit == Init => TypeInv
<1> SUFFICES ASSUME Init PROVE TypeInv
  OBVIOUS
<1>1. TypeOK
  <2>1. pc \in [Threads -> Locations] /\ held \in [Threads -> Events \cup {NoEvent}]
    BY DEF Init, Locations
  <2>2. queue \in Seq(Events) /\ Len(queue) <= QueueCap /\ sent \in Seq(Events)
    BY BoundsAssumption DEF Init
  <2> QED
    <3>1. depth \in [Threads -> Nat]
      BY DEF Init
    <3>2. timers \in Nat /\ faults \in 0..MaxFaults /\ logins \in 0..MaxLogins
      BY BoundsAssumption DEF Init
    <3>3. accepted \in SUBSET Events
      BY DEF Init
    <3> QED
      BY <2>1, <2>2, <3>1, <3>2, <3>3 DEF Init, TypeOK
<1>2. HoldsWhileEmitting /\ FlushHasFrame
  BY ThreadsAssumption DEF Init, HoldsWhileEmitting, FlushHasFrame, Threads
<1> QED
  BY <1>1, <1>2 DEF TypeInv

LEMMA TypeStep == TypeInv /\ [Next]_vars => TypeInv'
<1> SUFFICES ASSUME TypeInv, [Next]_vars PROVE TypeInv'
  OBVIOUS
<1> USE DEF TypeInv, TypeOK, HoldsWhileEmitting, FlushHasFrame
<1>0. /\ NoEvent \notin Events
      /\ QueueCap \in Nat /\ MaxFaults \in Nat /\ MaxLogins \in Nat
  BY ThreadsAssumption, BoundsAssumption
<1>1. ASSUME NEW t \in Threads, NEW e \in Events, Submit(t, e) PROVE TypeInv'
  BY <1>0, <1>1 DEF Submit, Goto, Locations, link, bounds
<1>2. ASSUME NEW t \in Threads, SendOk(t) PROVE TypeInv'
  <2>1. held[t] \in Events
    BY <1>2 DEF SendOk
  <2>2. sent' \in Seq(Events)
    BY <2>1, <1>2 DEF SendOk
  <2> QED
    BY <2>2, <1>0, <1>2 DEF SendOk, Goto, Caller, Locations, link, bounds
<1>3. ASSUME NEW t \in Threads, Requeue(t) \/ Park(t) PROVE TypeInv'
  <2>1. held[t] \in Events
    BY <1>3 DEF Requeue, Park
  <2>2. queue' \in Seq(Events) /\ Len(queue') <= QueueCap
    <3>1. Put(t)
      BY <1>3 DEF Requeue, Park
    <3>2. /\ queue' = Append(queue, held[t]) /\ Len(queue) < QueueCap
          /\ queue \in Seq(Events)
      BY <3>1 DEF Put
    <3> QED
      BY <3>2, <2>1, <1>0, AppendProperties, LenProperties DEF TypeInv, TypeOK
  <2>3. UNCHANGED <<depth, link, accepted, sent, bounds>>
    BY <1>3 DEF Requeue, Park
  <2>4. /\ pc' \in [Threads -> Locations]
        /\ held' \in [Threads -> Events \cup {NoEvent}]
    BY <1>3 DEF Requeue, Park, Put, Goto, Locations
  <2>5. HoldsWhileEmitting' /\ FlushHasFrame'
    BY <1>3, <2>3 DEF Requeue, Park, Put, Goto
  <2> QED
    BY <2>2, <2>3, <2>4, <2>5 DEF link, bounds
<1>4. ASSUME NEW t \in Threads, Get(t) PROVE TypeInv'
  <2>1. /\ Head(queue) \in Events /\ queue' \in Seq(Events)
        /\ Len(queue') <= QueueCap
    BY <1>0, <1>4 DEF Get
  <2> QED
    BY <2>1, <1>0, <1>4 DEF Get, Goto, Locations, link, bounds
<1>5. ASSUME NEW t \in Threads, Quiet(t) PROVE TypeInv'
  <2>1. UNCHANGED <<held, queue, accepted, sent>>
    BY <1>5, QuietMovesNothing
  <2>2. \/ UNCHANGED <<pc, depth>>
        \/ /\ pc[t] \in {"emit", "send"}
           /\ \E l \in {"send", "park", "requeue"} : Goto(t, l)
           /\ UNCHANGED depth
        \/ /\ pc[t] \notin {"emit", "send", "requeue", "park"}
           /\ \E l \in {"idle", "connect", "mark", "dial", "verdict"} : Goto(t, l)
           /\ depth' \in [Threads -> Nat]
           /\ \A u \in Threads \ {t} : depth'[u] = depth[u]
        \/ /\ pc[t] \notin {"emit", "send", "requeue", "park"}
           /\ \E l \in {"flush", "get"} : Goto(t, l)
           /\ depth' \in [Threads -> Nat]
           /\ depth'[t] >= 1
           /\ \A u \in Threads \ {t} : depth'[u] = depth[u]
    <3>1. ASSUME EmitCheck(t) \/ SendFail(t) PROVE <2>2
      BY <3>1 DEF EmitCheck, SendFail
    <3>2. ASSUME Ask(t) \/ ConnectCheck(t) PROVE <2>2
      BY <3>2 DEF Ask, ConnectCheck, Caller
    <3>3. ASSUME Mark(t) \/ DialOk(t) \/ DialFail(t) \/ TimerFire(t) PROVE <2>2
      BY <3>3 DEF Mark, DialOk, DialFail, TimerFire
    <3>4. ASSUME Verdict(t) PROVE <2>2
      BY <3>4 DEF Verdict, Caller
    <3>5. ASSUME FlushCheck(t) PROVE <2>2
      BY <3>5 DEF FlushCheck
    <3>6. ASSUME Login(t) \/ Drop \/ LibReconnect PROVE <2>2
      BY <3>6 DEF Login, Drop, LibReconnect, thread
    <3> QED
      BY <1>5, <3>1, <3>2, <3>3, <3>4, <3>5, <3>6 DEF Quiet
  <2>3. /\ connected' \in BOOLEAN /\ connecting' \in BOOLEAN
        /\ reconnecting' \in BOOLEAN /\ timers' \in Nat
        /\ faults' \in 0..MaxFaults /\ logins' \in 0..MaxLogins
    <3>1. ASSUME EmitCheck(t) \/ Ask(t) \/ ConnectCheck(t) \/ FlushCheck(t)
          PROVE  <2>3
      BY <3>1 DEF EmitCheck, Ask, ConnectCheck, FlushCheck, link, bounds
    <3>2. ASSUME SendFail(t) \/ DialFail(t) \/ Drop PROVE <2>3
      <4>1. faults' = faults \/ (faults < MaxFaults /\ faults' = faults + 1)
        BY <3>2 DEF SendFail, DialFail, Drop, Fault
      <4>2. faults' \in 0..MaxFaults
        BY <1>0, <4>1
      <4> QED
        BY <4>2, <3>2 DEF SendFail, DialFail, Drop
    <3>3. ASSUME Mark(t) \/ DialOk(t) \/ LibReconnect PROVE <2>3
      BY <3>3 DEF Mark, DialOk, LibReconnect, bounds
    <3>4. ASSUME Verdict(t) \/ TimerFire(t) PROVE <2>3
      <4>1. /\ UNCHANGED <<connected, connecting, reconnecting, faults, logins>>
            /\ timers' = timers \/ timers' = timers + 1
               \/ (timers > 0 /\ timers' = timers - 1)
        BY <3>4 DEF Verdict, TimerFire, bounds
      <4> QED
        BY <4>1
    <3>5. ASSUME Login(t) PROVE <2>3
      <4>1. logins < MaxLogins /\ logins' = logins + 1 /\ logins \in 0..MaxLogins
        BY <3>5 DEF Login
      <4>2. logins' \in 0..MaxLogins
        BY <1>0, <4>1
      <4> QED
        BY <4>2, <3>5 DEF Login
    <3> QED
      BY <1>5, <3>1, <3>2, <3>3, <3>4, <3>5 DEF Quiet
  <2>4. /\ pc' \in [Threads -> Locations] /\ depth' \in [Threads -> Nat]
    BY <2>2 DEF Goto, Locations
  <2>5. HoldsWhileEmitting' /\ FlushHasFrame'
    <3>1. UNCHANGED held
      BY <2>1
    <3>2. ASSUME NEW u \in Threads
          PROVE  /\ held'[u] # NoEvent <=>
                       pc'[u] \in {"emit", "send", "requeue", "park"}
                 /\ pc'[u] \in {"flush", "get"} => depth'[u] >= 1
      <4>1. CASE u = t
        BY <2>2, <3>1, <4>1 DEF Goto
      <4>2. CASE u # t
        BY <2>2, <3>1, <4>2 DEF Goto
      <4> QED
        BY <4>1, <4>2
    <3> QED
      BY <3>2
  <2> QED
    BY <2>1, <2>3, <2>4, <2>5
<1>6. ASSUME UNCHANGED vars PROVE TypeInv'
  BY <1>6 DEF vars, thread, link, bounds
<1> QED
  BY <1>1, <1>2, <1>3, <1>4, <1>5, <1>6, NextCases

(***************************************************************************)
(* Every variable keeps its type; in particular the queue never exceeds    *)
(* its maxsize and the stack of flush loops never underflows.              *)
(***************************************************************************)
THEOREM TypeCorrect == Spec => []TypeOK
<1>1. TypeInv => TypeOK
  BY DEF TypeInv
<1> QED
  BY TypeInit, TypeStep, <1>1, PTL DEF Spec

-----------------------------------------------------------------------------
\* NothingCopied as a relation of three values, so that lemmas can name the
\* values before and after a step.
Apart(h, q, s) ==
    /\ \A t, u \in Threads : h[t] = h[u] => t = u \/ h[t] = NoEvent
    /\ \A i, j \in 1..Len(q) : q[i] = q[j] => i = j
    /\ \A i, j \in 1..Len(s) : s[i] = s[j] => i = j
    /\ \A t \in Threads, i \in 1..Len(q) : h[t] # q[i]
    /\ \A t \in Threads, i \in 1..Len(s) : h[t] # s[i]
    /\ \A i \in 1..Len(q), j \in 1..Len(s) : q[i] # s[j]

Hands == [Threads -> Events \cup {NoEvent}]

LEMMA ApartSymmetric ==
    ASSUME NEW h, NEW q, NEW s, Apart(h, q, s)
    PROVE  Apart(h, s, q)
BY DEF Apart

\* A thread's event moves to the end of a sequence.
LEMMA ApartAppend ==
    ASSUME NEW h \in Hands, NEW q \in Seq(Events), NEW s \in Seq(Events),
           Apart(h, q, s), NEW t \in Threads, h[t] # NoEvent
    PROVE  Apart([h EXCEPT ![t] = NoEvent], Append(q, h[t]), s)
<1> DEFINE g == [h EXCEPT ![t] = NoEvent]
           r == Append(q, h[t])
<1>0. /\ NoEvent \notin Events /\ h[t] \in Events
      /\ g \in Hands /\ g[t] = NoEvent
      /\ \A u \in Threads \ {t} : g[u] = h[u]
  BY ThreadsAssumption DEF Hands
<1>1. /\ r \in Seq(Events) /\ Len(r) = Len(q) + 1 /\ Len(q) \in Nat
      /\ r[Len(q) + 1] = h[t]
      /\ \A i \in 1..Len(q) : r[i] = q[i]
  BY <1>0, AppendProperties, LenProperties
<1>2. /\ \A i \in 1..Len(r) : r[i] \in Events
      /\ \A i \in 1..Len(s) : s[i] \in Events
  BY <1>1
<1> HIDE DEF g, r
<1>3. \A u, v \in Threads : g[u] = g[v] => u = v \/ g[u] = NoEvent
  BY <1>0 DEF Apart
<1>4. \A i, j \in 1..Len(r) : r[i] = r[j] => i = j
  BY <1>1 DEF Apart
<1>5. ASSUME NEW u \in Threads, NEW i \in 1..Len(r) PROVE g[u] # r[i]
  <2>1. CASE u = t
    BY <1>0, <1>2, <2>1
  <2>2. CASE u # t /\ i = Len(q) + 1
    BY <1>0, <1>1, <2>2 DEF Apart
  <2>3. CASE u # t /\ i \in 1..Len(q)
    BY <1>0, <1>1, <2>3 DEF Apart
  <2> QED
    BY <1>1, <2>1, <2>2, <2>3
<1>6. ASSUME NEW u \in Threads, NEW i \in 1..Len(s) PROVE g[u] # s[i]
  BY <1>0, <1>2 DEF Apart
<1>7. \A i \in 1..Len(r), j \in 1..Len(s) : r[i] # s[j]
  BY <1>1 DEF Apart
<1>8. \A i, j \in 1..Len(s) : s[i] = s[j] => i = j
  BY DEF Apart
<1>9. Apart(g, r, s)
  BY <1>3, <1>4, <1>5, <1>6, <1>7, <1>8 DEF Apart
<1> QED
  BY <1>9 DEF g, r

\* The head of a sequence moves to a thread that holds nothing.
LEMMA ApartTail ==
    ASSUME NEW h \in Hands, NEW q \in Seq(Events), NEW s \in Seq(Events),
           Apart(h, q, s), NEW t \in Threads, h[t] = NoEvent, q # <<>>
    PROVE  Apart([h EXCEPT ![t] = Head(q)], Tail(q), s)
<1> DEFINE g == [h EXCEPT ![t] = Head(q)]
           r == Tail(q)
<1>0. /\ g[t] = q[1] /\ \A u \in Threads \ {t} : g[u] = h[u]
  BY DEF Hands
<1>1. /\ Len(r) = Len(q) - 1 /\ Len(q) \in Nat /\ Len(q) >= 1
      /\ \A i \in 1..Len(r) : r[i] = q[i + 1]
  OBVIOUS
<1>2. \A i \in 1..Len(r) : i + 1 \in 1..Len(q) /\ i + 1 # 1
  BY <1>1
<1> HIDE DEF g, r
<1>3. ASSUME NEW u \in Threads, NEW v \in Threads, g[u] = g[v]
      PROVE  u = v \/ g[u] = NoEvent
  <2>1. \A w \in Threads : h[w] # q[1]
    BY <1>1 DEF Apart
  <2> QED
    BY <1>0, <1>3, <2>1 DEF Apart
<1>4. \A i, j \in 1..Len(r) : r[i] = r[j] => i = j
  BY <1>1, <1>2 DEF Apart
<1>5. ASSUME NEW u \in Threads, NEW i \in 1..Len(r) PROVE g[u] # r[i]
  <2>1. CASE u = t
    <3>1. q[i + 1] # q[1]
      BY <1>1, <1>2 DEF Apart
    <3> QED
      BY <1>0, <1>1, <2>1, <3>1
  <2>2. CASE u # t
    BY <1>0, <1>1, <1>2, <2>2 DEF Apart
  <2> QED
    BY <2>1, <2>2
<1>6. ASSUME NEW u \in Threads, NEW i \in 1..Len(s) PROVE g[u] # s[i]
  BY <1>0, <1>1 DEF Apart
<1>7. \A i \in 1..Len(r), j \in 1..Len(s) : r[i] # s[j]
  BY <1>1, <1>2 DEF Apart
<1>8. \A i, j \in 1..Len(s) : s[i] = s[j] => i = j
  BY DEF Apart
<1>9. Apart(g, r, s)
  BY <1>3, <1>4, <1>5, <1>6, <1>7, <1>8 DEF Apart
<1> QED
  BY <1>9 DEF g, r

-----------------------------------------------------------------------------
LEMMA AccountInit == Init => AccountInv
<1> SUFFICES ASSUME Init PROVE AccountInv
  OBVIOUS
<1>1. TypeInv
  BY TypeInit
<1>2. \A t \in Threads : held[t] = NoEvent
  BY DEF Init
<1>3. Len(queue) = 0 /\ Len(sent) = 0 /\ accepted = {}
  BY DEF Init
<1>4. NothingCopied
  BY <1>2, <1>3 DEF NothingCopied
<1> QED
  BY <1>1, <1>2, <1>3, <1>4, ThreadsAssumption DEF AccountInv, Somewhere

\* A step moves at most one event, from one place to the next.
LEMMA AccountStep == AccountInv /\ [Next]_vars => AccountInv'
<1> SUFFICES ASSUME AccountInv, [Next]_vars PROVE AccountInv'
  OBVIOUS
<1>0. /\ TypeInv' /\ TypeInv /\ held \in Hands
      /\ queue \in Seq(Events) /\ sent \in Seq(Events)
      /\ NoEvent \notin Events /\ Apart(held, queue, sent)
  BY TypeStep, ThreadsAssumption
  DEF AccountInv, TypeInv, TypeOK, Hands, NothingCopied, Apart
<1>a. Apart(held, queue, sent)' <=> NothingCopied'
  BY DEF Apart, NothingCopied
<1>1. ASSUME NEW t \in Threads, NEW e \in Events, Submit(t, e)
      PROVE  AccountInv'
  <2>1. /\ held' = [held EXCEPT ![t] = e] /\ accepted' = accepted \cup {e}
        /\ queue' = queue /\ sent' = sent
        /\ ~Somewhere(e) /\ held[t] = NoEvent
    BY <1>0, <1>1 DEF Submit, AccountInv, TypeInv, HoldsWhileEmitting
  <2>2. NothingCopied'
    BY <1>0, <2>1 DEF NothingCopied, AccountInv, Somewhere, Hands
  <2>3. \A d \in Events : d \in accepted' <=> Somewhere(d)'
    BY <1>0, <2>1 DEF AccountInv, Somewhere, Hands
  <2> QED
    BY <1>0, <2>2, <2>3 DEF AccountInv
<1>2. ASSUME NEW t \in Threads, SendOk(t) PROVE AccountInv'
  <2>1. /\ held' = [held EXCEPT ![t] = NoEvent] /\ accepted' = accepted
        /\ queue' = queue /\ sent' = Append(sent, held[t])
        /\ held[t] # NoEvent
    BY <1>0, <1>2 DEF SendOk, TypeInv, HoldsWhileEmitting
  <2>2. Apart(held, sent, queue)
    BY <1>0, ApartSymmetric
  <2>3. Apart(held', sent', queue')
    BY <1>0, <2>1, <2>2, ApartAppend
  <2>4. NothingCopied'
    BY <1>a, <2>3, ApartSymmetric
  <2>5. /\ Len(sent') = Len(sent) + 1 /\ Len(sent) \in Nat
        /\ \A i \in 1..Len(sent) : sent'[i] = sent[i]
        /\ sent'[Len(sent) + 1] = held[t]
    BY <1>0, <2>1, AppendProperties, LenProperties DEF Hands
  <2>6. \A d \in Events : d \in accepted' <=> Somewhere(d)'
    BY <1>0, <2>1, <2>5 DEF AccountInv, Somewhere, Hands
  <2> QED
    BY <1>0, <2>4, <2>6 DEF AccountInv
<1>3. ASSUME NEW t \in Threads, Requeue(t) \/ Park(t) PROVE AccountInv'
  <2>1. /\ held' = [held EXCEPT ![t] = NoEvent] /\ accepted' = accepted
        /\ queue' = Append(queue, held[t]) /\ sent' = sent
        /\ held[t] # NoEvent
    BY <1>0, <1>3 DEF Requeue, Park, Put, TypeInv, HoldsWhileEmitting
  <2>2. NothingCopied'
    BY <1>0, <1>a, <2>1, ApartAppend
  <2>3. /\ Len(queue') = Len(queue) + 1 /\ Len(queue) \in Nat
        /\ \A i \in 1..Len(queue) : queue'[i] = queue[i]
        /\ queue'[Len(queue) + 1] = held[t]
    BY <1>0, <2>1, AppendProperties, LenProperties DEF Hands
  <2>4. \A d \in Events : d \in accepted' <=> Somewhere(d)'
    BY <1>0, <2>1, <2>3 DEF AccountInv, Somewhere, Hands
  <2> QED
    BY <1>0, <2>2, <2>4 DEF AccountInv
<1>4. ASSUME NEW t \in Threads, Get(t) PROVE AccountInv'
  <2>1. /\ held' = [held EXCEPT ![t] = Head(queue)] /\ accepted' = accepted
        /\ queue' = Tail(queue) /\ sent' = sent /\ queue # <<>>
        /\ held[t] = NoEvent
    BY <1>0, <1>4 DEF Get, TypeInv, HoldsWhileEmitting
  <2>2. NothingCopied'
    BY <1>0, <1>a, <2>1, ApartTail
  <2>3. /\ Len(queue') = Len(queue) - 1 /\ Len(queue) >= 1
        /\ \A i \in 1..Len(queue') : queue'[i] = queue[i + 1]
        /\ Head(queue) = queue[1] /\ queue[1] \in Events
        /\ Len(queue) \in Nat
    BY <1>0, <2>1
  <2>4. ASSUME NEW i \in 2..Len(queue)
        PROVE  \E j \in 1..Len(queue') : queue'[j] = queue[i]
    <3>1. i - 1 \in 1..Len(queue') /\ queue'[i - 1] = queue[(i - 1) + 1]
      BY <2>3
    <3> QED
      BY <3>1
  <2>5. ASSUME NEW d \in Events, Somewhere(d) PROVE Somewhere(d)'
    <3>1. CASE \E u \in Threads : held[u] = d
      BY <1>0, <2>1, <3>1 DEF Somewhere, Hands
    <3>2. CASE d = queue[1]
      BY <1>0, <2>1, <2>3, <3>2 DEF Somewhere, Hands
    <3>3. CASE \E i \in 2..Len(queue) : queue[i] = d
      BY <2>4, <3>3 DEF Somewhere
    <3>4. CASE \E i \in 1..Len(sent) : sent[i] = d
      BY <2>1, <3>4 DEF Somewhere
    <3> QED
      BY <2>3, <2>5, <3>1, <3>2, <3>3, <3>4 DEF Somewhere
  <2>6. ASSUME NEW d \in Events, Somewhere(d)' PROVE Somewhere(d)
    <3>1. CASE \E u \in Threads : held'[u] = d
      BY <1>0, <2>1, <2>3, <3>1 DEF Somewhere, Hands
    <3>2. CASE \E i \in 1..Len(queue') : queue'[i] = d
      BY <2>3, <3>2 DEF Somewhere
    <3>3. CASE \E i \in 1..Len(sent) : sent[i] = d
      BY <3>3 DEF Somewhere
    <3> QED
      BY <2>1, <2>6, <3>1, <3>2, <3>3 DEF Somewhere
  <2> QED
    BY <1>0, <2>1, <2>2, <2>5, <2>6 DEF AccountInv
<1>5. ASSUME NEW t \in Threads, Quiet(t) PROVE AccountInv'
  <2>1. UNCHANGED <<held, queue, accepted, sent>>
    BY <1>5, QuietMovesNothing
  <2> QED
    BY <2>1, <1>0 DEF AccountInv, NothingCopied, Somewhere
<1>6. ASSUME UNCHANGED vars PROVE AccountInv'
  BY <1>0, <1>6 DEF vars, thread, AccountInv, NothingCopied, Somewhere
<1> QED
  BY <1>1, <1>2, <1>3, <1>4, <1>5, <1>6, NextCases

(***************************************************************************)
(* No interleaving of emits, failures, requeues, flush loops and timers    *)
(* puts an event in two places: the server receives it at most once.       *)
(***************************************************************************)
THEOREM NoCopies == Spec => []NothingCopied
<1>1. AccountInv => NothingCopied
  BY DEF AccountInv
<1> QED
  BY AccountInit, AccountStep, <1>1, PTL DEF Spec

(***************************************************************************)
(* An event handed to _sio_emit is held by a thread, queued or delivered,  *)
(* and nothing else is.                                                    *)
(***************************************************************************)
THEOREM NoLosses == Spec => []NothingLost
<1>1. AccountInv => NothingLost
  <2>1. \A e \in Events : Somewhere(e) <=> Places(e) \cup Waits(e) \cup Arrived(e) # {}
    BY DEF Somewhere, Places, Waits, Arrived
  <2> QED
    BY <2>1 DEF AccountInv, NothingLost
<1> QED
  BY AccountInit, AccountStep, <1>1, PTL DEF Spec

-----------------------------------------------------------------------------
(***************************************************************************)
(* The channel implements EventChannel: submitting an event is Submit, the *)
(* emit that succeeds is Deliver, and every other step is a stutter.       *)
(***************************************************************************)
THEOREM Refinement == Spec => ImplementsChannel
<1>1. Init => Channel!Init
  BY DEF Init, Channel!Init
<1>2. AccountInv /\ [Next]_vars => [Channel!Next]_Channel!vars
  <2> SUFFICES ASSUME AccountInv, [Next]_vars
               PROVE  Channel!Next \/ UNCHANGED <<accepted, sent>>
    BY DEF Channel!vars
  <2>1. ASSUME NEW t \in Threads, NEW e \in Events, Submit(t, e)
        PROVE  Channel!Next
    BY <2>1 DEF Submit, Channel!Next, Channel!Submit
  <2>2. ASSUME NEW t \in Threads, SendOk(t) PROVE Channel!Next
    <3>1. held[t] \in Events
      BY <2>2 DEF SendOk, AccountInv, TypeInv, TypeOK, HoldsWhileEmitting
    <3>2. held[t] \in accepted
      BY <3>1 DEF AccountInv, Somewhere
    <3>3. \A i \in 1..Len(sent) : sent[i] # held[t]
      BY DEF AccountInv, NothingCopied
    <3>4. sent' = Append(sent, held[t]) /\ accepted' = accepted
      BY <2>2 DEF SendOk
    <3> QED
      BY <3>1, <3>2, <3>3, <3>4 DEF Channel!Next, Channel!Deliver
  <2>3. ASSUME NEW t \in Threads, Requeue(t) \/ Park(t) \/ Get(t)
        PROVE  UNCHANGED <<accepted, sent>>
    BY <2>3 DEF Requeue, Park, Get
  <2>4. ASSUME NEW t \in Threads, Quiet(t) PROVE UNCHANGED <<accepted, sent>>
    BY <2>4, QuietMovesNothing
  <2>5. ASSUME UNCHANGED vars PROVE UNCHANGED <<accepted, sent>>
    BY <2>5 DEF vars
  <2> QED
    BY <2>1, <2>2, <2>3, <2>4, <2>5, NextCases
<1> QED
  BY <1>1, <1>2, AccountInit, AccountStep, PTL
  DEF Spec, ImplementsChannel, Channel!Spec

-----------------------------------------------------------------------------
\* A thread in one of these places will find out that the link is down.
Attending == {"requeue", "connect", "mark", "dial", "verdict"}

LEMMA AttendStep == AttendInv /\ [Next]_vars => AttendInv'
<1> SUFFICES ASSUME AttendInv, [Next]_vars PROVE AttendInv'
  OBVIOUS
<1>0. TypeInv /\ TypeInv' /\ pc \in [Threads -> Locations]
  BY TypeStep DEF AttendInv, TypeInv, TypeOK
<1> USE DEF AttendInv, FlagMeansDialing, LinkAttended, Goto
<1>1. ASSUME NEW t \in Threads, NEW l, pc[t] \notin Attending, Goto(t, l),
             UNCHANGED link, logins' = logins
      PROVE  AttendInv'
  <2>1. \A u \in Threads : pc[u] \in Attending => pc'[u] = pc[u]
    BY <1>0, <1>1
  <2> QED
    BY <1>0, <1>1, <2>1 DEF Attending, link
<1>2. ASSUME NEW t \in Threads,
             \/ \E e \in Events : Submit(t, e)
             \/ EmitCheck(t) \/ SendOk(t) \/ Park(t) \/ Ask(t)
             \/ FlushCheck(t) \/ Get(t)
      PROVE  AttendInv'
  <2>1. /\ pc[t] \notin Attending /\ \E l : Goto(t, l)
        /\ UNCHANGED link /\ logins' = logins
    BY <1>2 DEF Submit, EmitCheck, SendOk, Park, Ask, FlushCheck, Get,
                Attending, bounds
  <2> QED
    BY <1>1, <2>1
<1>3. ASSUME NEW t \in Threads, Requeue(t) PROVE AttendInv'
  BY <1>0, <1>3 DEF Requeue, link, bounds
<1>4. ASSUME NEW t \in Threads, SendFail(t) PROVE AttendInv'
  BY <1>0, <1>4 DEF SendFail
<1>5. ASSUME NEW t \in Threads, ConnectCheck(t) PROVE AttendInv'
  <2>1. CASE connecting
    <3>1. PICK u \in Threads : pc[u] = "dial"
      BY <2>1
    <3>2. u # t /\ pc'[u] = "dial"
      BY <1>0, <1>5, <3>1 DEF ConnectCheck
    <3> QED
      BY <1>0, <1>5, <3>2 DEF ConnectCheck, link, bounds
  <2>2. CASE ~connecting /\ connected
    BY <1>0, <1>5, <2>2 DEF ConnectCheck, link, bounds
  <2>3. CASE ~connecting /\ ~connected
    BY <1>0, <1>5, <2>3 DEF ConnectCheck, link, bounds
  <2> QED
    BY <2>1, <2>2, <2>3
<1>6. ASSUME NEW t \in Threads, Mark(t) PROVE AttendInv'
  BY <1>0, <1>6 DEF Mark, bounds
<1>7. ASSUME NEW t \in Threads, DialOk(t) \/ DialFail(t) PROVE AttendInv'
  BY <1>0, <1>7 DEF DialOk, DialFail, bounds
<1>8. ASSUME NEW t \in Threads, Verdict(t) PROVE AttendInv'
  <2>1. \A u \in Threads : pc[u] = "dial" => pc'[u] = pc[u]
    BY <1>0, <1>8 DEF Verdict
  <2>2. connected \/ timers' > 0
    BY <1>0, <1>8 DEF Verdict, TypeInv, TypeOK
  <2> QED
    BY <1>0, <1>8, <2>1, <2>2 DEF Verdict, bounds
<1>9. ASSUME NEW t \in Threads, TimerFire(t) PROVE AttendInv'
  <2>1. pc'[t] = "connect" /\ \A u \in Threads : u # t => pc'[u] = pc[u]
    BY <1>0, <1>9 DEF TimerFire
  <2> QED
    BY <1>0, <1>9, <2>1 DEF TimerFire, bounds
<1>10. ASSUME NEW t \in Threads, Login(t) PROVE AttendInv'
  <2>1. logins' # 0
    BY <1>0, <1>10 DEF Login, TypeInv, TypeOK
  <2> QED
    BY <1>0, <1>10, <2>1 DEF Login, thread
<1>11. ASSUME Drop \/ LibReconnect PROVE AttendInv'
  BY <1>0, <1>11 DEF Drop, LibReconnect, thread
<1>12. ASSUME UNCHANGED vars PROVE AttendInv'
  BY <1>0, <1>12 DEF vars, thread, link, bounds
<1> QED
  BY <1>2, <1>3, <1>4, <1>5, <1>6, <1>7, <1>8, <1>9, <1>10, <1>11, <1>12,
     NextCases DEF Quiet

(***************************************************************************)
(* As long as the observer has not logged in again, a broken connection is *)
(* never left alone: the library, a timer or a thread will dial.           *)
(***************************************************************************)
THEOREM AlwaysAttended == Spec => []LinkAttended
<1>1. Init => AttendInv
  <2> SUFFICES ASSUME Init PROVE AttendInv
    OBVIOUS
  <2>1. Main \in Threads /\ pc[Main] = "connect" /\ ~connecting
    BY DEF Init, Threads
  <2> QED
    BY <2>1, TypeInit DEF AttendInv, FlagMeansDialing, LinkAttended
<1>2. AttendInv => LinkAttended
  BY DEF AttendInv
<1> QED
  BY <1>1, <1>2, AttendStep, PTL DEF Spec
=============================================================================
