------------------------ MODULE HealthMonitorProofs ------------------------
(***************************************************************************)
(* The count of the reports, the watching of the tasks and the truth of    *)
(* the reports, for any number of threads, tasks and touches, any timeout  *)
(* and any lag of the monitor: also where an event reaches the monitor     *)
(* later than the timeout it sets.                                         *)
(***************************************************************************)
EXTENDS HealthMonitor, SequenceTheorems, FiniteSetTheorems, TLAPS

Event == [type : {"start", "touch", "stop", "poll", "end"}, id : Nat, time : Int, parent : Nat]
Task == [timeout : Int, hung : BOOLEAN, last : Int, parent : Nat]

Typed ==
    /\ mEventQueue \in Seq(Event) /\ batch \in Seq(Event)
    /\ monitor \in {"waiting", "taken", "applying", "exited"}
    /\ DOMAIN mMonitoredTasks \subseteq 1 .. started
    /\ mMonitoredTasks \in [DOMAIN mMonitoredTasks -> Task]
    /\ started \in Nat /\ lag \in 0 .. MaxLag /\ mHungTasks \in Int
    /\ stack \in [Threads -> Seq(1 .. started)]
    /\ stopped \subseteq 1 .. started /\ loose \subseteq 1 .. started

\* The oldest time an event can tell of when n ticks have passed since it could be queued.
Old(n) == - (Unit * (n + 1))

\* What is queued and taken is recent, and a task to be erased is past its deadline only if its
\* last event was applied too late.
Recent ==
    /\ \A i \in 1 .. Len(mEventQueue) : mEventQueue[i].time >= Old(lag)
    /\ \A i \in 1 .. Len(batch) : batch[i].time >= Old(MaxLag + lag)
    /\ \A id \in tasksToRemove :
          /\ id \in DOMAIN mMonitoredTasks
          /\ mMonitoredTasks[id].timeout < Now <=> id \in overdue

\* Outside the loop over the events nothing is marked, outside a round nothing is taken.
Phases ==
    /\ ~InRound => batch = <<>>
    /\ monitor # "applying" => tasksToRemove = {}

\* A watchdog that is held or was released has not been told to stop, and is there once.
Watchdogs ==
    /\ \A t \in Threads : \A i \in 1 .. Len(stack[t]) :
          /\ stack[t][i] \notin stopped \cup loose
          /\ \A u \in Threads : \A j \in 1 .. Len(stack[u]) : stack[t][i] = stack[u][j] => t = u /\ i = j
    /\ loose \cap stopped = {}

\* The tasks a sequence of events starts, or stops.
Ids(events, type) == {events[i].id : i \in {j \in 1 .. Len(events) : events[j].type = type}}
Queued(type) == Ids(mEventQueue, type) \cup Ids(batch, type)

NoRepeat(events, type) ==
    \A i, j \in 1 .. Len(events) :
        events[i].type = type /\ events[j].type = type /\ events[i].id = events[j].id => i = j

StartThenStop(events) ==
    \A i, j \in 1 .. Len(events) :
        events[i].type = "start" /\ events[j].type = "stop" /\ events[i].id = events[j].id => i < j

\* A task is started once and stopped once, in this order.
InOrder ==
    /\ \A type \in {"start", "stop"} :
          /\ NoRepeat(mEventQueue, type) /\ NoRepeat(batch, type)
          /\ Ids(mEventQueue, type) \cap Ids(batch, type) = {}
    /\ StartThenStop(mEventQueue) /\ StartThenStop(batch)
    /\ Ids(mEventQueue, "start") \cap Ids(batch, "stop") = {}
    /\ Queued("start") \subseteq 1 .. started
    /\ Queued("stop") \subseteq stopped /\ tasksToRemove \subseteq stopped
    /\ Queued("stop") \cap tasksToRemove = {}
    /\ Queued("start") \cap stopped \subseteq Queued("stop")
    /\ overdue \subseteq (1 .. started) \ Queued("start")

\* The tasks that are watched are those that were started and not erased.
Watched ==
    DOMAIN mMonitoredTasks = ((1 .. started) \ Queued("start")) \ (stopped \ (Queued("stop") \cup tasksToRemove))

IInv == Typed /\ Recent /\ Phases /\ Watchdogs /\ InOrder /\ Watched /\ HungCount

----------------------------------------------------------------------------
(* The times, and the events of a sequence.                                 *)

\* No event waits until nothing tells it from older ones.
LEMMA Ages ==
    /\ Unit \in Nat \ {0} /\ Timeout \in Int
    /\ \A n \in Nat : Old(n) \in Int /\ Old(n + 1) = Old(n) - Unit
    /\ \A n, m \in Nat : n <= m => Old(m) <= Old(n)
    /\ Old(0) = - Unit
    /\ LongAgo \in Int /\ LongAgo <= Old(MaxLag + MaxLag)
<1>1. MaxTasks \in Nat /\ MaxLag \in Nat /\ Threshold \in Nat
  BY HealthAssumption
<1>2. Unit \in Nat \ {0}
  BY <1>1 DEF Unit
<1> HIDE DEF Unit
<1>3. \A n \in Nat : Unit * n \in Int /\ Unit * (n + 1) = Unit * n + Unit
  BY <1>2
<1>4. \A n, m \in Nat : n <= m => Unit * n <= Unit * m
  <2>1. ASSUME NEW n \in Nat, NEW m \in Nat, n <= m PROVE Unit * n <= Unit * m
    <3> DEFINE d == m - n
    <3>1. d \in Nat /\ m = n + d
      BY <2>1
    <3>2. Unit * d >= 0 /\ Unit * (n + d) = Unit * n + Unit * d
      BY <1>2, <3>1
    <3>3. Unit * n \in Int /\ Unit * d \in Int
      BY <1>2, <3>1
    <3> QED BY <3>1, <3>2, <3>3
  <2> QED BY <2>1
<1>5. Timeout = Unit * Threshold
  BY DEF Timeout
<1>6. \A n \in Nat : Old(n) = - (Unit * (n + 1)) /\ n + 1 \in Nat /\ (n + 1) + 1 \in Nat
  BY DEF Old
<1>7. \A n \in Nat : Old(n) \in Int /\ Old(n + 1) = Old(n) - Unit
  BY <1>2, <1>3, <1>6
<1>8. \A n, m \in Nat : n <= m => Old(m) <= Old(n)
  <2>1. ASSUME NEW n \in Nat, NEW m \in Nat, n <= m PROVE Old(m) <= Old(n)
    <3>1. Unit * (n + 1) <= Unit * (m + 1)
      BY <1>4, <2>1
    <3>2. Unit * (n + 1) \in Int /\ Unit * (m + 1) \in Int
      BY <1>3, <1>6
    <3> QED BY <1>6, <3>1, <3>2
  <2> QED BY <2>1
<1>9. Old(0) = - Unit
  BY <1>2 DEF Old
<1>10. LongAgo \in Int /\ LongAgo <= Old(MaxLag + MaxLag)
  <2>1. PICK k : k = IF Threshold > 2 * MaxLag THEN Threshold ELSE 2 * MaxLag
    OBVIOUS
  <2>2. k \in Nat /\ MaxLag + MaxLag \in Nat /\ MaxLag + MaxLag <= k
    BY <1>1, <2>1
  <2>3. LongAgo = Old(k)
    BY <2>1 DEF LongAgo, Old
  <2> HIDE DEF Old, LongAgo
  <2> QED BY <1>7, <1>8, <2>2, <2>3
<1>11. Timeout \in Int
  BY <1>1, <1>3, <1>5
<1> QED BY <1>2, <1>7, <1>8, <1>9, <1>10, <1>11

LEMMA OneTick == ASSUME NEW n \in Nat PROVE Old(n) \in Int /\ Old(n + 1) = Old(n) - Unit /\ Unit \in Nat \ {0}
  BY Ages

LEMMA Older == ASSUME NEW n \in Nat, NEW m \in Nat, n <= m PROVE Old(m) <= Old(n)
  BY Ages

\* What one more event adds.
LEMMA IdsAppended ==
    ASSUME NEW q \in Seq(Event), NEW e \in Event, NEW type
    PROVE  /\ Append(q, e) \in Seq(Event)
           /\ Ids(Append(q, e), type) = Ids(q, type) \cup (IF e.type = type THEN {e.id} ELSE {})
<1> DEFINE r == Append(q, e)
<1>1. /\ r \in Seq(Event) /\ Len(r) = Len(q) + 1 /\ Len(q) \in Nat
      /\ r[Len(q) + 1] = e /\ \A i \in 1 .. Len(q) : r[i] = q[i]
  OBVIOUS
<1> HIDE DEF r
<1>2. ASSUME NEW x \in Ids(r, type) PROVE x \in Ids(q, type) \cup (IF e.type = type THEN {e.id} ELSE {})
  <2>1. PICK i \in 1 .. Len(r) : r[i].type = type /\ x = r[i].id
    BY <1>2 DEF Ids
  <2>2. CASE i = Len(q) + 1
    BY <1>1, <2>1, <2>2
  <2>3. CASE i # Len(q) + 1
    <3>1. i \in 1 .. Len(q) /\ q[i].type = type /\ x = q[i].id
      BY <1>1, <2>1, <2>3
    <3> QED BY <3>1 DEF Ids
  <2> QED BY <2>2, <2>3
<1>3. ASSUME NEW x \in Ids(q, type) PROVE x \in Ids(r, type)
  <2>1. PICK i \in 1 .. Len(q) : q[i].type = type /\ x = q[i].id
    BY <1>3 DEF Ids
  <2>2. i \in 1 .. Len(r) /\ r[i].type = type /\ x = r[i].id
    BY <1>1, <2>1
  <2> QED BY <2>2 DEF Ids
<1>4. ASSUME e.type = type PROVE e.id \in Ids(r, type)
  <2>1. Len(q) + 1 \in 1 .. Len(r) /\ r[Len(q) + 1].type = type
    BY <1>1, <1>4
  <2> QED BY <1>1, <2>1 DEF Ids
<1>5. Ids(r, type) = Ids(q, type) \cup (IF e.type = type THEN {e.id} ELSE {})
  BY <1>2, <1>3, <1>4
<1> QED BY <1>1, <1>5 DEF r

\* The order that a sequence keeps when an event of a new task, or the stop of one that has
\* none, joins it.
LEMMA OrderAppended ==
    ASSUME NEW q \in Seq(Event), NEW e \in Event, StartThenStop(q),
           \A type \in {"start", "stop"} : NoRepeat(q, type),
           e.type = "start" => e.id \notin Ids(q, "start") \cup Ids(q, "stop"),
           e.type = "stop" => e.id \notin Ids(q, "stop")
    PROVE  /\ StartThenStop(Append(q, e))
           /\ \A type \in {"start", "stop"} : NoRepeat(Append(q, e), type)
<1> DEFINE r == Append(q, e)
<1>1. /\ Len(r) = Len(q) + 1 /\ Len(q) \in Nat
      /\ r[Len(q) + 1] = e /\ \A i \in 1 .. Len(q) : r[i] = q[i]
  OBVIOUS
<1>2. \A i \in 1 .. Len(q) : q[i].id \in Ids(q, q[i].type)
  BY DEF Ids
<1> HIDE DEF r
<1>3. StartThenStop(r)
  BY <1>1, <1>2 DEF StartThenStop
<1>4. ASSUME NEW type \in {"start", "stop"} PROVE NoRepeat(r, type)
  BY <1>1, <1>2 DEF NoRepeat
<1> QED BY <1>3, <1>4 DEF r

\* What is left when the first event is applied, and a touch may join at the end.
LEMMA FirstTaken ==
    ASSUME NEW q \in Seq(Event), q # <<>>, NEW p \in Seq(Event), Len(p) <= 1,
           \A i \in 1 .. Len(p) : p[i].type = "touch"
    PROVE  /\ Tail(q) \o p \in Seq(Event) /\ Len(q) \in Nat /\ Len(q) > 0 /\ Head(q) = q[1]
           /\ Len(Tail(q) \o p) = Len(q) - 1 + Len(p)
           /\ \A i \in 2 .. Len(q) : i - 1 \in 1 .. Len(Tail(q) \o p) /\ (Tail(q) \o p)[i - 1] = q[i]
           /\ \A i \in 1 .. Len(Tail(q) \o p) :
                 \/ i + 1 \in 2 .. Len(q) /\ (Tail(q) \o p)[i] = q[i + 1]
                 \/ Len(p) = 1 /\ (Tail(q) \o p)[i] = p[1]
<1> DEFINE u == Tail(q)
<1>1. /\ u \in Seq(Event) /\ Len(q) \in Nat /\ Len(q) > 0 /\ Head(q) = q[1] /\ Len(u) = Len(q) - 1
      /\ \A i \in 1 .. Len(u) : u[i] = q[i + 1]
  OBVIOUS
<1> HIDE DEF u
<1>2. /\ u \o p \in Seq(Event) /\ Len(u \o p) = Len(u) + Len(p) /\ Len(p) \in Nat
      /\ \A i \in 1 .. Len(u) : (u \o p)[i] = u[i]
      /\ \A i \in Len(u) + 1 .. Len(u) + Len(p) : (u \o p)[i] = p[i - Len(u)]
  BY <1>1
<1> DEFINE r == u \o p
<1> HIDE DEF r
<1>3. \A i \in 2 .. Len(q) : i - 1 \in 1 .. Len(r) /\ r[i - 1] = q[i]
  BY <1>1, <1>2 DEF r
<1>4. ASSUME NEW i \in 1 .. Len(r)
      PROVE  \/ i + 1 \in 2 .. Len(q) /\ r[i] = q[i + 1]
             \/ Len(p) = 1 /\ r[i] = p[1]
  <2>1. i \in Nat /\ i >= 1 /\ i <= Len(u) + Len(p) /\ Len(u) = Len(q) - 1
    BY <1>1, <1>2, <1>4 DEF r
  <2>2. CASE i <= Len(u)
    <3>1. i \in 1 .. Len(u)
      BY <1>1, <1>2, <2>1, <2>2
    <3> QED BY <1>1, <1>2, <2>1, <3>1 DEF r
  <2>3. CASE i > Len(u)
    <3>0. Len(u) \in Nat /\ Len(p) \in Nat /\ Len(p) <= 1
      BY <1>1, <1>2
    <3>1. Len(p) = 1 /\ i = Len(u) + 1
      <4>1. \A a, b, k \in Nat : b <= 1 /\ k > a /\ k <= a + b => b = 1 /\ k = a + 1
        OBVIOUS
      <4> QED BY <2>1, <2>3, <3>0, <4>1
    <3>2. i \in Len(u) + 1 .. Len(u) + Len(p) /\ i - Len(u) = 1
      BY <1>1, <1>2, <2>1, <3>1
    <3> QED BY <1>2, <3>1, <3>2 DEF r
  <2> QED BY <1>1, <1>2, <2>1, <2>2, <2>3
<1> QED BY <1>1, <1>2, <1>3, <1>4 DEF r, u

LEMMA IdsTaken ==
    ASSUME NEW q \in Seq(Event), q # <<>>, NEW p \in Seq(Event), Len(p) <= 1,
           \A i \in 1 .. Len(p) : p[i].type = "touch", StartThenStop(q),
           \A type \in {"start", "stop"} : NoRepeat(q, type)
    PROVE  /\ StartThenStop(Tail(q) \o p)
           /\ \A type \in {"start", "stop"} :
                 /\ NoRepeat(Tail(q) \o p, type)
                 /\ Head(q).type # type => Ids(Tail(q) \o p, type) = Ids(q, type)
                 /\ Head(q).type = type => /\ Ids(Tail(q) \o p, type) = Ids(q, type) \ {Head(q).id}
                                           /\ Head(q).id \in Ids(q, type)
           /\ Head(q).type = "stop" => Head(q).id \notin Ids(q, "start")
<1> DEFINE r == Tail(q) \o p
           e == Head(q)
<1>1. /\ r \in Seq(Event) /\ Len(q) \in Nat /\ Len(q) > 0 /\ e = q[1] /\ Len(r) \in Nat
      /\ \A i \in 2 .. Len(q) : i - 1 \in 1 .. Len(r) /\ r[i - 1] = q[i]
      /\ \A i \in 1 .. Len(r) : (r[i].type \in {"start", "stop"}) => i + 1 \in 2 .. Len(q) /\ r[i] = q[i + 1]
  BY FirstTaken
<1> HIDE DEF r, e
<1>5. \A i \in 1 .. Len(r) : (r[i].type \in {"start", "stop"}) => i \in Int /\ i + 1 \in 1 .. Len(q) /\ r[i] = q[i + 1]
  BY <1>1
<1>2. StartThenStop(r)
  <2> SUFFICES ASSUME NEW i \in 1 .. Len(r), NEW j \in 1 .. Len(r),
                      r[i].type = "start", r[j].type = "stop", r[i].id = r[j].id
               PROVE  i < j
    BY DEF StartThenStop
  <2>1. i + 1 < j + 1
    BY <1>5 DEF StartThenStop
  <2> QED BY <2>1
<1>3. ASSUME NEW type \in {"start", "stop"}
      PROVE  /\ NoRepeat(r, type)
             /\ e.type # type => Ids(r, type) = Ids(q, type)
             /\ e.type = type => Ids(r, type) = Ids(q, type) \ {e.id} /\ e.id \in Ids(q, type)
  <2>1. NoRepeat(r, type)
    <3> SUFFICES ASSUME NEW i \in 1 .. Len(r), NEW j \in 1 .. Len(r),
                        r[i].type = type, r[j].type = type, r[i].id = r[j].id
                 PROVE  i = j
      BY DEF NoRepeat
    <3>1. NoRepeat(q, type)
      BY <1>3
    <3>2. i + 1 = j + 1
      BY <1>5, <1>3, <3>1 DEF NoRepeat
    <3> QED BY <3>2
  <2>2. ASSUME NEW x \in Ids(r, type) PROVE x \in Ids(q, type) /\ (e.type = type => x # e.id)
    <3>1. PICK i \in 1 .. Len(r) : r[i].type = type /\ x = r[i].id
      BY <2>2 DEF Ids
    <3>2. i + 1 \in 2 .. Len(q) /\ i + 1 \in 1 .. Len(q) /\ q[i + 1].type = type /\ x = q[i + 1].id
      BY <1>1, <3>1
    <3>3. x \in Ids(q, type)
      BY <3>2 DEF Ids
    <3>4. e.type = type => x # e.id
      <4>1. 1 \in 1 .. Len(q) /\ i + 1 # 1 /\ NoRepeat(q, type)
        BY <1>1, <1>3
      <4> QED BY <1>1, <3>2, <4>1 DEF NoRepeat
    <3> QED BY <3>3, <3>4
  <2>3. ASSUME NEW x \in Ids(q, type) PROVE x \in Ids(r, type) \/ (e.type = type /\ x = e.id)
    <3>1. PICK i \in 1 .. Len(q) : q[i].type = type /\ x = q[i].id
      BY <2>3 DEF Ids
    <3>2. CASE i = 1
      BY <1>1, <3>1, <3>2
    <3>3. CASE i # 1
      <4>1. i - 1 \in 1 .. Len(r) /\ r[i - 1] = q[i]
        BY <1>1, <3>3
      <4> QED BY <3>1, <4>1 DEF Ids
    <3> QED BY <3>2, <3>3
  <2>4. e.type = type => e.id \in Ids(q, type)
    <3>1. 1 \in 1 .. Len(q)
      BY <1>1
    <3> QED BY <1>1, <3>1 DEF Ids
  <2> QED BY <2>1, <2>2, <2>3, <2>4
<1>4. ASSUME e.type = "stop", e.id \in Ids(q, "start") PROVE FALSE
  <2>1. PICK i \in 1 .. Len(q) : q[i].type = "start" /\ e.id = q[i].id
    BY <1>4 DEF Ids
  <2>2. i < 1
    BY <1>1, <1>4, <2>1 DEF StartThenStop
  <2> QED BY <2>2
<1> QED BY <1>2, <1>3, <1>4 DEF r, e

\* A tick changes no task and no kind of event.
LEMMA IdsAged ==
    ASSUME NEW q \in Seq(Event), NEW r, DOMAIN r = 1 .. Len(q), r \in Seq(Event),
           \A i \in 1 .. Len(q) : r[i].type = q[i].type /\ r[i].id = q[i].id
    PROVE  /\ Len(r) = Len(q) /\ (StartThenStop(r) <=> StartThenStop(q))
           /\ \A type : Ids(r, type) = Ids(q, type) /\ (NoRepeat(r, type) <=> NoRepeat(q, type))
<1>1. Len(r) = Len(q)
  OBVIOUS
<1>2. \A type : Ids(r, type) = Ids(q, type)
  BY <1>1 DEF Ids
<1> QED BY <1>1, <1>2 DEF StartThenStop, NoRepeat


----------------------------------------------------------------------------
(* The clients.                                                             *)

\* A call queues one event, at most a tick old: what is queued stays recent, and nothing
\* changes for the monitor.
LEMMA PushFacts ==
    ASSUME IInv, NEW type \in {"start", "touch", "stop", "poll", "end"}, NEW id \in Nat,
           NEW time \in Int, time >= - Unit, NEW parent \in Nat, Push(type, id, time, parent)
    PROVE  /\ mEventQueue' \in Seq(Event) /\ Recent' /\ Phases' /\ HungCount'
           /\ \A k \in {"start", "stop"} :
                 Ids(mEventQueue', k) = Ids(mEventQueue, k) \cup (IF type = k THEN {id} ELSE {})
           /\ /\ type = "start" => id \notin Queued("start") \cup Queued("stop")
              /\ type = "stop" => id \notin Queued("stop")
              => /\ StartThenStop(mEventQueue')
                 /\ \A k \in {"start", "stop"} : NoRepeat(mEventQueue', k)
<1> DEFINE e == [type |-> type, id |-> id, time |-> time, parent |-> parent]
<1>1. e \in Event /\ e.type = type /\ e.id = id /\ e.time = time
  BY DEF Event
<1> HIDE DEF e
<1>2. mEventQueue' = Append(mEventQueue, e) /\ UNCHANGED <<batch, monitor, tasksToRemove, mMonitoredTasks, mHungTasks, lag, overdue>>
  BY DEF Push, monitoring, round, e
<1>3. mEventQueue \in Seq(Event) /\ lag \in Nat
  BY DEF IInv, Typed
<1>4. /\ mEventQueue' \in Seq(Event)
      /\ \A k \in {"start", "stop"} :
            Ids(mEventQueue', k) = Ids(mEventQueue, k) \cup (IF type = k THEN {id} ELSE {})
  BY <1>1, <1>2, <1>3, IdsAppended
<1>5. Recent'
  <2>1. time >= Old(lag)
    <3>1. 0 \in Nat /\ 0 <= lag
      BY <1>3
    <3>2. Old(lag) <= Old(0) /\ Old(lag) \in Int
      BY <1>3, <3>1, OneTick, Older
    <3>3. Old(0) = - Unit /\ Unit \in Int
      BY Ages
    <3> QED BY <3>2, <3>3
  <2>2. \A i \in 1 .. Len(mEventQueue') : mEventQueue'[i] = e \/ (i \in 1 .. Len(mEventQueue) /\ mEventQueue'[i] = mEventQueue[i])
    BY <1>1, <1>2, <1>3
  <2>3. \A i \in 1 .. Len(mEventQueue') : mEventQueue'[i].time >= Old(lag)
    BY <1>1, <2>1, <2>2 DEF IInv, Recent
  <2> QED BY <1>2, <2>3 DEF IInv, Recent
<1>6. Phases' /\ HungCount'
  BY <1>2 DEF IInv, Phases, InRound, HungCount
<1>7. ASSUME type = "start" => id \notin Queued("start") \cup Queued("stop"),
             type = "stop" => id \notin Queued("stop")
      PROVE  /\ StartThenStop(mEventQueue')
             /\ \A k \in {"start", "stop"} : NoRepeat(mEventQueue', k)
  <2>1. StartThenStop(mEventQueue) /\ \A k \in {"start", "stop"} : NoRepeat(mEventQueue, k)
    BY DEF IInv, InOrder
  <2> QED BY <1>1, <1>2, <1>3, <1>7, <2>1, OrderAppended DEF Queued
<1> QED BY <1>4, <1>5, <1>6, <1>7

\* Touches and polls start and stop no task.
LEMMA OtherPush ==
    ASSUME IInv, NEW type \in {"touch", "poll", "end"}, NEW id \in Nat,
           NEW time \in Int, time >= - Unit, NEW parent \in Nat, Push(type, id, time, parent),
           UNCHANGED <<stack, loose, stopped, started>>
    PROVE  IInv'
<1>1. /\ mEventQueue' \in Seq(Event) /\ Recent' /\ Phases' /\ HungCount'
      /\ \A k \in {"start", "stop"} : Ids(mEventQueue', k) = Ids(mEventQueue, k)
      /\ StartThenStop(mEventQueue')
      /\ \A k \in {"start", "stop"} : NoRepeat(mEventQueue', k)
  BY PushFacts
<1>2. UNCHANGED <<batch, monitor, tasksToRemove, mMonitoredTasks, mHungTasks, lag, overdue>>
  BY DEF Push, monitoring, round
<1>3. Typed' /\ Watchdogs'
  BY <1>1, <1>2 DEF IInv, Typed, Watchdogs
<1>4. Ids(mEventQueue', "start") = Ids(mEventQueue, "start") /\ Ids(mEventQueue', "stop") = Ids(mEventQueue, "stop")
  BY <1>1
<1>5. InOrder'
  BY <1>1, <1>2, <1>4 DEF IInv, InOrder, Queued
<1>6. Watched'
  BY <1>2, <1>4 DEF IInv, Watched, Queued
<1> QED BY <1>1, <1>3, <1>5, <1>6 DEF IInv

LEMMA TouchTaskKeeps == ASSUME IInv, NEW id \in 1 .. started, TouchTask(id) PROVE IInv'
<1>1. PICK time \in ReadTime(id) : Push("touch", id, time, NoTask)
  BY DEF TouchTask
<1>2. time \in Int /\ time >= - Unit /\ id \in Nat /\ NoTask \in Nat
  BY Ages DEF ReadTime, Now, NoTask
<1>3. UNCHANGED <<stack, loose, stopped, started>>
  BY DEF TouchTask
<1> QED BY <1>1, <1>2, <1>3, OtherPush

LEMMA PollKeeps == ASSUME IInv, Poll \/ Destroy PROVE IInv'
<1>1. Push("poll", NoTask, Now, NoTask) \/ Push("end", NoTask, Now, NoTask)
  BY DEF Poll, Destroy
<1>2. Now \in Int /\ Now >= - Unit /\ NoTask \in Nat
  BY Ages DEF Now, NoTask
<1>3. UNCHANGED <<stack, loose, stopped, started>>
  BY DEF Poll, Destroy
<1> QED BY <1>1, <1>2, <1>3, OtherPush

\* A new task: nothing has its id yet.
LEMMA StartTaskKeeps == ASSUME IInv, NEW t \in Threads, StartTask(t) PROVE IInv'
<1> DEFINE n == started + 1
           parent == IF stack[t] = <<>> THEN NoTask ELSE Last(stack[t])
<1>1. /\ started \in Nat /\ n \in Nat /\ n \notin 1 .. started /\ 1 .. started \subseteq 1 .. n /\ n \in 1 .. n
      /\ 1 .. n = 1 .. started \cup {n}
  BY DEF IInv, Typed
<1>2. parent \in Nat
  BY DEF IInv, Typed, NoTask, Last
<1>3. Push("start", n, Now, parent) /\ started' = n /\ UNCHANGED <<loose, stopped>>
  BY DEF StartTask
<1>4. stack' = [stack EXCEPT ![t] = Append(stack[t], n)]
  BY DEF StartTask
<1> HIDE DEF parent, n
<1>5. Now \in Int /\ Now >= - Unit
  BY Ages DEF Now
<1>6. n \notin Queued("start") \cup Queued("stop")
  BY <1>1 DEF IInv, InOrder, Typed
<1>7. /\ mEventQueue' \in Seq(Event) /\ Recent' /\ Phases' /\ HungCount'
      /\ \A k \in {"start", "stop"} :
            Ids(mEventQueue', k) = Ids(mEventQueue, k) \cup (IF "start" = k THEN {n} ELSE {})
      /\ StartThenStop(mEventQueue')
      /\ \A k \in {"start", "stop"} : NoRepeat(mEventQueue', k)
  BY <1>1, <1>2, <1>3, <1>5, <1>6, PushFacts
<1>8. UNCHANGED <<batch, monitor, tasksToRemove, mMonitoredTasks, mHungTasks, lag, overdue>>
  BY <1>3 DEF Push, monitoring, round
<1>9. /\ stack[t] \in Seq(1 .. started) /\ Append(stack[t], n) \in Seq(1 .. n)
      /\ Len(Append(stack[t], n)) = Len(stack[t]) + 1 /\ Len(stack[t]) \in Nat
      /\ Append(stack[t], n)[Len(stack[t]) + 1] = n
      /\ \A i \in 1 .. Len(stack[t]) : Append(stack[t], n)[i] = stack[t][i]
  <2>1. stack[t] \in Seq(1 .. started)
    BY DEF IInv, Typed
  <2>2. stack[t] \in Seq(1 .. n)
    BY <1>1, <2>1
  <2> QED BY <1>1, <2>1, <2>2
<1>10. stack' \in [Threads -> Seq(1 .. n)]
  <2>1. \A u \in Threads : stack[u] \in Seq(1 .. n)
    BY <1>1 DEF IInv, Typed
  <2>2. stack \in [Threads -> Seq(1 .. n)]
    BY <2>1 DEF IInv, Typed
  <2> QED BY <1>4, <1>9, <2>2
<1>11. Typed'
  BY <1>1, <1>3, <1>7, <1>8, <1>10 DEF IInv, Typed
<1>12. Watchdogs'
  <2>0. PICK s : s = stack'
    OBVIOUS
  <2>1. \A u \in Threads : \A i \in 1 .. Len(stack[u]) : stack[u][i] \in 1 .. started /\ stack[u][i] # n
    BY <1>1 DEF IInv, Typed
  <2>2. ASSUME NEW u \in Threads, NEW i \in 1 .. Len(s[u])
        PROVE  \/ u = t /\ i = Len(stack[t]) + 1 /\ s[u][i] = n
               \/ i \in 1 .. Len(stack[u]) /\ s[u][i] = stack[u][i]
    <3>0. DOMAIN stack = Threads
      BY DEF IInv, Typed
    <3>1. CASE u = t
      <4>1. s[u] = Append(stack[t], n)
        BY <1>4, <2>0, <3>0, <3>1
      <4> QED BY <1>9, <2>2, <3>1, <4>1
    <3>2. CASE u # t
      BY <1>4, <2>0, <2>2, <3>0, <3>2
    <3> QED BY <3>1, <3>2
  <2>3. n \notin stopped \cup loose
    BY <1>1 DEF IInv, Typed
  <2>4. ASSUME NEW u \in Threads, NEW i \in 1 .. Len(s[u])
        PROVE  s[u][i] \notin stopped \cup loose
    BY <2>2, <2>3 DEF IInv, Watchdogs
  <2>5. ASSUME NEW u \in Threads, NEW i \in 1 .. Len(s[u]),
               NEW v \in Threads, NEW j \in 1 .. Len(s[v]), s[u][i] = s[v][j]
        PROVE  u = v /\ i = j
    <3>1. CASE s[u][i] = n
      <4>1. \A w \in Threads : \A k \in 1 .. Len(s[w]) : s[w][k] = n => w = t /\ k = Len(stack[t]) + 1
        BY <2>1, <2>2
      <4>2. s[v][j] = n
        BY <2>5, <3>1
      <4> QED BY <2>5, <3>1, <4>1, <4>2
    <3>2. CASE s[u][i] # n
      <4>1. i \in 1 .. Len(stack[u]) /\ s[u][i] = stack[u][i]
        BY <2>2, <3>2
      <4>2. j \in 1 .. Len(stack[v]) /\ s[v][j] = stack[v][j]
        BY <2>2, <2>5, <3>2
      <4>3. stack[u][i] = stack[v][j]
        BY <2>5, <4>1, <4>2
      <4>4. i \in 1 .. Len(stack[u]) /\ j \in 1 .. Len(stack[v])
        BY <4>1, <4>2
      <4> QED BY <4>3, <4>4 DEF IInv, Watchdogs
    <3> QED BY <3>1, <3>2
  <2>6. loose \cap stopped = {}
    BY DEF IInv, Watchdogs
  <2> QED BY <1>3, <2>0, <2>4, <2>5, <2>6 DEF Watchdogs
<1>13. /\ Ids(mEventQueue', "start") = Ids(mEventQueue, "start") \cup {n}
       /\ Ids(mEventQueue', "stop") = Ids(mEventQueue, "stop")
  BY <1>7
<1>14. n \notin stopped
  BY <1>1 DEF IInv, Typed
<1>15. InOrder'
  BY <1>1, <1>3, <1>6, <1>7, <1>8, <1>13, <1>14 DEF IInv, InOrder, Queued
<1>16. Watched'
  BY <1>1, <1>3, <1>6, <1>8, <1>13, <1>14 DEF IInv, Watched, Queued, Typed
<1> QED BY <1>7, <1>11, <1>12, <1>15, <1>16 DEF IInv


\* A task is told to stop once, after it was started.
LEMMA StopTaskKeeps ==
    ASSUME IInv, NEW id \in 1 .. started, id \notin stopped, StopTask(id), Watchdogs',
           stack' \in [Threads -> Seq(1 .. started)], loose' \subseteq 1 .. started
    PROVE  IInv'
<1>1. PICK time \in ReadTime(id) : Push("stop", id, time, NoTask)
  BY DEF StopTask
<1>2. time \in Int /\ time >= - Unit /\ id \in Nat /\ NoTask \in Nat
  BY Ages DEF ReadTime, Now, NoTask
<1>3. stopped' = stopped \cup {id} /\ started' = started
  BY DEF StopTask
<1>4. id \notin Queued("stop")
  BY DEF IInv, InOrder
<1>5. /\ mEventQueue' \in Seq(Event) /\ Recent' /\ Phases' /\ HungCount'
      /\ \A k \in {"start", "stop"} :
            Ids(mEventQueue', k) = Ids(mEventQueue, k) \cup (IF "stop" = k THEN {id} ELSE {})
      /\ StartThenStop(mEventQueue')
      /\ \A k \in {"start", "stop"} : NoRepeat(mEventQueue', k)
  BY <1>1, <1>2, <1>4, PushFacts
<1>6. UNCHANGED <<batch, monitor, tasksToRemove, mMonitoredTasks, mHungTasks, lag, overdue>>
  BY <1>1 DEF Push, monitoring, round
<1>7. Typed'
  BY <1>3, <1>5, <1>6 DEF IInv, Typed
<1>8. /\ Ids(mEventQueue', "start") = Ids(mEventQueue, "start")
      /\ Ids(mEventQueue', "stop") = Ids(mEventQueue, "stop") \cup {id}
  BY <1>5
<1>9. InOrder'
  BY <1>3, <1>4, <1>5, <1>6, <1>8 DEF IInv, InOrder, Queued
<1>10. Watched'
  BY <1>3, <1>6, <1>8 DEF IInv, Watched, Queued
<1> QED BY <1>5, <1>7, <1>9, <1>10 DEF IInv

\* What Last and Front are.
LEMMA FrontLast ==
    ASSUME NEW S, NEW q \in Seq(S), q # <<>>
    PROVE  /\ Len(q) \in Nat \ {0} /\ Last(q) = q[Len(q)] /\ Last(q) \in S
           /\ Front(q) \in Seq(S) /\ Len(Front(q)) = Len(q) - 1
           /\ \A i \in 1 .. Len(q) - 1 : Front(q)[i] = q[i]
<1>1. Len(q) \in Nat \ {0} /\ \A i \in 1 .. Len(q) : q[i] \in S
  OBVIOUS
<1>2. Last(q) = q[Len(q)] /\ Last(q) \in S
  BY <1>1 DEF Last
<1> DEFINE n == Len(q) - 1
<1>3. n \in Nat /\ Front(q) = SubSeq(q, 1, n) /\ \A i \in 1 .. n : q[i] \in S
  BY <1>1 DEF Front
<1> HIDE DEF n
<1>4. /\ SubSeq(q, 1, n) \in Seq(S) /\ Len(SubSeq(q, 1, n)) = IF 1 <= n THEN n - 1 + 1 ELSE 0
      /\ \A i \in 1 .. n - 1 + 1 : SubSeq(q, 1, n)[i] = q[1 + i - 1]
  BY <1>3, SubSeqProperties
<1>5. /\ n - 1 + 1 = n /\ (IF 1 <= n THEN n - 1 + 1 ELSE 0) = n /\ \A i \in 1 .. n : 1 + i - 1 = i
  BY <1>3
<1>6. \A i \in 1 .. n : SubSeq(q, 1, n)[i] = q[i]
  BY <1>4, <1>5
<1> QED BY <1>1, <1>2, <1>3, <1>4, <1>5, <1>6 DEF n

\* The innermost watchdog of a thread goes: it is there no more.
LEMMA Innermost ==
    ASSUME IInv, NEW t \in Threads, stack[t] # <<>>, stack' = [stack EXCEPT ![t] = Front(stack[t])],
           started' = started, NEW id, id = Last(stack[t]),
           \/ stopped' = stopped \cup {id} /\ loose' = loose
           \/ stopped' = stopped /\ loose' = loose \cup {id}
    PROVE  /\ id \in 1 .. started /\ id \notin stopped /\ Watchdogs'
           /\ stack' \in [Threads -> Seq(1 .. started)] /\ loose' \subseteq 1 .. started
<1> DEFINE q == stack[t]
           n == Len(q)
           f == Front(q)
<1>1. q \in Seq(1 .. started) /\ q # <<>>
  BY DEF IInv, Typed
<1>2. n \in Nat \ {0} /\ id = q[n] /\ id \in 1 .. started /\ n \in 1 .. Len(stack[t])
  <2>1. Len(q) \in Nat \ {0} /\ id = q[Len(q)] /\ id \in 1 .. started
    BY <1>1, FrontLast
  <2>2. \A k \in Nat \ {0} : k \in 1 .. k
    OBVIOUS
  <2> QED BY <2>1, <2>2
<1>3. f \in Seq(1 .. started) /\ Len(f) = n - 1 /\ \A i \in 1 .. n - 1 : f[i] = q[i]
  BY <1>1, FrontLast
<1>4. PICK s : s = stack'
  OBVIOUS
<1>5. s \in [Threads -> Seq(1 .. started)] /\ s[t] = f /\ \A u \in Threads : u # t => s[u] = stack[u]
  BY <1>3, <1>4 DEF IInv, Typed
<1> HIDE DEF f, n
<1>6. id \notin stopped \cup loose
  BY <1>2 DEF IInv, Watchdogs
<1>7. ASSUME NEW u \in Threads, NEW i \in 1 .. Len(s[u])
      PROVE  i \in 1 .. Len(stack[u]) /\ s[u][i] = stack[u][i] /\ s[u][i] # id
  <2>1. i \in 1 .. Len(stack[u]) /\ s[u][i] = stack[u][i] /\ (u = t => i # n)
    <3>1. CASE u = t
      <4>1. i \in 1 .. n - 1 /\ s[u][i] = f[i] /\ stack[u][i] = q[i]
        BY <1>3, <1>5, <1>7, <3>1
      <4>2. n = Len(stack[u])
        BY <3>1 DEF n
      <4> QED BY <1>2, <1>3, <4>1, <4>2
    <3>2. CASE u # t
      BY <1>5, <1>7, <3>2
    <3> QED BY <3>1, <3>2
  <2>2. n \in 1 .. Len(stack[t]) /\ id = stack[t][n]
    BY <1>2 DEF n
  <2> QED BY <2>1, <2>2 DEF IInv, Watchdogs
<1>8. ASSUME NEW u \in Threads, NEW i \in 1 .. Len(s[u])
      PROVE  s[u][i] \notin stopped' \cup loose'
  <2>1. stack[u][i] \notin stopped \cup loose /\ s[u][i] = stack[u][i] /\ s[u][i] # id
    BY <1>7, <1>8 DEF IInv, Watchdogs
  <2> QED BY <2>1
<1>9. ASSUME NEW u \in Threads, NEW i \in 1 .. Len(s[u]),
             NEW v \in Threads, NEW j \in 1 .. Len(s[v]), s[u][i] = s[v][j]
      PROVE  u = v /\ i = j
  <2>1. i \in 1 .. Len(stack[u]) /\ s[u][i] = stack[u][i]
    BY <1>7
  <2>2. j \in 1 .. Len(stack[v]) /\ s[v][j] = stack[v][j]
    BY <1>7
  <2>3. stack[u][i] = stack[v][j]
    BY <1>9, <2>1, <2>2
  <2> QED BY <2>1, <2>2, <2>3 DEF IInv, Watchdogs
<1>10. loose' \cap stopped' = {}
  BY <1>6 DEF IInv, Watchdogs
<1>11. Watchdogs'
  BY <1>4, <1>8, <1>9, <1>10 DEF Watchdogs
<1>12. loose' \subseteq 1 .. started
  BY <1>2 DEF IInv, Typed
<1> QED BY <1>2, <1>4, <1>5, <1>6, <1>11, <1>12

LEMMA EndWatchdogKeeps == ASSUME IInv, NEW t \in Threads, EndWatchdog(t) PROVE IInv'
<1>1. PICK id : id = Last(stack[t])
  OBVIOUS
<1>2. /\ stack[t] # <<>> /\ stack' = [stack EXCEPT ![t] = Front(stack[t])] /\ StopTask(id) /\ loose' = loose
  BY <1>1 DEF EndWatchdog
<1>3. stopped' = stopped \cup {id} /\ started' = started
  BY <1>2 DEF StopTask
<1>4. /\ id \in 1 .. started /\ id \notin stopped /\ Watchdogs'
      /\ stack' \in [Threads -> Seq(1 .. started)] /\ loose' \subseteq 1 .. started
  BY <1>1, <1>2, <1>3, Innermost
<1> QED BY <1>2, <1>4, StopTaskKeeps

LEMMA ReleaseKeeps == ASSUME IInv, NEW t \in Threads, Release(t) PROVE IInv'
<1>1. PICK id : id = Last(stack[t])
  OBVIOUS
<1>2. /\ stack[t] # <<>> /\ stack' = [stack EXCEPT ![t] = Front(stack[t])] /\ loose' = loose \cup {id}
      /\ UNCHANGED <<mEventQueue, batch, monitor, tasksToRemove, mMonitoredTasks, mHungTasks, lag, overdue,
                    stopped, started>>
  BY <1>1 DEF Release, monitoring, round
<1>3. /\ id \in 1 .. started /\ Watchdogs'
      /\ stack' \in [Threads -> Seq(1 .. started)] /\ loose' \subseteq 1 .. started
  BY <1>1, <1>2, Innermost
<1>4. Typed'
  BY <1>2, <1>3 DEF IInv, Typed
<1>5. Recent' /\ Phases' /\ HungCount'
  BY <1>2 DEF IInv, Recent, Phases, InRound, HungCount
<1>6. InOrder' /\ Watched'
  BY <1>2 DEF IInv, InOrder, Watched, Queued
<1> QED BY <1>3, <1>4, <1>5, <1>6 DEF IInv

LEMMA StopLooseKeeps == ASSUME IInv, NEW id \in 1 .. started, StopLoose(id) PROVE IInv'
<1>1. id \in loose /\ loose' = loose \ {id} /\ StopTask(id) /\ stack' = stack
  BY DEF StopLoose
<1>2. stopped' = stopped \cup {id} /\ started' = started
  BY <1>1 DEF StopTask
<1>3. id \notin stopped /\ Watchdogs'
  BY <1>1, <1>2 DEF IInv, Watchdogs
<1>4. stack' \in [Threads -> Seq(1 .. started)] /\ loose' \subseteq 1 .. started
  BY <1>1 DEF IInv, Typed
<1> QED BY <1>1, <1>3, <1>4, StopTaskKeeps


----------------------------------------------------------------------------
(* The monitor.                                                             *)

\* The monitor takes the queue when the events before it are all applied.
LEMMA SwapKeeps == ASSUME IInv, Swap PROVE IInv'
<1>1. /\ monitor = "waiting" /\ monitor' = "taken" /\ batch' = mEventQueue /\ mEventQueue' = <<>> /\ lag' = 0
      /\ UNCHANGED <<tasksToRemove, mMonitoredTasks, mHungTasks, overdue, stack, loose, stopped, started>>
  BY DEF Swap, clients
<1>2. batch = <<>> /\ tasksToRemove = {}
  BY <1>1 DEF IInv, Phases, InRound
<1>3. /\ <<>> \in Seq(Event) /\ StartThenStop(<<>>)
      /\ \A type \in {"start", "stop"} : Ids(<<>>, type) = {} /\ NoRepeat(<<>>, type)
  BY DEF Ids, StartThenStop, NoRepeat
<1>4. MaxLag \in Nat /\ lag \in Nat /\ lag <= MaxLag
  BY HealthAssumption DEF IInv, Typed
<1>5. Typed'
  BY <1>1, <1>3, <1>4 DEF IInv, Typed
<1>6. Recent'
  <2>1. Old(MaxLag) <= Old(lag) /\ Old(MaxLag) \in Int /\ Old(lag) \in Int
    BY <1>4, OneTick, Older
  <2>2. \A i \in 1 .. Len(mEventQueue) : mEventQueue[i].time >= Old(lag) /\ mEventQueue[i].time \in Int
    <3>1. \A i \in 1 .. Len(mEventQueue) : mEventQueue[i] \in Event
      BY DEF IInv, Typed
    <3> QED BY <3>1 DEF IInv, Recent, Event
  <2>3. \A i \in 1 .. Len(mEventQueue) : mEventQueue[i].time >= Old(MaxLag)
    BY <2>1, <2>2
  <2>4. MaxLag + 0 = MaxLag
    BY <1>4
  <2> QED BY <1>1, <1>2, <2>3, <2>4 DEF Recent
<1>7. Phases' /\ Watchdogs' /\ HungCount'
  BY <1>1, <1>2 DEF IInv, Phases, InRound, Watchdogs, HungCount
<1>8. InOrder'
  BY <1>1, <1>2, <1>3 DEF IInv, InOrder, Queued
<1>9. Watched'
  BY <1>1, <1>2, <1>3 DEF IInv, Watched, Queued
<1> QED BY <1>5, <1>6, <1>7, <1>8, <1>9 DEF IInv

\* The monitored tasks are a function.
Tasks(T) == T \in [DOMAIN T -> Task]

\* One event applied: which tasks there are, and which are hung.
LEMMA ApplyFacts ==
    ASSUME NEW T, Tasks(T), NEW e \in Event, e.type = "start" => e.id \notin DOMAIN T,
           NEW U, U = Apply(T, e)
    PROVE  /\ DOMAIN U = DOMAIN T \cup (IF e.type = "start" THEN {e.id} ELSE {})
           /\ Tasks(U)
           /\ \A id \in DOMAIN T : U[id].hung = T[id].hung
           /\ e.type = "start" => ~U[e.id].hung
<1>1. T \in [DOMAIN T -> Task] /\ e.time \in Int /\ e.parent \in Nat /\ Timeout \in Int /\ NoTask \in Nat
  BY Ages DEF Event, Tasks, NoTask
<1>2. CASE e.type = "start"
  <2> DEFINE r == [timeout |-> e.time + Timeout, hung |-> FALSE, last |-> e.time,
                   parent |-> IF e.parent \in DOMAIN T THEN e.parent ELSE NoTask]
  <2>1. r \in Task /\ ~r.hung
    BY <1>1 DEF Task
  <2>2. U = [id \in DOMAIN T \cup {e.id} |-> IF id # e.id THEN T[id] ELSE r]
    BY <1>2 DEF Apply
  <2> HIDE DEF r
  <2> QED BY <1>1, <1>2, <2>1, <2>2 DEF Tasks
<1>3. CASE e.type \in Refreshing /\ e.id \in DOMAIN T
  <2> DEFINE r == [T[e.id] EXCEPT !.timeout = e.time + Timeout,
                                  !.last = IF e.time > T[e.id].last THEN e.time ELSE T[e.id].last]
  <2>1. e.type # "start"
    BY <1>3 DEF Refreshing
  <2>2. U = [T EXCEPT ![e.id] = r]
    BY <1>3, <2>1 DEF Apply
  <2>3. T[e.id] \in Task /\ e.time + Timeout \in Int
    BY <1>1, <1>3
  <2>4. r \in Task /\ r.hung = T[e.id].hung /\ r.timeout = e.time + Timeout
    BY <1>1, <2>3 DEF Task
  <2> HIDE DEF r
  <2> QED BY <1>1, <1>3, <2>1, <2>2, <2>4 DEF Tasks
<1>4. CASE e.type # "start" /\ ~(e.type \in Refreshing /\ e.id \in DOMAIN T)
  BY <1>1, <1>4 DEF Apply, Tasks, Refreshing
<1> QED BY <1>2, <1>3, <1>4

\* One event applied: the times of its task, and whose child that is.
LEMMA AppliedTimes ==
    ASSUME NEW T, Tasks(T), NEW e \in Event, NEW U, U = Apply(T, e)
    PROVE  /\ \A id \in DOMAIN U : id # e.id => id \in DOMAIN T /\ U[id] = T[id]
           /\ e.type \notin {"start", "touch", "stop"} => U = T
           /\ e.type \in {"start", "touch", "stop"} /\ e.id \in DOMAIN U =>
                 /\ U[e.id].timeout = e.time + Timeout /\ U[e.id].last >= e.time
                 /\ U[e.id].last = e.time \/ (e.id \in DOMAIN T /\ U[e.id].last = T[e.id].last)
                 /\ \/ e.type = "start" /\ U[e.id].parent \in {e.parent, NoTask}
                    \/ e.id \in DOMAIN T /\ U[e.id].parent = T[e.id].parent
<1>1. T \in [DOMAIN T -> Task] /\ e.time \in Int /\ Timeout \in Int
  BY Ages DEF Event, Tasks
<1>2. CASE e.type = "start"
  <2> DEFINE r == [timeout |-> e.time + Timeout, hung |-> FALSE, last |-> e.time,
                   parent |-> IF e.parent \in DOMAIN T THEN e.parent ELSE NoTask]
  <2>1. r.timeout = e.time + Timeout /\ r.last = e.time /\ r.parent \in {e.parent, NoTask}
    OBVIOUS
  <2>2. U = [id \in DOMAIN T \cup {e.id} |-> IF id # e.id THEN T[id] ELSE r]
    BY <1>2 DEF Apply
  <2> HIDE DEF r
  <2>3. U[e.id] = r
    BY <2>2
  <2> QED BY <1>1, <1>2, <2>1, <2>2, <2>3
<1>3. CASE e.type \in Refreshing /\ e.id \in DOMAIN T
  <2> DEFINE r == [T[e.id] EXCEPT !.timeout = e.time + Timeout,
                                  !.last = IF e.time > T[e.id].last THEN e.time ELSE T[e.id].last]
  <2>1. e.type # "start" /\ e.type \in {"touch", "stop"}
    BY <1>3 DEF Refreshing
  <2>2. U = [T EXCEPT ![e.id] = r]
    BY <1>3, <2>1 DEF Apply
  <2>3. PICK x \in Task : x = T[e.id]
    BY <1>1, <1>3
  <2>4. r = [x EXCEPT !.timeout = e.time + Timeout, !.last = IF e.time > x.last THEN e.time ELSE x.last]
    BY <2>3
  <2> HIDE DEF r
  <2>5. /\ r.timeout = e.time + Timeout /\ r.parent = x.parent
        /\ r.last >= e.time /\ (r.last = e.time \/ r.last = x.last)
    BY <1>1, <2>4 DEF Task
  <2>6. DOMAIN U = DOMAIN T /\ U[e.id] = r /\ \A id \in DOMAIN T : id # e.id => U[id] = T[id]
    BY <1>1, <1>3, <2>2
  <2> QED BY <1>3, <2>1, <2>3, <2>5, <2>6
<1>4. CASE e.type # "start" /\ ~(e.type \in Refreshing /\ e.id \in DOMAIN T)
  <2>1. U = T
    BY <1>4 DEF Apply
  <2> QED BY <1>4, <2>1 DEF Refreshing
<1> QED BY <1>2, <1>3, <1>4

\* What is passed on to the parent is at most a touch, no older than the event.
LEMMA PassedFacts ==
    ASSUME NEW T, Tasks(T), NEW e \in Event, NEW p, p = Passed(T, e)
    PROVE  /\ p \in Seq(Event) /\ Len(p) <= 1
           /\ \A i \in 1 .. Len(p) : p[i] \in Event /\ p[i].type = "touch" /\ p[i].time >= e.time
<1>1. CASE p = <<>>
  BY <1>1
<1>2. CASE p # <<>>
  <2> DEFINE x == [type |-> "touch", id |-> T[e.id].parent, time |-> e.time + 1, parent |-> NoTask]
  <2>1. e.id \in DOMAIN T /\ p = <<x>>
    BY <1>2 DEF Passed
  <2>2. x \in Event /\ x.type = "touch" /\ x.time >= e.time
    BY <2>1 DEF Event, Tasks, Task, NoTask
  <2> HIDE DEF x
  <2> QED BY <2>1, <2>2
<1> QED BY <1>1, <1>2


\* An event is applied: the deadline it sets is past just when it was applied too late.
LEMMA ApplyEventKeeps == ASSUME IInv, ApplyEvent PROVE IInv'
<1> DEFINE e == Head(batch)
<1>1. PICK p : /\ p = Passed(mMonitoredTasks', e) /\ batch' = Tail(batch) \o p
               /\ mMonitoredTasks' = Apply(mMonitoredTasks, e)
               /\ tasksToRemove' = IF e.type = "stop" /\ e.id \in DOMAIN mMonitoredTasks
                                   THEN tasksToRemove \cup {e.id} ELSE tasksToRemove
               /\ overdue' = IF e.type \in {"poll", "end"} \/ e.id \notin DOMAIN mMonitoredTasks' THEN overdue
                             ELSE IF e.time + Timeout < Now THEN overdue \cup {e.id}
                             ELSE overdue \ {e.id}
  BY DEF ApplyEvent
<1>2. /\ InRound /\ batch # <<>> /\ monitor' = "applying"
      /\ UNCHANGED <<mEventQueue, mHungTasks, lag, stack, loose, stopped, started>>
  BY DEF ApplyEvent, clients
<1>3. /\ batch \in Seq(Event) /\ e \in Event /\ e.time \in Int /\ e.id \in Nat /\ e = batch[1] /\ 1 \in 1 .. Len(batch)
      /\ \A i \in 1 .. Len(batch) : batch[i] \in Event
  <2>1. batch \in Seq(Event) /\ e = batch[1] /\ 1 \in 1 .. Len(batch)
    BY <1>2 DEF IInv, Typed
  <2>2. \A i \in 1 .. Len(batch) : batch[i] \in Event
    BY <2>1
  <2>3. e \in Event
    BY <2>1, <2>2
  <2> HIDE DEF e
  <2> QED BY <2>1, <2>2, <2>3 DEF Event
<1> HIDE DEF e
<1> DEFINE D == DOMAIN mMonitoredTasks
<1>4. /\ StartThenStop(batch) /\ (\A type \in {"start", "stop"} : NoRepeat(batch, type))
  BY DEF IInv, InOrder
<1>5. e.type \in {"start", "stop"} => e.id \in Ids(batch, e.type)
  BY <1>3 DEF Ids
<1>6. e.type = "start" => e.id \notin D /\ e.id \in 1 .. started
  BY <1>5 DEF IInv, Watched, InOrder, Queued
<1>7. Tasks(mMonitoredTasks) /\ D \subseteq 1 .. started
  BY DEF IInv, Typed, Tasks
<1>8. PICK U : U = Apply(mMonitoredTasks, e)
  OBVIOUS
<1>9. mMonitoredTasks' = U /\ U = Apply(mMonitoredTasks, e)
  BY <1>1, <1>8
<1>10. /\ DOMAIN U = D \cup (IF e.type = "start" THEN {e.id} ELSE {})
       /\ Tasks(U)
       /\ \A id \in D : U[id].hung = mMonitoredTasks[id].hung
       /\ e.type = "start" => ~U[e.id].hung
       /\ \A id \in DOMAIN U : id # e.id => id \in D /\ U[id] = mMonitoredTasks[id]
       /\ e.type \in {"poll", "end"} => U = mMonitoredTasks
       /\ e.type \notin {"poll", "end"} /\ e.id \in DOMAIN U => U[e.id].timeout = e.time + Timeout
  <2>1. PICK T : T = mMonitoredTasks
    OBVIOUS
  <2>2. Tasks(T) /\ (e.type = "start" => e.id \notin DOMAIN T) /\ U = Apply(T, e)
    BY <1>6, <1>7, <1>9, <2>1
  <2> HIDE DEF D
  <2>3. /\ DOMAIN U = DOMAIN T \cup (IF e.type = "start" THEN {e.id} ELSE {})
        /\ Tasks(U)
        /\ \A id \in DOMAIN T : U[id].hung = T[id].hung
        /\ e.type = "start" => ~U[e.id].hung
    <3>1. e \in Event
      BY <1>3
    <3>2. \A x \in Event : (x.type = "start" => x.id \notin DOMAIN T) /\ U = Apply(T, x) =>
        /\ DOMAIN U = DOMAIN T \cup (IF x.type = "start" THEN {x.id} ELSE {})
        /\ Tasks(U)
        /\ \A id \in DOMAIN T : U[id].hung = T[id].hung
        /\ x.type = "start" => ~U[x.id].hung
      BY <2>2, ApplyFacts
    <3> QED BY <2>2, <3>1, <3>2
  <2>4. /\ \A id \in DOMAIN U : id # e.id => id \in DOMAIN T /\ U[id] = T[id]
        /\ e.type \notin {"start", "touch", "stop"} => U = T
        /\ e.type \in {"start", "touch", "stop"} /\ e.id \in DOMAIN U => U[e.id].timeout = e.time + Timeout
    BY <1>3, <2>2, AppliedTimes
  <2>5. e.type \in {"start", "touch", "stop"} \/ e.type \in {"poll", "end"}
    BY <1>3 DEF Event
  <2>6. D = DOMAIN T
    BY <2>1 DEF D
  <2> QED BY <2>1, <2>3, <2>4, <2>5, <2>6
<1>11. /\ p \in Seq(Event) /\ Len(p) <= 1
       /\ \A i \in 1 .. Len(p) : p[i] \in Event /\ p[i].type = "touch" /\ p[i].time >= e.time
  BY <1>1, <1>3, <1>9, <1>10, PassedFacts
<1>12. /\ batch' \in Seq(Event)
       /\ \A i \in 1 .. Len(batch') : \/ i + 1 \in 2 .. Len(batch) /\ batch'[i] = batch[i + 1]
                                      \/ Len(p) = 1 /\ batch'[i] = p[1]
  <2>1. PICK b : b = Tail(batch) \o p
    OBVIOUS
  <2>2. /\ b \in Seq(Event)
        /\ \A i \in 1 .. Len(b) : \/ i + 1 \in 2 .. Len(batch) /\ b[i] = batch[i + 1]
                                  \/ Len(p) = 1 /\ b[i] = p[1]
    <3>1. PICK q : q = batch /\ b = Tail(q) \o p
      BY <2>1
    <3>2. q \in Seq(Event) /\ q # <<>>
      BY <1>2, <1>3, <3>1
    <3> QED BY <1>11, <3>1, <3>2, FirstTaken
  <2> QED BY <1>1, <2>1, <2>2
<1>13. /\ StartThenStop(batch')
       /\ \A type \in {"start", "stop"} :
             /\ NoRepeat(batch', type)
             /\ e.type # type => Ids(batch', type) = Ids(batch, type)
             /\ e.type = type => Ids(batch', type) = Ids(batch, type) \ {e.id} /\ e.id \in Ids(batch, type)
       /\ e.type = "stop" => e.id \notin Ids(batch, "start")
  <2>1. PICK b : b = Tail(batch) \o p
    OBVIOUS
  <2>2. /\ StartThenStop(b)
        /\ \A type \in {"start", "stop"} :
              /\ NoRepeat(b, type)
              /\ e.type # type => Ids(b, type) = Ids(batch, type)
              /\ e.type = type => Ids(b, type) = Ids(batch, type) \ {e.id} /\ e.id \in Ids(batch, type)
        /\ e.type = "stop" => e.id \notin Ids(batch, "start")
    BY <1>2, <1>3, <1>4, <1>11, <2>1, IdsTaken DEF e
  <2>3. b = batch'
    BY <1>1, <2>1
  <2> QED BY <2>2, <2>3
<1> HIDE DEF D
<1>14. Typed'
  <2>1. monitor' \in {"waiting", "taken", "applying", "exited"} /\ DOMAIN U \subseteq 1 .. started
    BY <1>2, <1>6, <1>7, <1>10
  <2> QED BY <1>2, <1>9, <1>10, <1>12, <2>1 DEF IInv, Typed, Tasks
<1>15. Recent'
  <2>1. e.time >= Old(MaxLag + lag)
    BY <1>3 DEF IInv, Recent
  <2>2. PICK b : b = batch'
    OBVIOUS
  <2>3. ASSUME NEW i \in 1 .. Len(b) PROVE b[i].time >= Old(MaxLag + lag)
    <3>1. CASE i + 1 \in 2 .. Len(batch) /\ b[i] = batch[i + 1]
      <4>1. i + 1 \in 1 .. Len(batch)
        BY <3>1
      <4> QED BY <3>1, <4>1 DEF IInv, Recent
    <3>2. CASE Len(p) = 1 /\ b[i] = p[1]
      <4>1. b[i] \in Event /\ b[i].time >= e.time
        <5>1. 1 \in 1 .. Len(p)
          BY <3>2
        <5> QED BY <1>11, <3>2, <5>1
      <4>2. b[i].time \in Int /\ Old(MaxLag + lag) \in Int
        <5>1. MaxLag + lag \in Nat
          BY HealthAssumption DEF IInv, Typed
        <5> QED BY <4>1, <5>1, OneTick DEF Event
      <4> QED BY <1>3, <2>1, <4>1, <4>2
    <3> QED BY <1>12, <2>2, <2>3, <3>1, <3>2
  <2>4. ASSUME NEW id \in tasksToRemove' PROVE id \in DOMAIN U /\ (U[id].timeout < Now <=> id \in overdue')
    <3>1. id \in D
      BY <1>1, <2>4 DEF IInv, Recent, D
    <3>2. id \in DOMAIN U
      BY <1>10, <3>1
    <3>3. CASE id = e.id /\ e.type \notin {"poll", "end"}
      <4>1. U[id].timeout = e.time + Timeout
        BY <1>10, <3>2, <3>3
      <4>2. overdue' = IF e.time + Timeout < Now THEN overdue \cup {id} ELSE overdue \ {id}
        BY <1>1, <1>9, <3>2, <3>3
      <4> HIDE DEF Timeout, Now
      <4> QED BY <3>2, <4>1, <4>2
    <3>4. CASE id # e.id \/ e.type \in {"poll", "end"}
      <4>1. id \in tasksToRemove
        BY <1>1, <2>4, <3>4
      <4>2. U[id] = mMonitoredTasks[id]
        BY <1>10, <3>2, <3>4
      <4>3. id \in overdue' <=> id \in overdue
        BY <1>1, <3>4
      <4> QED BY <3>2, <4>1, <4>2, <4>3 DEF IInv, Recent
    <3> QED BY <3>3, <3>4
  <2> QED BY <1>2, <1>9, <2>2, <2>3, <2>4 DEF IInv, Recent
<1>16. Phases' /\ Watchdogs'
  BY <1>2 DEF IInv, Phases, InRound, Watchdogs
<1>17. e.type = "stop" => e.id \in D
  <2> SUFFICES ASSUME e.type = "stop" PROVE e.id \in D
    OBVIOUS
  <2>1. e.id \in Queued("stop") /\ e.id \notin Queued("start") /\ e.id \in stopped
    BY <1>5, <1>13 DEF IInv, InOrder, Queued
  <2> QED BY <2>1 DEF IInv, Watched, Typed, D
<1>18. /\ Ids(batch', "start") = IF e.type = "start" THEN Ids(batch, "start") \ {e.id} ELSE Ids(batch, "start")
       /\ Ids(batch', "stop") = IF e.type = "stop" THEN Ids(batch, "stop") \ {e.id} ELSE Ids(batch, "stop")
       /\ tasksToRemove' = IF e.type = "stop" THEN tasksToRemove \cup {e.id} ELSE tasksToRemove
  BY <1>1, <1>13, <1>17 DEF D
<1>19. /\ overdue' \subseteq overdue \cup (IF e.id \in DOMAIN U THEN {e.id} ELSE {})
       /\ \A id : id # e.id => (id \in overdue' <=> id \in overdue)
       /\ e.id \notin DOMAIN U => overdue' = overdue
  BY <1>1, <1>9
<1>20. overdue' \subseteq (1 .. started) \ Queued("start")'
  <2>1. Queued("start")' \subseteq Queued("start") /\ (e.type = "start" => e.id \notin Queued("start")')
    BY <1>2, <1>5, <1>18 DEF IInv, InOrder, Queued
  <2>2. e.id \in DOMAIN U => e.id \in 1 .. started /\ e.id \notin Queued("start")'
    BY <1>6, <1>7, <1>10, <2>1 DEF IInv, Watched, D
  <2>3. overdue \subseteq (1 .. started) \ Queued("start")
    BY DEF IInv, InOrder
  <2> QED BY <1>19, <2>1, <2>2, <2>3
<1>21. InOrder'
  <2>1. overdue' \subseteq (1 .. started') \ Queued("start")'
    BY <1>2, <1>20
  <2> QED BY <1>2, <1>5, <1>13, <1>18, <2>1 DEF IInv, InOrder, Queued
<1>22. Watched'
  BY <1>2, <1>5, <1>6, <1>9, <1>10, <1>18 DEF IInv, InOrder, Watched, Queued, D
<1>23. HungCount'
  <2>1. {id \in DOMAIN U : U[id].hung} = {id \in D : mMonitoredTasks[id].hung}
    BY <1>10
  <2>2. overdue' \ DOMAIN U = overdue \ D
    <3>1. e.type = "start" => e.id \notin overdue
      BY <1>5 DEF IInv, InOrder, Queued
    <3> QED BY <1>10, <1>19, <3>1
  <2> QED BY <1>2, <1>9, <2>1, <2>2 DEF IInv, HungCount, D
<1> QED BY <1>14, <1>15, <1>16, <1>21, <1>22, <1>23 DEF IInv

\* The round ends: the hung tasks are counted anew, those among them that are erased are the
\* tasks whose last event came too late.
LEMMA EndRoundKeeps == ASSUME IInv, EndRound PROVE IInv'
<1> DEFINE T == mMonitoredTasks
           D == DOMAIN mMonitoredTasks
           late == {id \in D : T[id].timeout < Now}
           hung == {id \in D : T[id].hung}
<1>1. /\ InRound /\ batch = <<>> /\ monitor' \in {"waiting", "exited"} /\ tasksToRemove' = {}
      /\ mHungTasks' = mHungTasks + Cardinality(late \ hung) - Cardinality(hung \ late)
      /\ mMonitoredTasks' = [id \in Surviving |-> [T[id] EXCEPT !.hung = id \in late]]
      /\ UNCHANGED <<mEventQueue, batch, lag, overdue, stack, loose, stopped, started>>
  BY DEF EndRound, clients
<1>2. T \in [D -> Task] /\ D \subseteq 1 .. started /\ started \in Nat
      /\ mHungTasks = Cardinality(hung) + Cardinality(overdue \ D)
  BY DEF IInv, Typed, HungCount
<1>3. Surviving = D \ tasksToRemove
  BY DEF Surviving
<1>4. \A id \in tasksToRemove : id \in D /\ (id \in late <=> id \in overdue)
  BY DEF IInv, Recent
<1>5. IsFiniteSet(late) /\ IsFiniteSet(hung) /\ IsFiniteSet(overdue)
  <2>1. IsFiniteSet(1 .. started)
    BY <1>2, FS_Interval
  <2>2. late \subseteq 1 .. started /\ hung \subseteq 1 .. started /\ overdue \subseteq 1 .. started
    BY <1>2 DEF IInv, InOrder
  <2> QED BY <2>1, <2>2, FS_Subset
<1> HIDE DEF late, hung, D, T
<1>6. PICK U : U = mMonitoredTasks'
  OBVIOUS
<1>7. /\ DOMAIN U = D \ tasksToRemove /\ U \in [DOMAIN U -> Task]
      /\ \A id \in DOMAIN U : U[id].hung = (id \in late)
  <2>1. \A id \in D : T[id] \in Task
    BY <1>2
  <2>2. U = [id \in D \ tasksToRemove |-> [T[id] EXCEPT !.hung = id \in late]]
    BY <1>1, <1>3, <1>6
  <2>3. \A id \in D : /\ [T[id] EXCEPT !.hung = id \in late] \in Task
                      /\ [T[id] EXCEPT !.hung = id \in late].hung = (id \in late)
    <3>1. \A x \in Task, b \in BOOLEAN : [x EXCEPT !.hung = b] \in Task /\ [x EXCEPT !.hung = b].hung = b
      BY DEF Task
    <3>2. \A id : (id \in late) \in BOOLEAN
      OBVIOUS
    <3> QED BY <2>1, <3>1, <3>2
  <2> QED BY <2>2, <2>3
<1>8. Typed'
  <2>1. DOMAIN U \subseteq 1 .. started
    BY <1>2, <1>7
  <2>2. Cardinality(late \ hung) \in Nat /\ Cardinality(hung \ late) \in Nat
    BY <1>5, FS_Difference, FS_CardinalityType
  <2>3. mHungTasks' \in Int
    BY <1>1, <2>2 DEF IInv, Typed
  <2> QED BY <1>1, <1>6, <1>7, <2>1, <2>3 DEF IInv, Typed
<1>9. Recent'
  BY <1>1 DEF IInv, Recent
<1>10. Phases' /\ Watchdogs'
  BY <1>1 DEF IInv, Phases, InRound, Watchdogs
<1>11. InOrder'
  BY <1>1 DEF IInv, InOrder, Queued
<1>12. Watched'
  BY <1>1, <1>4, <1>6, <1>7 DEF IInv, InOrder, Watched, Queued, D
<1>13. HungCount'
  <2> DEFINE erased == late \cap tasksToRemove
             gone == overdue \ D
             stay == late \ tasksToRemove
  <2>1. {id \in DOMAIN U : U[id].hung} = stay
    BY <1>7 DEF late
  <2>2. overdue \ DOMAIN U = gone \cup erased /\ gone \cap erased = {}
    BY <1>4, <1>7
  <2>3. stay \cup erased = late /\ stay \cap erased = {}
    OBVIOUS
  <2>4. IsFiniteSet(stay) /\ IsFiniteSet(erased) /\ IsFiniteSet(gone) /\ IsFiniteSet(late \cap hung)
    <3>1. stay \subseteq late /\ erased \subseteq late /\ gone \subseteq overdue /\ late \cap hung \subseteq late
      OBVIOUS
    <3> QED BY <1>5, <3>1, FS_Subset
  <2>5. /\ Cardinality(late \ hung) = Cardinality(late) - Cardinality(late \cap hung)
        /\ Cardinality(hung \ late) = Cardinality(hung) - Cardinality(hung \cap late)
        /\ late \cap hung = hung \cap late
    BY <1>5, FS_Difference
  <2>6. /\ Cardinality(late) = Cardinality(stay) + Cardinality(erased)
        /\ Cardinality(overdue \ DOMAIN U) = Cardinality(gone) + Cardinality(erased)
    <3>1. ASSUME NEW A, NEW B, IsFiniteSet(A), IsFiniteSet(B), A \cap B = {}
          PROVE  Cardinality(A \cup B) = Cardinality(A) + Cardinality(B)
      <4>1. Cardinality(A \cup B) = Cardinality(A) + Cardinality(B) - Cardinality({})
        BY <3>1, FS_Union
      <4>2. Cardinality(A) \in Nat /\ Cardinality(B) \in Nat /\ Cardinality({}) = 0
        BY <3>1, FS_CardinalityType, FS_EmptySet
      <4> QED BY <4>1, <4>2
    <3> HIDE DEF stay, erased, gone
    <3>2. Cardinality(stay \cup erased) = Cardinality(stay) + Cardinality(erased)
      BY <2>3, <2>4, <3>1
    <3>3. Cardinality(gone \cup erased) = Cardinality(gone) + Cardinality(erased)
      BY <2>2, <2>4, <3>1
    <3> QED BY <2>2, <2>3, <3>2, <3>3
  <2>7. PICK a, b, c, d, e, g \in Nat :
           /\ a = Cardinality(late) /\ b = Cardinality(hung) /\ c = Cardinality(hung \cap late)
           /\ d = Cardinality(stay) /\ e = Cardinality(erased) /\ g = Cardinality(gone)
    BY <1>5, <2>4, <2>5, FS_CardinalityType
  <2>8. mHungTasks' = d + (g + e)
    <3>1. mHungTasks' = (b + g) + (a - c) - (b - c) /\ a = d + e
      BY <1>1, <1>2, <2>5, <2>6, <2>7
    <3> QED BY <2>7, <3>1
  <2> HIDE DEF stay, gone, erased
  <2>9. mHungTasks' = Cardinality({id \in DOMAIN U : U[id].hung}) + Cardinality(overdue \ DOMAIN U)
    BY <2>1, <2>6, <2>7, <2>8
  <2> QED BY <1>1, <1>6, <2>9 DEF HungCount
<1> QED BY <1>8, <1>9, <1>10, <1>11, <1>12, <1>13 DEF IInv


\* A tick moves an event back by a unit at most, and changes nothing else of it.
LEMMA AgedFacts ==
    ASSUME NEW q \in Seq(Event), NEW r, r = Aged(q)
    PROVE  /\ r \in Seq(Event) /\ DOMAIN r = 1 .. Len(q)
           /\ \A i \in 1 .. Len(q) : /\ r[i].type = q[i].type /\ r[i].id = q[i].id
                                     /\ r[i].time \in Int /\ r[i].time >= q[i].time - Unit
<1>1. DOMAIN q = 1 .. Len(q) /\ Len(q) \in Nat /\ \A i \in 1 .. Len(q) : q[i] \in Event
  OBVIOUS
<1>2. Unit \in Nat /\ LongAgo \in Int
  BY Ages DEF LongAgo
<1>3. \A x \in Int : Back(x, LongAgo) \in Int /\ Back(x, LongAgo) >= x - Unit
  BY <1>2 DEF Back
<1>4. r = [i \in 1 .. Len(q) |-> [q[i] EXCEPT !.time = Back(q[i].time, LongAgo)]]
  BY <1>1 DEF Aged
<1> HIDE DEF Back, LongAgo, Unit
<1>5. \A e \in Event : /\ [e EXCEPT !.time = Back(e.time, LongAgo)] \in Event
                       /\ [e EXCEPT !.time = Back(e.time, LongAgo)].type = e.type
                       /\ [e EXCEPT !.time = Back(e.time, LongAgo)].id = e.id
                       /\ [e EXCEPT !.time = Back(e.time, LongAgo)].time = Back(e.time, LongAgo)
                       /\ e.time \in Int
  BY <1>3 DEF Event
<1>6. \A i \in 1 .. Len(q) : r[i] \in Event
  BY <1>1, <1>4, <1>5
<1>7. r \in Seq(Event) /\ DOMAIN r = 1 .. Len(q)
  BY <1>1, <1>4, <1>6
<1>8. \A i \in 1 .. Len(q) : /\ r[i].type = q[i].type /\ r[i].id = q[i].id
                             /\ r[i].time \in Int /\ r[i].time >= q[i].time - Unit
  <2> SUFFICES ASSUME NEW i \in 1 .. Len(q)
               PROVE  /\ r[i].type = q[i].type /\ r[i].id = q[i].id
                      /\ r[i].time \in Int /\ r[i].time >= q[i].time - Unit
    OBVIOUS
  <2>1. PICK e \in Event : e = q[i]
    BY <1>1
  <2>2. r[i] = [e EXCEPT !.time = Back(e.time, LongAgo)]
    BY <1>4, <2>1
  <2>3. r[i].type = e.type /\ r[i].id = e.id /\ r[i].time = Back(e.time, LongAgo) /\ e.time \in Int
    BY <1>5, <2>1, <2>2
  <2> QED BY <1>3, <2>1, <2>3
<1> QED BY <1>7, <1>8

\* Time passes: what is queued and taken is allowed to be a unit older.
LEMMA TickKeeps == ASSUME IInv, Tick PROVE IInv'
<1>1. /\ monitor # "applying" /\ lag < MaxLag /\ lag' = lag + 1
      /\ UNCHANGED <<monitor, tasksToRemove, mHungTasks, overdue, stack, loose, stopped, started>>
  BY DEF Tick
<1>2. PICK q, b : q = mEventQueue' /\ b = batch'
  OBVIOUS
<1>3. q = Aged(mEventQueue) /\ b = Aged(batch)
  BY <1>2 DEF Tick
<1>4. tasksToRemove = {} /\ lag \in Nat /\ MaxLag \in Nat /\ lag + 1 \in 0 .. MaxLag
  BY <1>1, HealthAssumption DEF IInv, Phases, Typed
<1>5. mEventQueue \in Seq(Event) /\ batch \in Seq(Event)
  BY DEF IInv, Typed
<1>6. /\ q \in Seq(Event) /\ DOMAIN q = 1 .. Len(mEventQueue)
      /\ \A i \in 1 .. Len(mEventQueue) : /\ q[i].type = mEventQueue[i].type /\ q[i].id = mEventQueue[i].id
                                          /\ q[i].time \in Int /\ q[i].time >= mEventQueue[i].time - Unit
  BY <1>3, <1>5, AgedFacts
<1>7. /\ b \in Seq(Event) /\ DOMAIN b = 1 .. Len(batch)
      /\ \A i \in 1 .. Len(batch) : /\ b[i].type = batch[i].type /\ b[i].id = batch[i].id
                                    /\ b[i].time \in Int /\ b[i].time >= batch[i].time - Unit
  BY <1>3, <1>5, AgedFacts
<1>8. /\ Len(q) = Len(mEventQueue) /\ (StartThenStop(q) <=> StartThenStop(mEventQueue))
      /\ \A type : Ids(q, type) = Ids(mEventQueue, type) /\ (NoRepeat(q, type) <=> NoRepeat(mEventQueue, type))
  BY <1>5, <1>6, IdsAged
<1>9. /\ Len(b) = Len(batch) /\ (StartThenStop(b) <=> StartThenStop(batch))
      /\ \A type : Ids(b, type) = Ids(batch, type) /\ (NoRepeat(b, type) <=> NoRepeat(batch, type))
  BY <1>5, <1>7, IdsAged
<1>10. PICK U : U = mMonitoredTasks'
  OBVIOUS
<1>11. /\ DOMAIN U = DOMAIN mMonitoredTasks /\ U \in [DOMAIN U -> Task]
       /\ \A id \in DOMAIN U : U[id].hung = mMonitoredTasks[id].hung
  <2>1. PICK T : T = mMonitoredTasks
    OBVIOUS
  <2>2. T \in [DOMAIN T -> Task]
    BY <2>1 DEF IInv, Typed
  <2>3. U = [id \in DOMAIN T |-> [T[id] EXCEPT !.timeout = Back(T[id].timeout, Past), !.last = Back(T[id].last, LongAgo)]]
    BY <1>10, <2>1 DEF Tick
  <2>4. \A x \in Int : Back(x, Past) \in Int /\ Back(x, LongAgo) \in Int
    BY Ages DEF Back, Past, LongAgo
  <2> HIDE DEF Back, Past, LongAgo
  <2>5. \A x \in Task :
           /\ [x EXCEPT !.timeout = Back(x.timeout, Past), !.last = Back(x.last, LongAgo)] \in Task
           /\ [x EXCEPT !.timeout = Back(x.timeout, Past), !.last = Back(x.last, LongAgo)].hung = x.hung
    BY <2>4 DEF Task
  <2>6. DOMAIN U = DOMAIN T /\ (\A id \in DOMAIN T : U[id] \in Task /\ U[id].hung = T[id].hung)
    BY <2>2, <2>3, <2>5
  <2>7. U \in [DOMAIN U -> Task]
    BY <2>3, <2>6
  <2> QED BY <2>1, <2>6, <2>7
<1>12. Typed'
  BY <1>1, <1>2, <1>4, <1>6, <1>7, <1>10, <1>11 DEF IInv, Typed
<1>13. Recent'
  <2>1. ASSUME NEW i \in 1 .. Len(q) PROVE q[i].time >= Old(lag + 1)
    <3>1. /\ mEventQueue[i].time >= Old(lag) /\ q[i].time >= mEventQueue[i].time - Unit
          /\ mEventQueue[i].time \in Int /\ q[i].time \in Int
      <4>1. i \in 1 .. Len(mEventQueue) /\ mEventQueue[i] \in Event
        BY <1>5, <1>8, <2>1
      <4> QED BY <1>6, <4>1 DEF IInv, Recent, Event
    <3>2. Old(lag) \in Int /\ Old(lag + 1) = Old(lag) - Unit /\ Unit \in Nat
      BY <1>4, OneTick
    <3> QED BY <3>1, <3>2
  <2>2. ASSUME NEW i \in 1 .. Len(b) PROVE b[i].time >= Old(MaxLag + (lag + 1))
    <3>1. /\ batch[i].time >= Old(MaxLag + lag) /\ b[i].time >= batch[i].time - Unit
          /\ batch[i].time \in Int /\ b[i].time \in Int
      <4>1. i \in 1 .. Len(batch) /\ batch[i] \in Event
        BY <1>5, <1>9, <2>2
      <4> QED BY <1>7, <4>1 DEF IInv, Recent, Event
    <3>2. MaxLag + lag \in Nat /\ MaxLag + (lag + 1) = (MaxLag + lag) + 1
      BY <1>4
    <3>3. Old(MaxLag + lag) \in Int /\ Old((MaxLag + lag) + 1) = Old(MaxLag + lag) - Unit /\ Unit \in Nat
      BY <3>2, OneTick
    <3> QED BY <3>1, <3>2, <3>3
  <2> QED BY <1>1, <1>2, <1>4, <2>1, <2>2 DEF Recent
<1>14. Phases' /\ Watchdogs'
  <2>1. batch = <<>> => b = <<>>
    BY <1>7, <1>9
  <2> QED BY <1>1, <1>2, <2>1 DEF IInv, Phases, InRound, Watchdogs
<1>15. InOrder'
  BY <1>1, <1>2, <1>8, <1>9 DEF IInv, InOrder, Queued
<1>16. Watched'
  BY <1>1, <1>2, <1>8, <1>9, <1>10, <1>11 DEF IInv, Watched, Queued
<1>17. HungCount'
  <2>1. {id \in DOMAIN U : U[id].hung} = {id \in DOMAIN mMonitoredTasks : mMonitoredTasks[id].hung}
    BY <1>11
  <2>2. overdue' \ DOMAIN U = overdue \ DOMAIN mMonitoredTasks
    BY <1>1, <1>11
  <2>3. mHungTasks = Cardinality({id \in DOMAIN mMonitoredTasks : mMonitoredTasks[id].hung})
                       + Cardinality(overdue \ DOMAIN mMonitoredTasks)
    BY DEF IInv, HungCount
  <2>4. mHungTasks' = Cardinality({id \in DOMAIN U : U[id].hung}) + Cardinality(overdue' \ DOMAIN U)
    BY <1>1, <2>1, <2>2, <2>3
  <2> QED BY <1>10, <2>4 DEF HungCount
<1> QED BY <1>12, <1>13, <1>14, <1>15, <1>16, <1>17 DEF IInv

----------------------------------------------------------------------------
(* The invariant, and what it is for.                                       *)

\* It holds when the monitor starts.
LEMMA InitHolds == Init => IInv
<1> SUFFICES ASSUME Init PROVE IInv
  OBVIOUS
<1>1. /\ <<>> \in Seq(Event) /\ StartThenStop(<<>>) /\ Len(<<>>) = 0 /\ DOMAIN <<>> = {}
      /\ \A type : Ids(<<>>, type) = {} /\ NoRepeat(<<>>, type)
  BY DEF Ids, StartThenStop, NoRepeat
<1>2. Typed
  <2>1. 0 \in 0 .. MaxLag /\ <<>> \in Seq(1 .. 0) /\ mMonitoredTasks \in [{} -> Task]
    BY HealthAssumption DEF Init
  <2> QED BY <1>1, <2>1 DEF Init, Typed
<1>3. Recent /\ Phases /\ Watchdogs
  BY <1>1 DEF Init, Recent, Phases, Watchdogs, InRound
<1>4. InOrder /\ Watched
  BY <1>1 DEF Init, InOrder, Watched, Queued
<1>5. HungCount
  <2>1. {id \in DOMAIN mMonitoredTasks : mMonitoredTasks[id].hung} = {}
    BY <1>1 DEF Init
  <2>2. overdue \ DOMAIN mMonitoredTasks = {}
    BY DEF Init
  <2> QED BY <2>1, <2>2, FS_EmptySet DEF Init, HungCount
<1> QED BY <1>2, <1>3, <1>4, <1>5 DEF IInv

\* Every step keeps it.
LEMMA StepKeeps == IInv /\ [Next]_vars => IInv'
<1> SUFFICES ASSUME IInv, [Next]_vars PROVE IInv'
  OBVIOUS
<1>1. ASSUME NEW t \in Threads, StartTask(t) \/ EndWatchdog(t) \/ Release(t) PROVE IInv'
  BY <1>1, StartTaskKeeps, EndWatchdogKeeps, ReleaseKeeps
<1>2. ASSUME NEW id \in 1 .. started, TouchTask(id) \/ StopLoose(id) PROVE IInv'
  BY <1>2, TouchTaskKeeps, StopLooseKeeps
<1>3. CASE Poll \/ Destroy
  BY <1>3, PollKeeps
<1>4. CASE Swap \/ ApplyEvent
  BY <1>4, SwapKeeps, ApplyEventKeeps
<1>5. CASE EndRound \/ Tick
  BY <1>5, EndRoundKeeps, TickKeeps
<1>6. CASE UNCHANGED vars
  <2>1. UNCHANGED <<mEventQueue, batch, monitor, tasksToRemove, mMonitoredTasks, mHungTasks,
                    lag, overdue, stack, loose, stopped, started>>
    BY <1>6 DEF vars, monitoring, round, clients
  <2> QED BY <2>1 DEF IInv, Typed, Recent, Phases, InRound, Watchdogs, InOrder, Queued, Watched, HungCount
<1> QED BY <1>1, <1>2, <1>3, <1>4, <1>5, <1>6 DEF Next

\* So every behaviour has it.
THEOREM IInvHolds == Spec => []IInv
BY InitHolds, StepKeeps, PTL DEF Spec

\* The count in the reports is at every moment the number of tasks that hang and of the erased
\* ones whose last event was applied too late, whatever the timeout and the lag: those leave
\* the count too high for ever, and nothing else does (HealthMonitor.cpp:174, 227, 245).
THEOREM CountIsRight == Spec => []HungCount
<1>1. IInv => HungCount
  BY DEF IInv
<1> QED BY <1>1, IInvHolds, PTL

\* So it is exact where the timeout is longer than any event can wait for the monitor, which
\* the monitor's user must see to: startMonitoringTask accepts shorter ones
\* (HealthMonitor.cpp:65).
THEOREM ExactWhenPrompt ==
    ASSUME Threshold > 2 * MaxLag
    PROVE  Spec => [](mHungTasks = Cardinality({id \in DOMAIN mMonitoredTasks : mMonitoredTasks[id].hung}))
<1>1. Init => overdue = {}
  BY DEF Init
<1>2. ASSUME IInv, overdue = {}, [Next]_vars PROVE overdue' = {}
  <2>1. CASE ApplyEvent
    <3>1. PICK e : e = Head(batch) /\ overdue' \subseteq overdue \cup (IF e.time + Timeout < Now THEN {e.id} ELSE {})
      BY <2>1 DEF ApplyEvent
    <3>2. e = batch[1] /\ 1 \in 1 .. Len(batch) /\ e \in Event
      <4>1. batch \in Seq(Event) /\ batch # <<>>
        BY <1>2, <2>1 DEF ApplyEvent, IInv, Typed
      <4> QED BY <3>1, <4>1
    <3>3. e.time >= Old(MaxLag + lag) /\ e.time \in Int
      BY <1>2, <3>2 DEF IInv, Recent, Event
    <3>4. MaxLag + lag \in Nat /\ MaxLag + MaxLag \in Nat /\ MaxLag + lag <= MaxLag + MaxLag
      BY <1>2, HealthAssumption DEF IInv, Typed
    <3>5. MaxLag + MaxLag + 1 <= Threshold /\ Threshold \in Nat
      BY HealthAssumption
    <3>6. Old(MaxLag + lag) + Timeout >= 0 /\ Old(MaxLag + lag) \in Int
      <4>1. Threshold - 1 \in Nat /\ MaxLag + lag <= Threshold - 1
        BY <3>4, <3>5
      <4>2. Old(Threshold - 1) <= Old(MaxLag + lag) /\ Old(Threshold - 1) \in Int /\ Old(MaxLag + lag) \in Int
        BY <3>4, <4>1, OneTick, Older
      <4>3. Old(Threshold - 1) = - Timeout
        BY <3>5 DEF Old, Timeout
      <4>4. Timeout \in Int
        BY Ages
      <4> HIDE DEF Old, Timeout
      <4> QED BY <4>2, <4>3, <4>4
    <3>7. Timeout \in Int
      BY Ages
    <3> HIDE DEF Old, Timeout
    <3>8. ~(e.time + Timeout < Now)
      BY <3>3, <3>6, <3>7 DEF Now
    <3> QED BY <1>2, <3>1, <3>8
  <2>2. CASE ~ApplyEvent
    BY <1>2, <2>2 DEF Next, StartTask, EndWatchdog, Release, TouchTask, StopLoose, StopTask, Poll, Destroy,
                      Push, Swap, EndRound, Tick, monitoring, vars
  <2> QED BY <2>1, <2>2
<1>3. IInv /\ overdue = {} => mHungTasks = Cardinality({id \in DOMAIN mMonitoredTasks : mMonitoredTasks[id].hung})
  <2> SUFFICES ASSUME IInv, overdue = {}
               PROVE  mHungTasks = Cardinality({id \in DOMAIN mMonitoredTasks : mMonitoredTasks[id].hung})
    OBVIOUS
  <2>1. overdue \ DOMAIN mMonitoredTasks = {}
    OBVIOUS
  <2>2. PICK hung : hung = {id \in DOMAIN mMonitoredTasks : mMonitoredTasks[id].hung}
    OBVIOUS
  <2>3. IsFiniteSet(hung)
    <3>1. hung \subseteq 1 .. started /\ started \in Nat
      BY <2>2 DEF IInv, Typed
    <3>2. IsFiniteSet(1 .. started)
      BY <3>1, FS_Interval
    <3> QED BY <3>1, <3>2, FS_Subset
  <2>4. Cardinality(hung) \in Nat
    BY <2>3, FS_CardinalityType
  <2> QED BY <2>1, <2>2, <2>4, FS_EmptySet DEF IInv, HungCount
<1>4. Spec => [](overdue = {})
  <2>1. IInv /\ overdue = {} /\ [Next]_vars => (overdue = {})'
    BY <1>2
  <2> QED BY <1>1, <2>1, IInvHolds, PTL DEF Spec
<1> QED BY <1>3, <1>4, IInvHolds, PTL

\* A task is watched from when its start is applied until the round that applies its stop
\* ends, whatever touches come late or are passed on by its children (HealthMonitor.cpp:182).
THEOREM NoneLost == Spec => []WatchedUntilStopped
<1>1. ASSUME IInv PROVE WatchedUntilStopped
  <2>1. /\ ToSet(mEventQueue) = {mEventQueue[i] : i \in 1 .. Len(mEventQueue)}
        /\ ToSet(batch) = {batch[i] : i \in 1 .. Len(batch)}
    <3>1. DOMAIN mEventQueue = 1 .. Len(mEventQueue) /\ DOMAIN batch = 1 .. Len(batch)
      BY <1>1 DEF IInv, Typed
    <3> QED BY <3>1 DEF ToSet
  <2>2. ASSUME NEW type
        PROVE  {e.id : e \in {x \in ToSet(mEventQueue) \cup ToSet(batch) : x.type = type}} = Queued(type)
    BY <2>1 DEF Queued, Ids
  <2> QED BY <1>1, <2>2 DEF IInv, Watched, WatchedUntilStopped
<1> QED BY <1>1, IInvHolds, PTL

----------------------------------------------------------------------------
(* A task that is reported does hang.  What the reports need of the times:  *)
(* a deadline is that of some event of the task, and the events of a task   *)
(* and of its children are applied out of order by one batch at most.       *)

\* The time of the last swap.
Swapped == Old(lag) + Unit

\* Ids grow: a parent was started before its children.
Numbered ==
    /\ started <= MaxTasks
    /\ \A i \in 1 .. Len(mEventQueue) : mEventQueue[i].id <= started /\ mEventQueue[i].time <= Now
    /\ \A i \in 1 .. Len(mEventQueue) : mEventQueue[i].type = "start" => mEventQueue[i].parent < mEventQueue[i].id
    /\ \A i \in 1 .. Len(batch) : batch[i].type = "start" => batch[i].parent < batch[i].id
    /\ \A id \in DOMAIN mMonitoredTasks : mMonitoredTasks[id].parent < id

\* A deadline is no later than that of the latest event, which is one of the rounds so far.
Deadlines ==
    \A id \in DOMAIN mMonitoredTasks :
        /\ mMonitoredTasks[id].timeout >= Past
        /\ mMonitoredTasks[id].timeout <= mMonitoredTasks[id].last + Timeout
        /\ mMonitoredTasks[id].last <= Swapped + MaxTasks

\* Events are applied level by level: up to m they have been passed on k times, then once
\* more.  Without what passing on adds, they were queued between low and the swap; and the
\* latest event of a task was applied before this round, or in it and passed on at most k times.
Level(k, m, i) == IF i <= m THEN k ELSE k + 1
Taken(low, k, m) ==
    /\ low >= Swapped + Old(MaxLag) /\ m <= Len(batch)
    /\ \A i \in 1 .. Len(batch) :
          /\ batch[i].time >= low + Level(k, m, i) /\ batch[i].time <= Swapped + Level(k, m, i)
          /\ batch[i].id + Level(k, m, i) <= MaxTasks
    /\ \A id \in DOMAIN mMonitoredTasks :
          \/ mMonitoredTasks[id].last <= low + Unit + MaxTasks
          \/ mMonitoredTasks[id].last <= Swapped + k
Levels == InRound => \E low \in Int, k \in Nat, m \in Nat : Taken(low, k, m)

\* The deadline of a task answers for its latest event and for those of its children, or a
\* touch is on its way to it.
Answers(id, c) == mMonitoredTasks[id].timeout >= mMonitoredTasks[c].last + Timeout + Old(MaxLag)
Family ==
    \A id, c \in DOMAIN mMonitoredTasks :
        c = id \/ mMonitoredTasks[c].parent = id =>
            \/ Answers(id, c)
            \/ c # id /\ \E i \in 1 .. Len(batch) : batch[i].type = "touch" /\ batch[i].id = id

HInv == Numbered /\ Deadlines /\ Levels /\ Family

\* The times compared below.
LEMMA Times ==
    ASSUME IInv
    PROVE  /\ Unit \in Nat /\ Unit = MaxTasks + 1 /\ MaxTasks \in Nat /\ Timeout \in Int
           /\ lag \in Nat /\ Old(lag) \in Int /\ Old(MaxLag) \in Int /\ MaxLag \in Nat
           /\ Swapped \in Int /\ Swapped <= 0 /\ Swapped = Old(lag) + Unit
           /\ Old(MaxLag) <= Old(lag) /\ Old(MaxLag) + Unit + Unit <= 0
           /\ LongAgo \in Int /\ LongAgo <= Old(MaxLag) - Unit /\ LongAgo <= Old(MaxLag + MaxLag)
           /\ Past = LongAgo + Timeout /\ Past \in Int
<1>1. MaxTasks \in Nat /\ MaxLag \in Nat \ {0} /\ lag \in 0 .. MaxLag
  BY HealthAssumption DEF IInv, Typed
<1>2. /\ Old(lag) \in Int /\ Old(MaxLag) \in Int /\ Old(MaxLag) <= Old(lag) /\ Old(lag) <= Old(0)
      /\ Old(MaxLag) <= Old(1) /\ Old(1) = Old(0) - Unit
  <2>1. 0 \in Nat /\ 1 \in Nat /\ 0 + 1 = 1 /\ lag \in Nat /\ 0 <= lag /\ lag <= MaxLag /\ 1 <= MaxLag
    BY <1>1
  <2> QED BY <1>1, <2>1, OneTick, Older
<1>3. Old(0) = - Unit /\ Unit \in Nat /\ Timeout \in Int
  BY Ages
<1>4. LongAgo \in Int /\ LongAgo <= Old(MaxLag) - Unit /\ LongAgo <= Old(MaxLag + MaxLag)
  <2>1. MaxLag + 1 \in Nat /\ MaxLag + MaxLag \in Nat /\ MaxLag + 1 <= MaxLag + MaxLag
    BY <1>1
  <2>2. /\ Old(MaxLag + 1) = Old(MaxLag) - Unit /\ Old(MaxLag + 1) \in Int
        /\ Old(MaxLag + MaxLag) \in Int /\ Old(MaxLag + MaxLag) <= Old(MaxLag + 1)
    BY <1>1, <2>1, OneTick, Older
  <2>3. LongAgo \in Int /\ LongAgo <= Old(MaxLag + MaxLag)
    BY Ages
  <2> HIDE DEF Old, Unit, LongAgo
  <2> QED BY <2>2, <2>3
<1>5. Unit = MaxTasks + 1
  BY DEF Unit
<1>6. Past = LongAgo + Timeout /\ Swapped = Old(lag) + Unit
  BY DEF Past, Swapped
<1> HIDE DEF Old, Unit, Timeout, LongAgo, Past, Swapped
<1> QED BY <1>1, <1>2, <1>3, <1>4, <1>5, <1>6

\* A client queues an event at most, and leaves the rest alone.
LEMMA QueuedKeeps ==
    ASSUME IInv, HInv, UNCHANGED <<batch, monitor, mMonitoredTasks, lag>>,
           started' \in Nat, started <= started', started' <= MaxTasks,
           \/ mEventQueue' = mEventQueue
           \/ \E e \in Event : /\ mEventQueue' = Append(mEventQueue, e)
                               /\ e.id <= started' /\ e.time <= Now
                               /\ e.type = "start" => e.parent < e.id
    PROVE  HInv'
<1>1. Deadlines' /\ Levels' /\ Family'
  BY DEF HInv, Deadlines, Levels, Family, Swapped, InRound, Taken, Answers
<1>2. /\ mEventQueue \in Seq(Event) /\ started \in Nat
      /\ \A i \in 1 .. Len(mEventQueue) : mEventQueue[i] \in Event /\ mEventQueue[i].id \in Nat
  <2>1. mEventQueue \in Seq(Event) /\ started \in Nat
    BY DEF IInv, Typed
  <2>2. \A i \in 1 .. Len(mEventQueue) : mEventQueue[i] \in Event
    BY <2>1
  <2> QED BY <2>1, <2>2 DEF Event
<1>3. \A i \in 1 .. Len(mEventQueue) :
         /\ mEventQueue[i].id <= started' /\ mEventQueue[i].time <= Now
         /\ mEventQueue[i].type = "start" => mEventQueue[i].parent < mEventQueue[i].id
  BY <1>2 DEF HInv, Numbered
<1>4. \A i \in 1 .. Len(mEventQueue') :
         /\ mEventQueue'[i].id <= started' /\ mEventQueue'[i].time <= Now
         /\ mEventQueue'[i].type = "start" => mEventQueue'[i].parent < mEventQueue'[i].id
  <2>1. CASE mEventQueue' = mEventQueue
    BY <1>3, <2>1
  <2>2. ASSUME NEW e \in Event, mEventQueue' = Append(mEventQueue, e), e.id <= started', e.time <= Now,
               e.type = "start" => e.parent < e.id
        PROVE  \A i \in 1 .. Len(mEventQueue') :
                  /\ mEventQueue'[i].id <= started' /\ mEventQueue'[i].time <= Now
                  /\ mEventQueue'[i].type = "start" => mEventQueue'[i].parent < mEventQueue'[i].id
    <3>1. \A i \in 1 .. Len(mEventQueue') :
             mEventQueue'[i] = e \/ (i \in 1 .. Len(mEventQueue) /\ mEventQueue'[i] = mEventQueue[i])
      BY <1>2, <2>2
    <3> QED BY <1>3, <2>2, <3>1
  <2> QED BY <2>1, <2>2
<1>5. Numbered'
  BY <1>4 DEF HInv, Numbered
<1> QED BY <1>1, <1>5 DEF HInv

\* The events that are queued are those of the actions of the clients.
LEMMA ClientsKeep ==
    ASSUME IInv, HInv,
           \/ \E t \in Threads : StartTask(t) \/ EndWatchdog(t) \/ Release(t)
           \/ \E id \in 1 .. started : TouchTask(id) \/ StopLoose(id)
           \/ Poll \/ Destroy
    PROVE  HInv'
<1>1. started \in Nat /\ started <= MaxTasks /\ stack \in [Threads -> Seq(1 .. started)] /\ MaxTasks \in Nat
  BY Times DEF IInv, Typed, HInv, Numbered
<1>2. ASSUME NEW type \in {"start", "touch", "stop", "poll", "end"}, NEW id \in Nat, NEW time \in Int,
             NEW parent \in Nat, Push(type, id, time, parent), id <= started', time <= Now,
             type = "start" => parent < id,
             started' \in Nat, started <= started', started' <= MaxTasks
      PROVE  HInv'
  <2> DEFINE e == [type |-> type, id |-> id, time |-> time, parent |-> parent]
  <2>1. e \in Event /\ e.type = type /\ e.id = id /\ e.time = time /\ e.parent = parent
    BY DEF Event
  <2>2. mEventQueue' = Append(mEventQueue, e) /\ UNCHANGED <<batch, monitor, mMonitoredTasks, lag>>
    BY <1>2 DEF Push, monitoring, round
  <2> HIDE DEF e
  <2> QED BY <1>2, <2>1, <2>2, QueuedKeeps
<1>3. NoTask \in Nat /\ NoTask = 0 /\ Now = 0
  BY DEF NoTask, Now
<1>4. \A id : \A time \in ReadTime(id) : time \in Int /\ time <= Now
  BY Times DEF ReadTime, Now
<1>5. ASSUME NEW type \in {"touch", "stop", "poll", "end"}, NEW id \in Nat, NEW time \in Int,
             Push(type, id, time, NoTask), id <= started, time <= Now, started' = started
      PROVE  HInv'
  <2>1. type \in {"start", "touch", "stop", "poll", "end"} /\ type # "start"
    BY <1>5
  <2>2. PICK parent \in Nat : parent = NoTask
    BY <1>3
  <2>3. id <= started' /\ started' \in Nat /\ started <= started' /\ started' <= MaxTasks
    BY <1>1, <1>5
  <2> QED BY <1>2, <1>5, <2>1, <2>2, <2>3
<1>6. ASSUME NEW t \in Threads, StartTask(t) PROVE HInv'
  <2>1. PICK parent : parent = IF stack[t] = <<>> THEN NoTask ELSE Last(stack[t])
    OBVIOUS
  <2>2. started < MaxTasks /\ started' = started + 1 /\ Push("start", started + 1, Now, parent)
    BY <1>6, <2>1 DEF StartTask
  <2>3. parent \in Nat /\ parent < started + 1
    <3>1. CASE stack[t] = <<>>
      BY <1>1, <1>3, <2>1, <3>1
    <3>2. CASE stack[t] # <<>>
      <4>1. parent \in 1 .. started
        BY <1>1, <2>1, <3>2, FrontLast
      <4> QED BY <1>1, <4>1
    <3> QED BY <3>1, <3>2
  <2>4. PICK n \in Nat : n = started + 1
    BY <1>1
  <2>5. /\ n <= started' /\ started' \in Nat /\ started <= started' /\ started' <= MaxTasks
        /\ Now \in Int /\ Now <= Now /\ parent < n
    BY <1>1, <1>3, <2>2, <2>3, <2>4
  <2>6. Push("start", n, Now, parent)
    BY <2>2, <2>4
  <2> QED BY <1>2, <2>3, <2>5, <2>6
<1>7. ASSUME NEW id \in 1 .. started, StopTask(id) PROVE HInv'
  <2>1. PICK time \in ReadTime(id) : Push("stop", id, time, NoTask)
    BY <1>7 DEF StopTask
  <2>2. started' = started /\ id \in Nat /\ id <= started
    BY <1>1, <1>7 DEF StopTask
  <2> QED BY <1>4, <1>5, <2>1, <2>2
<1>8. ASSUME NEW t \in Threads, EndWatchdog(t) PROVE HInv'
  <2>1. stack[t] # <<>> /\ StopTask(Last(stack[t]))
    BY <1>8 DEF EndWatchdog
  <2>2. Last(stack[t]) \in 1 .. started
    BY <1>1, <2>1, FrontLast
  <2> QED BY <1>7, <2>1, <2>2
<1>9. ASSUME NEW t \in Threads, Release(t) PROVE HInv'
  <2>1. UNCHANGED <<mEventQueue, batch, monitor, mMonitoredTasks, lag, started>>
    BY <1>9 DEF Release, monitoring, round
  <2> QED BY <1>1, <2>1, QueuedKeeps
<1>10. ASSUME NEW id \in 1 .. started, TouchTask(id) PROVE HInv'
  <2>1. PICK time \in ReadTime(id) : Push("touch", id, time, NoTask)
    BY <1>10 DEF TouchTask
  <2>2. started' = started /\ id \in Nat /\ id <= started
    BY <1>1, <1>10 DEF TouchTask
  <2> QED BY <1>4, <1>5, <2>1, <2>2
<1>11. ASSUME NEW id \in 1 .. started, StopLoose(id) PROVE HInv'
  BY <1>7, <1>11 DEF StopLoose
<1>12. ASSUME Poll \/ Destroy PROVE HInv'
  <2>1. started' = started /\ (Push("poll", NoTask, Now, NoTask) \/ Push("end", NoTask, Now, NoTask))
    BY <1>12 DEF Poll, Destroy
  <2>2. Now \in Int /\ NoTask <= started /\ Now <= Now
    BY <1>1, <1>3
  <2> QED BY <1>3, <1>5, <2>1, <2>2
<1> QED BY <1>6, <1>8, <1>9, <1>10, <1>11, <1>12

\* What was queued since the last swap is taken: nothing of it has been passed on.
LEMMA SwapTimes == ASSUME IInv, HInv, Swap PROVE HInv'
<1>1. /\ monitor = "waiting" /\ monitor' = "taken" /\ batch' = mEventQueue /\ mEventQueue' = <<>> /\ lag' = 0
      /\ UNCHANGED <<mMonitoredTasks, started>>
  BY DEF Swap, clients
<1>2. batch = <<>> /\ mEventQueue \in Seq(Event) /\ started \in Nat
  BY <1>1 DEF IInv, Phases, InRound, Typed
<1>3. \A i \in 1 .. Len(mEventQueue) : mEventQueue[i] \in Event /\ mEventQueue[i].time \in Int /\ mEventQueue[i].id \in Nat
  <2>1. \A i \in 1 .. Len(mEventQueue) : mEventQueue[i] \in Event
    BY <1>2
  <2> QED BY <2>1 DEF Event
<1>4. Swapped' = 0 /\ Now = 0
  <2>1. Old(0) = - Unit /\ Unit \in Int
    BY Ages
  <2>2. Swapped' = Old(lag') + Unit
    BY DEF Swapped, Old
  <2> QED BY <1>1, <2>1, <2>2 DEF Now
<1>5. Numbered'
  <2>1. Len(<<>>) = 0
    OBVIOUS
  <2> QED BY <1>1, <2>1 DEF HInv, Numbered
<1>6. ASSUME NEW id \in DOMAIN mMonitoredTasks PROVE mMonitoredTasks[id].last \in Int
  BY DEF IInv, Typed, Task
<1>7. Deadlines'
  <2>1. \A id \in DOMAIN mMonitoredTasks : mMonitoredTasks[id].last <= Swapped + MaxTasks
    BY DEF HInv, Deadlines
  <2>2. \A id \in DOMAIN mMonitoredTasks : mMonitoredTasks[id].last <= Swapped' + MaxTasks
    BY <1>4, <1>6, <2>1, Times
  <2> QED BY <1>1, <2>2 DEF HInv, Deadlines
<1>8. PICK low \in Int, n \in Nat : low = Old(lag) /\ n = Len(mEventQueue)
  BY <1>2, Times
<1>9. Taken(low, 0, n)'
  <2>1. low >= Swapped' + Old(MaxLag)
    BY <1>4, <1>8, Times
  <2>2. ASSUME NEW i \in 1 .. n
        PROVE  /\ mEventQueue[i].time >= low + Level(0, n, i) /\ mEventQueue[i].time <= Swapped' + Level(0, n, i)
               /\ mEventQueue[i].id + Level(0, n, i) <= MaxTasks
    <3>1. Level(0, n, i) = 0 /\ i \in 1 .. Len(mEventQueue)
      BY <1>8 DEF Level
    <3>2. mEventQueue[i].time >= low
      BY <1>8, <3>1 DEF IInv, Recent
    <3>3. mEventQueue[i].time <= 0 /\ mEventQueue[i].id <= started /\ started <= MaxTasks
      BY <1>4, <3>1 DEF HInv, Numbered
    <3>4. mEventQueue[i].id <= MaxTasks /\ mEventQueue[i].id \in Nat /\ mEventQueue[i].time \in Int
      <4>1. PICK id : id = mEventQueue[i].id
        OBVIOUS
      <4>2. id \in Nat /\ id <= started /\ mEventQueue[i].time \in Int
        BY <1>3, <3>1, <3>3, <4>1
      <4>3. id <= MaxTasks
        BY <1>2, <3>3, <4>2, Times
      <4> QED BY <4>1, <4>2, <4>3
    <3> QED BY <1>4, <3>1, <3>2, <3>3, <3>4
  <2>3. ASSUME NEW id \in DOMAIN mMonitoredTasks
        PROVE  mMonitoredTasks[id].last <= low + Unit + MaxTasks
    BY <1>6, <1>8, Times DEF HInv, Deadlines
  <2> HIDE DEF Level
  <2> QED BY <1>1, <1>8, <2>1, <2>2, <2>3 DEF Taken
<1>10. Levels'
  <2>1. 0 \in Nat
    OBVIOUS
  <2> QED BY <1>9, <2>1 DEF Levels
<1>11. Family'
  BY <1>1, <1>2 DEF HInv, Family, Answers
<1> QED BY <1>5, <1>7, <1>10, <1>11 DEF HInv

\* A tick moves a time back by a unit, or it is long ago.
LEMMA AgedTimes ==
    ASSUME IInv, NEW q \in Seq(Event), NEW r, r = Aged(q)
    PROVE  \A i \in 1 .. Len(q) : /\ r[i].parent = q[i].parent
                                  /\ r[i].time = LongAgo \/ r[i].time = q[i].time - Unit
<1>1. DOMAIN q = 1 .. Len(q) /\ \A i \in 1 .. Len(q) : q[i] \in Event
  OBVIOUS
<1>2. r = [i \in 1 .. Len(q) |-> [q[i] EXCEPT !.time = Back(q[i].time, LongAgo)]]
  BY <1>1 DEF Aged
<1>3. \A x \in Int : Back(x, LongAgo) = LongAgo \/ Back(x, LongAgo) = x - Unit
  BY DEF Back
<1> HIDE DEF Back, LongAgo, Unit
<1>4. \A e \in Event : /\ [e EXCEPT !.time = Back(e.time, LongAgo)].parent = e.parent
                       /\ [e EXCEPT !.time = Back(e.time, LongAgo)].time = Back(e.time, LongAgo)
                       /\ e.time \in Int
  BY DEF Event
<1> SUFFICES ASSUME NEW i \in 1 .. Len(q)
             PROVE  /\ r[i].parent = q[i].parent
                    /\ r[i].time = LongAgo \/ r[i].time = q[i].time - Unit
  OBVIOUS
<1>5. PICK e \in Event : e = q[i]
  BY <1>1
<1>6. r[i] = [e EXCEPT !.time = Back(e.time, LongAgo)]
  BY <1>2, <1>5
<1>7. r[i].parent = e.parent /\ r[i].time = Back(e.time, LongAgo) /\ e.time \in Int
  BY <1>4, <1>6
<1> QED BY <1>3, <1>5, <1>7

\* All times move back together; where one stops, what it bounds is earlier still.
LEMMA TickTimes == ASSUME IInv, IInv', HInv, Tick PROVE HInv'
<1>1. /\ monitor # "applying" /\ lag < MaxLag /\ lag' = lag + 1
      /\ UNCHANGED <<monitor, started>>
  BY DEF Tick
<1>2. PICK q, b, U : q = mEventQueue' /\ b = batch' /\ U = mMonitoredTasks'
  OBVIOUS
<1>3. mEventQueue \in Seq(Event) /\ batch \in Seq(Event) /\ q = Aged(mEventQueue) /\ b = Aged(batch)
  BY <1>2 DEF IInv, Typed, Tick
<1>4. /\ q \in Seq(Event) /\ Len(q) = Len(mEventQueue)
      /\ \A i \in 1 .. Len(mEventQueue) :
            /\ q[i].type = mEventQueue[i].type /\ q[i].id = mEventQueue[i].id /\ q[i].parent = mEventQueue[i].parent
            /\ q[i].time = LongAgo \/ q[i].time = mEventQueue[i].time - Unit
  <2>1. /\ q \in Seq(Event) /\ DOMAIN q = 1 .. Len(mEventQueue)
        /\ \A i \in 1 .. Len(mEventQueue) : q[i].type = mEventQueue[i].type /\ q[i].id = mEventQueue[i].id
    BY <1>3, AgedFacts
  <2>2. Len(q) = Len(mEventQueue)
    BY <1>3, <2>1, IdsAged
  <2> QED BY <1>3, <2>1, <2>2, AgedTimes
<1>5. /\ b \in Seq(Event) /\ Len(b) = Len(batch)
      /\ \A i \in 1 .. Len(batch) :
            /\ b[i].type = batch[i].type /\ b[i].id = batch[i].id /\ b[i].parent = batch[i].parent
            /\ b[i].time = LongAgo \/ b[i].time = batch[i].time - Unit
            /\ b[i].time >= batch[i].time - Unit
  <2>1. /\ b \in Seq(Event) /\ DOMAIN b = 1 .. Len(batch)
        /\ \A i \in 1 .. Len(batch) : /\ b[i].type = batch[i].type /\ b[i].id = batch[i].id
                                      /\ b[i].time >= batch[i].time - Unit
    BY <1>3, AgedFacts
  <2>2. Len(b) = Len(batch)
    BY <1>3, <2>1, IdsAged
  <2> QED BY <1>3, <2>1, <2>2, AgedTimes
<1>6. /\ \A i \in 1 .. Len(mEventQueue) : mEventQueue[i].time \in Int /\ mEventQueue[i].id \in Nat
      /\ \A i \in 1 .. Len(batch) : batch[i].time \in Int /\ batch[i].id \in Nat
  <2>1. /\ \A i \in 1 .. Len(mEventQueue) : mEventQueue[i] \in Event
        /\ \A i \in 1 .. Len(batch) : batch[i] \in Event
    BY <1>3
  <2> QED BY <2>1 DEF Event
<1>7. /\ DOMAIN U = DOMAIN mMonitoredTasks
      /\ \A id \in DOMAIN U :
            /\ U[id].parent = mMonitoredTasks[id].parent
            /\ mMonitoredTasks[id].timeout \in Int /\ mMonitoredTasks[id].last \in Int
            /\ U[id].timeout \in Int /\ U[id].last \in Int
            /\ U[id].timeout >= Past /\ U[id].timeout >= mMonitoredTasks[id].timeout - Unit
            /\ U[id].timeout = Past \/ U[id].timeout = mMonitoredTasks[id].timeout - Unit
            /\ U[id].last >= LongAgo /\ U[id].last >= mMonitoredTasks[id].last - Unit
            /\ U[id].last = LongAgo \/ U[id].last = mMonitoredTasks[id].last - Unit
  <2>1. PICK T : T = mMonitoredTasks
    OBVIOUS
  <2>2. T \in [DOMAIN T -> Task]
    BY <2>1 DEF IInv, Typed
  <2>3. U = [id \in DOMAIN T |-> [T[id] EXCEPT !.timeout = Back(T[id].timeout, Past), !.last = Back(T[id].last, LongAgo)]]
    BY <1>2, <2>1 DEF Tick
  <2>4. \A x, limit \in Int : /\ Back(x, limit) \in Int /\ Back(x, limit) >= limit /\ Back(x, limit) >= x - Unit
                              /\ Back(x, limit) = limit \/ Back(x, limit) = x - Unit
    <3>1. Unit \in Int
      BY Times
    <3> HIDE DEF Unit
    <3> QED BY <3>1 DEF Back
  <2>5. Past \in Int /\ LongAgo \in Int
    BY Times
  <2> HIDE DEF Back, Past, LongAgo
  <2>6. \A x \in Task :
           /\ [x EXCEPT !.timeout = Back(x.timeout, Past), !.last = Back(x.last, LongAgo)].parent = x.parent
           /\ [x EXCEPT !.timeout = Back(x.timeout, Past), !.last = Back(x.last, LongAgo)].timeout = Back(x.timeout, Past)
           /\ [x EXCEPT !.timeout = Back(x.timeout, Past), !.last = Back(x.last, LongAgo)].last = Back(x.last, LongAgo)
           /\ x.timeout \in Int /\ x.last \in Int
    BY DEF Task
  <2>7. DOMAIN U = DOMAIN T
    BY <2>3
  <2>8. ASSUME NEW id \in DOMAIN T
        PROVE  /\ U[id].parent = T[id].parent /\ T[id].timeout \in Int /\ T[id].last \in Int
               /\ U[id].timeout = Back(T[id].timeout, Past) /\ U[id].last = Back(T[id].last, LongAgo)
    <3>1. PICK x \in Task : x = T[id]
      BY <2>2
    <3>2. U[id] = [x EXCEPT !.timeout = Back(x.timeout, Past), !.last = Back(x.last, LongAgo)]
      BY <2>3, <3>1
    <3> QED BY <2>6, <3>1, <3>2
  <2>9. ASSUME NEW id \in DOMAIN T
        PROVE  /\ U[id].timeout \in Int /\ U[id].last \in Int
               /\ U[id].timeout >= Past /\ U[id].timeout >= T[id].timeout - Unit
               /\ U[id].timeout = Past \/ U[id].timeout = T[id].timeout - Unit
               /\ U[id].last >= LongAgo /\ U[id].last >= T[id].last - Unit
               /\ U[id].last = LongAgo \/ U[id].last = T[id].last - Unit
    <3>1. PICK x \in Int, y \in Int : x = T[id].timeout /\ y = T[id].last
      BY <2>8
    <3>2. U[id].timeout = Back(x, Past) /\ U[id].last = Back(y, LongAgo)
      BY <2>8, <3>1
    <3>3. /\ Back(x, Past) \in Int /\ Back(x, Past) >= Past /\ Back(x, Past) >= x - Unit
          /\ Back(x, Past) = Past \/ Back(x, Past) = x - Unit
      BY <2>4, <2>5
    <3>4. /\ Back(y, LongAgo) \in Int /\ Back(y, LongAgo) >= LongAgo /\ Back(y, LongAgo) >= y - Unit
          /\ Back(y, LongAgo) = LongAgo \/ Back(y, LongAgo) = y - Unit
      BY <2>4, <2>5
    <3> QED BY <3>1, <3>2, <3>3, <3>4
  <2> QED BY <2>1, <2>7, <2>8, <2>9
<1>8. PICK S \in Int, R \in Int : S = Swapped /\ R = Swapped' /\ R = S - Unit /\ R >= Old(MaxLag) /\ S <= 0
  <2>1. Swapped' = Old(lag') + Unit
    BY DEF Swapped, Old
  <2>2. lag \in Nat /\ Old(lag + 1) = Old(lag) - Unit /\ Unit \in Nat /\ Old(lag) \in Int
    BY Times, OneTick
  <2>3. Old(lag + 1) >= Old(MaxLag) /\ Old(MaxLag) \in Int
    <3>1. lag + 1 \in Nat /\ MaxLag \in Nat /\ lag + 1 <= MaxLag
      BY <1>1, <2>2, Times
    <3> QED BY <3>1, Older, Times
  <2>4. Swapped = Old(lag) + Unit /\ Swapped <= 0
    BY Times
  <2> HIDE DEF Old, Unit, Swapped
  <2> QED BY <1>1, <2>1, <2>2, <2>3, <2>4
<1> HIDE DEF Old, Unit, Timeout, LongAgo, Past, Swapped, Back, Aged
<1>9. Numbered'
  <2>1. ASSUME NEW i \in 1 .. Len(q) PROVE q[i].time <= Now
    <3>1. PICK x \in Int : x = mEventQueue[i].time
      BY <1>4, <1>6
    <3>2. x <= Now /\ (q[i].time = LongAgo \/ q[i].time = x - Unit)
      BY <1>4, <3>1 DEF HInv, Numbered
    <3>3. Unit >= 0 /\ Unit \in Int /\ LongAgo <= 0 /\ LongAgo \in Int /\ Now = 0
      <4>1. PICK L \in Int : L = Old(MaxLag)
        BY Times
      <4>2. Unit \in Nat /\ LongAgo \in Int /\ LongAgo <= L - Unit /\ L + Unit + Unit <= 0
        BY <4>1, Times
      <4> QED BY <4>2 DEF Now
    <3> QED BY <3>2, <3>3
  <2>2. \A i \in 1 .. Len(q) : q[i].id <= started /\ (q[i].type = "start" => q[i].parent < q[i].id)
    BY <1>4 DEF HInv, Numbered
  <2>3. \A i \in 1 .. Len(b) : b[i].type = "start" => b[i].parent < b[i].id
    BY <1>5 DEF HInv, Numbered
  <2>4. started <= MaxTasks /\ \A id \in DOMAIN U : U[id].parent < id
    BY <1>7 DEF HInv, Numbered
  <2> QED BY <1>1, <1>2, <2>1, <2>2, <2>3, <2>4 DEF Numbered
<1>10. Deadlines'
  <2> SUFFICES ASSUME NEW id \in DOMAIN U
               PROVE  U[id].timeout >= Past /\ U[id].timeout <= U[id].last + Timeout /\ U[id].last <= R + MaxTasks
    BY <1>2, <1>8 DEF Deadlines, Past, LongAgo, Unit, Timeout
  <2>1. /\ mMonitoredTasks[id].timeout <= mMonitoredTasks[id].last + Timeout
        /\ mMonitoredTasks[id].last <= S + MaxTasks
    BY <1>7, <1>8 DEF HInv, Deadlines
  <2>2. U[id].timeout <= U[id].last + Timeout
    BY <1>7, <2>1, Times
  <2>3. U[id].last <= R + MaxTasks
    BY <1>7, <1>8, <2>1, Times
  <2> QED BY <1>7, <2>2, <2>3
<1>11. Levels'
  <2>1. CASE ~InRound
    BY <1>1, <2>1 DEF Levels, InRound
  <2>2. CASE InRound
    <3>1. PICK low \in Int, k \in Nat, m \in Nat : Taken(low, k, m)
      BY <2>2 DEF HInv, Levels
    <3>2. PICK bottom \in Int : bottom = low - Unit
      BY Times
    <3>3. bottom >= R + Old(MaxLag) /\ m <= Len(b)
      <4>1. PICK L \in Int : L = Old(MaxLag)
        BY Times
      <4>2. low >= S + L /\ m <= Len(batch)
        BY <1>8, <3>1, <4>1 DEF Taken
      <4>3. Unit \in Int
        BY Times
      <4> QED BY <1>5, <1>8, <3>2, <4>1, <4>2, <4>3
    <3>4. ASSUME NEW i \in 1 .. Len(b)
          PROVE  /\ b[i].time >= bottom + Level(k, m, i) /\ b[i].time <= R + Level(k, m, i)
                 /\ b[i].id + Level(k, m, i) <= MaxTasks
      <4>1. PICK l \in Nat : l = Level(k, m, i)
        BY DEF Level
      <4>2. /\ batch[i].time >= low + l /\ batch[i].time <= S + l /\ batch[i].id + l <= MaxTasks
            /\ batch[i].time \in Int /\ b[i].id = batch[i].id
            /\ b[i].time = LongAgo \/ b[i].time = batch[i].time - Unit
            /\ b[i].time >= batch[i].time - Unit
        BY <1>5, <1>6, <1>8, <3>1, <4>1 DEF Taken
      <4>3. PICK x \in Int, y \in Int : x = batch[i].time /\ y = b[i].time
        <5>1. b[i] \in Event
          BY <1>5
        <5> QED BY <4>2, <5>1 DEF Event
      <4>4. Unit \in Nat /\ LongAgo \in Int /\ LongAgo <= R
        <5>1. LongAgo \in Int /\ Old(MaxLag) \in Int /\ LongAgo <= Old(MaxLag) - Unit /\ Unit \in Nat
          BY Times
        <5> QED BY <1>8, <5>1
      <4>5. y >= bottom + l /\ y <= R + l
        <5>1. PICK u \in Nat, g \in Int : u = Unit /\ g = LongAgo /\ g <= R
          BY <4>4
        <5>2. x >= low + l /\ x <= S + l /\ (y = g \/ y = x - u) /\ y >= x - u
          BY <4>2, <4>3, <5>1
        <5>3. R = S - u /\ bottom = low - u
          BY <1>8, <3>2, <5>1
        <5> QED BY <5>1, <5>2, <5>3
      <4> QED BY <4>1, <4>2, <4>3, <4>5
    <3>5. ASSUME NEW id \in DOMAIN U
          PROVE  U[id].last <= bottom + Unit + MaxTasks \/ U[id].last <= R + k
      <4>1. mMonitoredTasks[id].last <= low + Unit + MaxTasks \/ mMonitoredTasks[id].last <= S + k
        BY <1>7, <1>8, <3>1 DEF Taken
      <4>2. U[id].last = LongAgo \/ U[id].last = mMonitoredTasks[id].last - Unit
        BY <1>7
      <4>3. CASE U[id].last = LongAgo
        BY <1>8, <4>3, Times
      <4>4. CASE U[id].last = mMonitoredTasks[id].last - Unit
        BY <1>7, <1>8, <3>2, <4>1, <4>4, Times
      <4> QED BY <4>2, <4>3, <4>4
    <3>6. Taken(bottom, k, m)'
      <4> HIDE DEF Level
      <4> QED BY <1>2, <1>8, <3>3, <3>4, <3>5 DEF Taken, Old, Unit
    <3> QED BY <3>6 DEF Levels
  <2> QED BY <2>1, <2>2
<1>12. Family'
  <2> SUFFICES ASSUME NEW id \in DOMAIN U, NEW c \in DOMAIN U, c = id \/ U[c].parent = id
               PROVE  \/ U[id].timeout >= U[c].last + Timeout + Old(MaxLag)
                      \/ c # id /\ \E i \in 1 .. Len(b) : b[i].type = "touch" /\ b[i].id = id
    BY <1>2 DEF Family, Answers, Old, Unit, Timeout
  <2>1. CASE mMonitoredTasks[id].timeout >= mMonitoredTasks[c].last + Timeout + Old(MaxLag)
    <3>1. PICK a \in Int, x \in Int, d \in Int, y \in Int, L \in Int :
             /\ a = mMonitoredTasks[id].timeout /\ x = mMonitoredTasks[c].last
             /\ d = U[id].timeout /\ y = U[c].last /\ L = Old(MaxLag)
      BY <1>7, Times
    <3>2. /\ a >= x + Timeout + L /\ d >= Past /\ d >= a - Unit
          /\ y = LongAgo \/ y = x - Unit
      BY <1>7, <2>1, <3>1
    <3>3. Unit \in Nat /\ Timeout \in Int /\ Past = LongAgo + Timeout /\ LongAgo \in Int /\ L + Unit + Unit <= 0
      BY <3>1, Times
    <3>4. d >= y + Timeout + L
      BY <3>2, <3>3
    <3> QED BY <3>1, <3>4
  <2>2. CASE c # id /\ \E i \in 1 .. Len(batch) : batch[i].type = "touch" /\ batch[i].id = id
    BY <1>5, <2>2
  <2> QED BY <1>7, <2>1, <2>2 DEF HInv, Family, Answers
<1> QED BY <1>9, <1>10, <1>11, <1>12 DEF HInv

\* What is passed on: a touch of the parent, if the task is there and has one.
LEMMA PassedOn ==
    ASSUME NEW T, NEW e, NEW p, p = Passed(T, e)
    PROVE  IF e.id \in DOMAIN T /\ T[e.id].parent # NoTask
           THEN Len(p) = 1 /\ p[1].type = "touch" /\ p[1].id = T[e.id].parent /\ p[1].time = e.time + 1
           ELSE p = <<>> /\ Len(p) = 0
<1>1. CASE e.id \in DOMAIN T /\ T[e.id].parent # NoTask
  <2> DEFINE x == [type |-> "touch", id |-> T[e.id].parent, time |-> e.time + 1, parent |-> NoTask]
  <2>1. p = <<x>>
    BY <1>1 DEF Passed
  <2>2. x.type = "touch" /\ x.id = T[e.id].parent /\ x.time = e.time + 1
    OBVIOUS
  <2> HIDE DEF x
  <2> QED BY <1>1, <2>1, <2>2
<1>2. CASE ~(e.id \in DOMAIN T /\ T[e.id].parent # NoTask)
  BY <1>2 DEF Passed
<1> QED BY <1>1, <1>2

\* The level of the first event is k, or else may be taken for it.
LEMMA FirstLevel ==
    ASSUME InRound, batch # <<>>, batch \in Seq(Event), IInv, Levels
    PROVE  \E low \in Int, k \in Nat, m \in Nat : Taken(low, k, m) /\ m >= 1
<1>1. PICK low \in Int, k \in Nat, m \in Nat : Taken(low, k, m)
  BY DEF Levels
<1>2. Len(batch) \in Nat /\ Len(batch) >= 1
  OBVIOUS
<1>3. CASE m >= 1
  BY <1>1, <1>3
<1>4. CASE m = 0
  <2>1. PICK j \in Nat, n \in Nat : j = k + 1 /\ n = Len(batch)
    <3>1. k + 1 \in Nat
      OBVIOUS
    <3> QED BY <1>2, <3>1
  <2>2. \A i \in 1 .. Len(batch) : Level(j, n, i) = Level(k, m, i)
    BY <1>4, <2>1 DEF Level
  <2>3. ASSUME NEW id \in DOMAIN mMonitoredTasks, mMonitoredTasks[id].last <= Swapped + k
        PROVE  mMonitoredTasks[id].last <= Swapped + j
    <3>1. PICK x \in Int, S \in Int : x = mMonitoredTasks[id].last /\ S = Swapped
      BY Times DEF IInv, Typed, Task
    <3> QED BY <2>1, <2>3, <3>1
  <2> HIDE DEF Level
  <2>4. Taken(low, j, n)
    BY <1>1, <1>2, <2>1, <2>2, <2>3 DEF Taken
  <2> QED BY <1>2, <2>1, <2>4
<1> QED BY <1>3, <1>4

\* An event is applied: it makes its task answer for all that came before, and what it adds
\* to the times of a child is on its way to the parent.
LEMMA ApplyTimes == ASSUME IInv, IInv', HInv, ApplyEvent PROVE HInv'
<1>1. PICK e, p, T, U : /\ e = Head(batch) /\ T = mMonitoredTasks /\ U = mMonitoredTasks'
                        /\ p = Passed(U, e) /\ batch' = Tail(batch) \o p /\ U = Apply(T, e)
  BY DEF ApplyEvent
<1>2. /\ InRound /\ InRound' /\ batch # <<>> /\ UNCHANGED <<mEventQueue, lag, started>>
      /\ batch \in Seq(Event)
  BY DEF ApplyEvent, clients, InRound, IInv, Typed
<1>3. /\ e = batch[1] /\ 1 \in 1 .. Len(batch) /\ Len(batch) \in Nat
      /\ \A i \in 1 .. Len(batch) : batch[i] \in Event /\ batch[i].time \in Int /\ batch[i].id \in Nat
      /\ e \in Event /\ e.time \in Int /\ e.id \in Nat
  <2>1. e = batch[1] /\ 1 \in 1 .. Len(batch) /\ Len(batch) \in Nat
    BY <1>1, <1>2
  <2>2. \A i \in 1 .. Len(batch) : batch[i] \in Event
    BY <1>2
  <2>3. e \in Event
    BY <2>1, <2>2
  <2> QED BY <2>1, <2>2, <2>3 DEF Event
<1>4. /\ Tasks(T) /\ Tasks(U)
      /\ \A id \in DOMAIN T : T[id].timeout \in Int /\ T[id].last \in Int /\ T[id].parent \in Nat
      /\ \A id \in DOMAIN U : /\ U[id].timeout \in Int /\ U[id].last \in Int /\ U[id].parent \in Nat
                              /\ id \in Nat /\ id >= 1
  <2>1. T \in [DOMAIN T -> Task] /\ U \in [DOMAIN U -> Task] /\ DOMAIN U \subseteq 1 .. started
    BY <1>1, <1>2 DEF IInv, Typed
  <2>2. started \in Nat
    BY DEF IInv, Typed
  <2> QED BY <2>1, <2>2 DEF Tasks, Task
<1>5. /\ \A id \in DOMAIN U : id # e.id => id \in DOMAIN T /\ U[id] = T[id]
      /\ e.type \notin {"start", "touch", "stop"} => U = T
      /\ e.type \in {"start", "touch", "stop"} /\ e.id \in DOMAIN U =>
            /\ U[e.id].timeout = e.time + Timeout /\ U[e.id].last >= e.time
            /\ U[e.id].last = e.time \/ (e.id \in DOMAIN T /\ U[e.id].last = T[e.id].last)
            /\ \/ e.type = "start" /\ U[e.id].parent \in {e.parent, NoTask}
               \/ e.id \in DOMAIN T /\ U[e.id].parent = T[e.id].parent
  BY <1>1, <1>3, <1>4, AppliedTimes
<1>6. IF e.id \in DOMAIN U /\ U[e.id].parent # NoTask
      THEN Len(p) = 1 /\ p[1].type = "touch" /\ p[1].id = U[e.id].parent /\ p[1].time = e.time + 1
      ELSE p = <<>> /\ Len(p) = 0
  BY <1>1, PassedOn
<1>7. PICK b : b = batch'
  OBVIOUS
<1>8. /\ Len(b) = Len(batch) - 1 + Len(p) /\ Len(p) \in Nat
      /\ \A i \in 2 .. Len(batch) : i - 1 \in 1 .. Len(b) /\ b[i - 1] = batch[i]
      /\ \A i \in 1 .. Len(b) : IF i < Len(batch) THEN b[i] = batch[i + 1]
                                ELSE i = Len(batch) /\ Len(p) = 1 /\ b[i] = p[1]
  <2>1. p \in Seq(Event) /\ Len(p) <= 1 /\ Len(p) \in Nat /\ \A i \in 1 .. Len(p) : p[i].type = "touch"
    BY <1>1, <1>3, <1>4, PassedFacts
  <2>2. /\ Len(b) = Len(batch) - 1 + Len(p)
        /\ \A i \in 2 .. Len(batch) : i - 1 \in 1 .. Len(b) /\ b[i - 1] = batch[i]
        /\ \A i \in 1 .. Len(b) : \/ i + 1 \in 2 .. Len(batch) /\ b[i] = batch[i + 1]
                                  \/ Len(p) = 1 /\ b[i] = p[1]
    <3>1. PICK q : q = batch
      OBVIOUS
    <3>2. q \in Seq(Event) /\ q # <<>> /\ b = Tail(q) \o p
      BY <1>1, <1>2, <1>7, <3>1
    <3> QED BY <2>1, <3>1, <3>2, FirstTaken
  <2>3. ASSUME NEW i \in 1 .. Len(b)
        PROVE  IF i < Len(batch) THEN b[i] = batch[i + 1]
               ELSE i = Len(batch) /\ Len(p) = 1 /\ b[i] = p[1]
    <3>1. CASE i < Len(batch)
      <4>1. i + 1 \in 2 .. Len(batch) /\ (i + 1) - 1 = i
        BY <1>3, <3>1
      <4> QED BY <2>2, <3>1, <4>1
    <3>2. CASE ~(i < Len(batch))
      <4>1. i = Len(batch) /\ Len(p) = 1
        BY <1>3, <2>1, <2>2, <3>2
      <4>2. i + 1 \notin 2 .. Len(batch)
        BY <1>3, <4>1
      <4> QED BY <2>2, <3>2, <4>1, <4>2
    <3> QED BY <3>1, <3>2
  <2> QED BY <2>1, <2>2, <2>3
<1>9. PICK low \in Int, k \in Nat, m \in Nat : Taken(low, k, m) /\ m >= 1
  BY <1>2, FirstLevel DEF HInv
<1>10. PICK S \in Int, L \in Int : S = Swapped /\ S = Swapped' /\ L = Old(MaxLag)
  BY <1>2, Times DEF Swapped, Old
<1>11. /\ low >= S + L /\ m <= Len(batch)
       /\ e.time >= low + k /\ e.time <= S + k /\ e.id + k <= MaxTasks /\ k <= MaxTasks
       /\ \A id \in DOMAIN T : T[id].last <= low + Unit + MaxTasks \/ T[id].last <= S + k
  <2>1. Level(k, m, 1) = k
    BY <1>9 DEF Level
  <2>2. e.time >= low + k /\ e.time <= S + k /\ e.id + k <= MaxTasks
    BY <1>3, <1>9, <1>10, <2>1 DEF Taken
  <2>3. k <= MaxTasks
    <3>1. PICK x \in Nat : x = e.id
      BY <1>3
    <3> QED BY <1>9, <2>2, <3>1, Times
  <2> QED BY <1>1, <1>9, <1>10, <2>2, <2>3 DEF Taken
<1>12. Unit \in Nat /\ Unit = MaxTasks + 1 /\ MaxTasks \in Nat /\ Timeout \in Int /\ L + Unit + Unit <= 0 /\ NoTask = 0
  BY <1>10, Times DEF NoTask
<1>13. \A id \in DOMAIN U : U[id].last <= low + Unit + MaxTasks \/ U[id].last <= S + k
  BY <1>5, <1>11
<1> HIDE DEF Old, Unit, Timeout, LongAgo, Past, Swapped, Level
<1>14. Numbered'
  <2>1. \A i \in 1 .. Len(b) : b[i].type = "start" => b[i].parent < b[i].id
    <3> SUFFICES ASSUME NEW i \in 1 .. Len(b), b[i].type = "start" PROVE b[i].parent < b[i].id
      OBVIOUS
    <3>1. p[1].type # "start" \/ Len(p) # 1
      BY <1>6
    <3>2. i < Len(batch) /\ b[i] = batch[i + 1] /\ i + 1 \in 1 .. Len(batch)
      BY <1>3, <1>8, <3>1
    <3> QED BY <3>2 DEF HInv, Numbered
  <2>2. \A id \in DOMAIN U : U[id].parent < id
    <3> SUFFICES ASSUME NEW id \in DOMAIN U PROVE U[id].parent < id
      OBVIOUS
    <3>1. \A c \in DOMAIN T : T[c].parent < c
      BY <1>1 DEF HInv, Numbered
    <3>2. e.type = "start" => e.parent < e.id
      BY <1>3 DEF HInv, Numbered
    <3>3. CASE id # e.id \/ e.type \notin {"start", "touch", "stop"}
      BY <1>5, <3>1, <3>3
    <3>4. CASE id = e.id /\ e.type \in {"start", "touch", "stop"}
      BY <1>4, <1>5, <1>12, <3>1, <3>2, <3>4
    <3> QED BY <3>3, <3>4
  <2> QED BY <1>1, <1>2, <1>7, <2>1, <2>2 DEF HInv, Numbered
<1>15. Deadlines'
  <2> SUFFICES ASSUME NEW id \in DOMAIN U
               PROVE  U[id].timeout >= Past /\ U[id].timeout <= U[id].last + Timeout /\ U[id].last <= S + MaxTasks
    BY <1>1, <1>10 DEF Deadlines, Past, LongAgo, Unit, Timeout
  <2>1. \A c \in DOMAIN T : /\ T[c].timeout >= Past /\ T[c].timeout <= T[c].last + Timeout
                            /\ T[c].last <= S + MaxTasks
    BY <1>1, <1>10 DEF HInv, Deadlines
  <2>2. CASE id # e.id \/ e.type \notin {"start", "touch", "stop"}
    BY <1>5, <2>1, <2>2
  <2>3. CASE id = e.id /\ e.type \in {"start", "touch", "stop"}
    <3>1. e.time + Timeout >= Past
      <4>1. e.time >= Old(MaxLag + lag)
        BY <1>3 DEF IInv, Recent
      <4>2. Old(MaxLag + lag) >= Old(MaxLag + MaxLag) /\ Old(MaxLag + lag) \in Int /\ Old(MaxLag + MaxLag) \in Int
        <5>1. MaxLag \in Nat /\ lag \in 0 .. MaxLag
          BY HealthAssumption DEF IInv, Typed
        <5>2. MaxLag + lag \in Nat /\ MaxLag + MaxLag \in Nat /\ MaxLag + lag <= MaxLag + MaxLag
          BY <5>1
        <5> QED BY <5>2, OneTick, Older
      <4>3. LongAgo \in Int /\ LongAgo <= Old(MaxLag + MaxLag) /\ Past = LongAgo + Timeout
        BY Times
      <4> QED BY <1>3, <1>12, <4>1, <4>2, <4>3
    <3>2. U[id].timeout = e.time + Timeout /\ U[id].last >= e.time
      BY <1>5, <2>3
    <3>3. U[id].last <= S + MaxTasks
      <4>1. U[id].last = e.time \/ (id \in DOMAIN T /\ U[id].last = T[id].last)
        BY <1>5, <2>3
      <4>2. e.time <= S + MaxTasks
        BY <1>3, <1>11, <1>12
      <4> QED BY <2>1, <4>1, <4>2
    <3> QED BY <1>3, <1>4, <1>12, <3>1, <3>2, <3>3
  <2> QED BY <2>2, <2>3
<1>16. Levels'
  <2>1. PICK n \in Nat : n = m - 1
    BY <1>9
  <2>2. n <= Len(b)
    BY <1>3, <1>8, <1>11, <2>1
  <2>3. ASSUME NEW i \in 1 .. Len(b)
        PROVE  /\ b[i].time >= low + Level(k, n, i) /\ b[i].time <= S + Level(k, n, i)
               /\ b[i].id + Level(k, n, i) <= MaxTasks
    <3>1. CASE i < Len(batch)
      <4>1. b[i] = batch[i + 1] /\ i + 1 \in 1 .. Len(batch)
        BY <1>3, <1>8, <3>1
      <4>2. Level(k, n, i) = Level(k, m, i + 1)
        BY <2>1 DEF Level
      <4> QED BY <1>9, <1>10, <4>1, <4>2 DEF Taken
    <3>2. CASE ~(i < Len(batch))
      <4>1. i = Len(batch) /\ Len(p) = 1 /\ b[i] = p[1]
        BY <1>8, <3>2
      <4>2. Level(k, n, i) = k + 1
        BY <1>3, <1>11, <2>1, <4>1 DEF Level
      <4>3. e.id \in DOMAIN U /\ b[i].id = U[e.id].parent /\ b[i].time = e.time + 1
        BY <1>6, <4>1
      <4>4. U[e.id].parent < e.id /\ U[e.id].parent \in Nat
        BY <1>1, <1>4, <1>14, <4>3 DEF Numbered
      <4>5. b[i].id + (k + 1) <= MaxTasks
        <5>1. PICK d \in Nat, f \in Nat : d = e.id /\ f = U[e.id].parent
          BY <1>3, <4>4
        <5>2. f < d /\ d + k <= MaxTasks /\ b[i].id = f
          BY <1>11, <4>3, <4>4, <5>1
        <5>3. f + (k + 1) <= MaxTasks
          BY <1>12, <5>2
        <5> QED BY <5>2, <5>3
      <4>6. b[i].time >= low + (k + 1) /\ b[i].time <= S + (k + 1)
        <5>1. PICK x \in Int, y \in Int : x = e.time /\ y = x + 1 /\ y = b[i].time
          <6>1. PICK x \in Int : x = e.time
            BY <1>3
          <6>2. x + 1 \in Int /\ x + 1 = b[i].time
            BY <4>3, <6>1
          <6> QED BY <6>1, <6>2
        <5>2. x >= low + k /\ x <= S + k /\ y = x + 1
          BY <1>11, <5>1
        <5>3. y >= low + (k + 1) /\ y <= S + (k + 1)
          BY <5>2
        <5> QED BY <5>1, <5>3
      <4> QED BY <4>2, <4>5, <4>6
    <3> QED BY <3>1, <3>2
  <2>4. Taken(low, k, n)'
    BY <1>1, <1>7, <1>10, <1>11, <1>13, <2>2, <2>3 DEF Taken, Old, Unit
  <2> QED BY <2>4 DEF Levels
<1>17. Family'
  <2> DEFINE Answered(id, c) == U[id].timeout >= U[c].last + Timeout + L
             Coming(id) == \E i \in 1 .. Len(b) : b[i].type = "touch" /\ b[i].id = id
  <2>1. ASSUME NEW id, NEW c, Answered(id, c) PROVE Answers(id, c)'
    <3>1. L = - (Unit * (MaxLag + 1)) /\ Timeout = Unit * Threshold
      BY <1>10 DEF Old, Timeout
    <3> QED BY <1>1, <2>1, <3>1 DEF Answers, Old, Unit, Timeout
  <2>2. ASSUME NEW id, Coming(id)
        PROVE  \E i \in 1 .. Len(batch') : batch'[i].type = "touch" /\ batch'[i].id = id
    BY <1>7, <2>2
  <2> HIDE DEF Answered, Coming
  <2>3. ASSUME \A id, c \in DOMAIN U : c = id \/ U[c].parent = id => Answered(id, c) \/ (c # id /\ Coming(id))
        PROVE  Family'
    BY <1>1, <2>1, <2>2, <2>3 DEF Family
  <2> USE DEF Answered, Coming
  <2> SUFFICES ASSUME NEW id \in DOMAIN U, NEW c \in DOMAIN U, c = id \/ U[c].parent = id
               PROVE  Answered(id, c) \/ (c # id /\ Coming(id))
    BY <2>3
  <2>4. CASE e.type \in {"start", "touch", "stop"} /\ id = e.id
    <3>1. U[id].timeout = e.time + Timeout
      BY <1>5, <2>4
    <3>2. PICK x \in Int, y \in Int : x = e.time /\ y = U[c].last
      BY <1>3, <1>4
    <3>3. y <= low + Unit + MaxTasks \/ y <= S + k
      BY <1>13, <3>2
    <3>4. x >= y + L
      BY <1>11, <1>12, <3>2, <3>3
    <3> QED BY <1>12, <3>1, <3>2, <3>4
  <2>5. CASE e.type \in {"start", "touch", "stop"} /\ id # e.id /\ c = e.id
    <3>1. e.id \in DOMAIN U /\ U[e.id].parent = id /\ id # NoTask /\ c # id
      BY <1>4, <1>12, <2>5
    <3>2. Len(p) = 1 /\ p[1].type = "touch" /\ p[1].id = id
      BY <1>6, <3>1
    <3>3. PICK i : i = Len(batch)
      OBVIOUS
    <3>4. i \in 1 .. Len(b) /\ b[i] = p[1]
      BY <1>3, <1>8, <3>2, <3>3
    <3> QED BY <3>1, <3>2, <3>4
  <2>6. CASE e.type \notin {"start", "touch", "stop"} \/ (id # e.id /\ c # e.id)
    <3>1. id \in DOMAIN T /\ c \in DOMAIN T /\ U[id] = T[id] /\ U[c] = T[c]
      BY <1>5, <2>6
    <3>2. \/ T[id].timeout >= T[c].last + Timeout + L
          \/ c # id /\ \E i \in 1 .. Len(batch) : batch[i].type = "touch" /\ batch[i].id = id
      BY <1>1, <1>10, <3>1 DEF HInv, Family, Answers
    <3>3. ASSUME NEW i \in 1 .. Len(batch), batch[i].type = "touch", batch[i].id = id
          PROVE  \E j \in 1 .. Len(b) : b[j].type = "touch" /\ b[j].id = id
      <4>1. i # 1
        BY <1>3, <2>6, <3>3
      <4>2. i \in 2 .. Len(batch)
        BY <1>3, <4>1
      <4> QED BY <1>8, <3>3, <4>2
    <3> QED BY <3>1, <3>2, <3>3
  <2> QED BY <2>4, <2>5, <2>6
<1> QED BY <1>14, <1>15, <1>16, <1>17 DEF HInv


\* A round marks the tasks whose deadline has passed.
LEMMA Marked ==
    ASSUME IInv, EndRound, NEW T, NEW U, T = mMonitoredTasks, U = mMonitoredTasks'
    PROVE  /\ DOMAIN U \subseteq DOMAIN T
           /\ \A id \in DOMAIN U : /\ U[id].timeout = T[id].timeout /\ U[id].last = T[id].last
                                   /\ U[id].parent = T[id].parent
                                   /\ U[id].hung <=> T[id].timeout < Now
                                   /\ T[id].timeout \in Int /\ T[id].last \in Int
<1> DEFINE late == {id \in DOMAIN T : T[id].timeout < Now}
<1>1. T \in [DOMAIN T -> Task]
  BY DEF IInv, Typed
<1>2. U = [id \in Surviving |-> [T[id] EXCEPT !.hung = id \in late]] /\ Surviving \subseteq DOMAIN T
  BY DEF EndRound, Surviving
<1>3. DOMAIN U = Surviving
  BY <1>2
<1>4. ASSUME NEW id \in DOMAIN U
      PROVE  /\ U[id].timeout = T[id].timeout /\ U[id].last = T[id].last
             /\ U[id].parent = T[id].parent /\ (U[id].hung <=> T[id].timeout < Now)
             /\ T[id].timeout \in Int /\ T[id].last \in Int
  <2>1. PICK x \in Task, h \in BOOLEAN : x = T[id] /\ h = (id \in late)
    <3>1. T[id] \in Task
      BY <1>1, <1>2, <1>3
    <3>2. (id \in late) \in BOOLEAN
      OBVIOUS
    <3> HIDE DEF late
    <3> QED BY <3>1, <3>2
  <2>2. U[id] = [x EXCEPT !.hung = h]
    BY <1>2, <1>3, <2>1
  <2>3. /\ U[id].timeout = x.timeout /\ U[id].last = x.last /\ U[id].parent = x.parent /\ U[id].hung = h
        /\ x.timeout \in Int /\ x.last \in Int
    BY <2>2 DEF Task
  <2>4. h <=> T[id].timeout < Now
    BY <1>2, <1>3, <2>1
  <2> QED BY <2>1, <2>3, <2>4
<1> HIDE DEF late
<1> QED BY <1>2, <1>3, <1>4

\* A round ends with all its events applied: no touch is on its way any more.
LEMMA EndRoundTimes == ASSUME IInv, HInv, EndRound PROVE HInv'
<1>1. /\ InRound /\ ~InRound' /\ batch = <<>> /\ UNCHANGED <<mEventQueue, batch, lag, started>>
  BY DEF EndRound, clients, InRound
<1>2. PICK T, U : T = mMonitoredTasks /\ U = mMonitoredTasks'
  OBVIOUS
<1>3. /\ DOMAIN U \subseteq DOMAIN T
      /\ \A id \in DOMAIN U : /\ U[id].timeout = T[id].timeout /\ U[id].last = T[id].last
                              /\ U[id].parent = T[id].parent
  BY <1>2, Marked
<1>4. Numbered'
  BY <1>1, <1>2, <1>3 DEF HInv, Numbered
<1>5. PICK S : S = Swapped /\ S = Swapped'
  BY <1>1 DEF Swapped, Old
<1>6. Deadlines'
  BY <1>2, <1>3, <1>5 DEF HInv, Deadlines, Past, LongAgo, Unit, Timeout
<1>7. Levels'
  BY <1>1 DEF Levels
<1>8. Family'
  <2> SUFFICES ASSUME NEW id \in DOMAIN U, NEW c \in DOMAIN U, c = id \/ U[c].parent = id
               PROVE  U[id].timeout >= U[c].last + Timeout + Old(MaxLag)
    BY <1>2 DEF Family, Answers, Old, Unit, Timeout
  <2>1. Len(batch) = 0
    BY <1>1
  <2>2. T[id].timeout >= T[c].last + Timeout + Old(MaxLag)
    BY <1>2, <1>3, <2>1 DEF HInv, Family, Answers
  <2> QED BY <1>3, <2>2
<1> QED BY <1>4, <1>6, <1>7, <1>8 DEF HInv

\* The times of a step, and of a behaviour.
LEMMA InitTimes == Init => HInv
<1> SUFFICES ASSUME Init PROVE HInv
  OBVIOUS
<1>1. /\ mEventQueue = <<>> /\ batch = <<>> /\ Len(<<>>) = 0 /\ DOMAIN mMonitoredTasks = {}
      /\ started = 0 /\ ~InRound
  BY DEF Init, InRound
<1>2. Numbered
  BY <1>1, HealthAssumption DEF Numbered
<1> QED BY <1>1, <1>2 DEF HInv, Deadlines, Levels, Family

LEMMA HStepKeeps == IInv /\ IInv' /\ HInv /\ [Next]_vars => HInv'
<1> SUFFICES ASSUME IInv, IInv', HInv, [Next]_vars PROVE HInv'
  OBVIOUS
<1>1. CASE \/ \E t \in Threads : StartTask(t) \/ EndWatchdog(t) \/ Release(t)
           \/ \E id \in 1 .. started : TouchTask(id) \/ StopLoose(id)
           \/ Poll \/ Destroy
  BY <1>1, ClientsKeep
<1>2. CASE Swap
  BY <1>2, SwapTimes
<1>3. CASE ApplyEvent
  BY <1>3, ApplyTimes
<1>4. CASE EndRound
  BY <1>4, EndRoundTimes
<1>5. CASE Tick
  BY <1>5, TickTimes
<1>6. CASE UNCHANGED vars
  <2>1. UNCHANGED <<mEventQueue, batch, monitor, mMonitoredTasks, lag, started>>
    BY <1>6 DEF vars, monitoring, round, clients
  <2> QED BY <2>1 DEF HInv, Numbered, Deadlines, Levels, Family, InRound, Taken, Answers, Swapped, Old
<1> QED BY <1>1, <1>2, <1>3, <1>4, <1>5, <1>6 DEF Next

\* A round marks a task as hung if the timeout has passed since its latest event, and only if
\* it has passed, less the disorder of one batch, since that and since the latest events of
\* its children, however deep the tree of tasks a touch is passed up (HealthMonitor.cpp:217, 270).
THEOREM HangsReported == Spec => HangIsReal
<1>1. ASSUME IInv, IInv', HInv, HInv', [Next]_vars, InRound, ~InRound',
             NEW id \in DOMAIN mMonitoredTasks',
             NEW c \in DOMAIN mMonitoredTasks', c = id \/ mMonitoredTasks'[c].parent = id
      PROVE  /\ Now > mMonitoredTasks'[id].last + Timeout => mMonitoredTasks'[id].hung
             /\ mMonitoredTasks'[id].hung => Now > mMonitoredTasks'[c].last + Timeout - Unit * (MaxLag + 1)
  <2>1. EndRound
    <3>1. ASSUME \/ \E t \in Threads : StartTask(t) \/ EndWatchdog(t) \/ Release(t)
                 \/ \E i \in 1 .. started : TouchTask(i) \/ StopLoose(i)
                 \/ Poll \/ Destroy \/ UNCHANGED vars
          PROVE  monitor' = monitor
      BY <3>1 DEF StartTask, EndWatchdog, Release, TouchTask, StopLoose, StopTask, Poll, Destroy,
                  Push, monitoring, round, vars
    <3>2. ASSUME Swap \/ ApplyEvent \/ Tick PROVE ~(InRound /\ ~InRound')
      BY <3>2 DEF Swap, ApplyEvent, Tick, InRound
    <3> QED BY <1>1, <3>1, <3>2 DEF Next, InRound
  <2>2. PICK T, U : T = mMonitoredTasks /\ U = mMonitoredTasks'
    OBVIOUS
  <2>3. /\ U[id].timeout \in Int /\ U[id].last \in Int /\ U[c].last \in Int
        /\ U[id].hung <=> U[id].timeout < Now
    <3>1. \A x \in DOMAIN U : /\ x \in DOMAIN T /\ U[x].timeout = T[x].timeout /\ U[x].last = T[x].last
                              /\ U[x].hung <=> T[x].timeout < Now
                              /\ T[x].timeout \in Int /\ T[x].last \in Int
      BY <1>1, <2>1, <2>2, Marked
    <3> QED BY <1>1, <2>2, <3>1
  <2>4. U[id].timeout <= U[id].last + Timeout
    BY <1>1, <2>2 DEF HInv, Deadlines, Timeout, Unit
  <2>5. U[id].timeout >= U[c].last + Timeout - Unit * (MaxLag + 1)
    <3>1. batch' = <<>> /\ Len(<<>>) = 0
      BY <2>1 DEF EndRound
    <3>2. U[id].timeout >= U[c].last + Timeout + Old(MaxLag)
      BY <1>1, <2>2, <3>1 DEF HInv, Family, Answers, Old, Timeout, Unit
    <3>3. Old(MaxLag) = - (Unit * (MaxLag + 1)) /\ Old(MaxLag) \in Int
      BY <1>1, Times DEF Old
    <3>4. Unit * (MaxLag + 1) \in Int /\ Timeout \in Int
      BY <1>1, Times
    <3> HIDE DEF Old, Timeout, Unit
    <3> QED BY <2>3, <3>2, <3>3, <3>4
  <2> HIDE DEF Timeout, Unit
  <2>6. Timeout \in Int /\ Unit * (MaxLag + 1) \in Int /\ Now = 0
    BY <1>1, Times DEF Now
  <2> QED BY <2>2, <2>3, <2>4, <2>5, <2>6
<1>2. IInv /\ IInv' /\ HInv /\ HInv' /\ [Next]_vars =>
         (InRound /\ ~InRound' =>
            \A id \in DOMAIN mMonitoredTasks' :
               LET task == mMonitoredTasks'[id]
                   children == {c \in DOMAIN mMonitoredTasks' : mMonitoredTasks'[c].parent = id}
               IN  /\ Now > task.last + Timeout => task.hung
                   /\ task.hung => \A c \in children \cup {id} :
                          Now > mMonitoredTasks'[c].last + Timeout - Unit * (MaxLag + 1))
  BY <1>1
<1>3. Spec => []IInv
  BY InitHolds, StepKeeps, PTL DEF Spec
<1>4. Spec => []HInv
  BY <1>3, InitTimes, HStepKeeps, PTL DEF Spec
<1> QED BY <1>2, <1>3, <1>4, PTL DEF Spec, HangIsReal

=============================================================================
