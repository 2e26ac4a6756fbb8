--------------------------- MODULE HealthMonitor ---------------------------
(***************************************************************************)
(* HealthMonitor: client threads queue events about their tasks, a monitor *)
(* thread takes the whole queue at least once per heartbeat, applies it    *)
(* and reports the tasks that hang.  A HealthWatchdog is a task of a       *)
(* thread whose parent is the watchdog the thread built before it; an      *)
(* event of a task is passed on to its parent as a touch.                  *)
(*                                                                         *)
(* Every time is kept relative to the present, which is 0: when the clock  *)
(* ticks all that is known moves Unit back.  kTimeEpsilon is 1.            *)
(* Metadata, annotations and the text of the reports are left out.         *)
(***************************************************************************)
EXTENDS Integers, Sequences, FiniteSets, SequencesExt

CONSTANTS
    Threads,        \* client threads
    Threshold,      \* timeout of a task, in ticks
    MaxLag,         \* assumed: ticks from one swap of the monitor to its next step, at most
    MaxTasks,       \* bound: tasks ever started
    MaxTouches      \* bound: touches and polls

\* startMonitoringTask raises only a timeout below the heartbeat interval: nothing keeps an
\* event from reaching the monitor later than the timeout it sets.
ASSUME HealthAssumption ==
    /\ MaxLag \in Nat \ {0} /\ Threshold \in Nat
    /\ MaxTasks \in Nat /\ MaxTouches \in Nat

VARIABLES
    mEventQueue,        \* events not taken yet
    batch,              \* events the monitor has taken and not applied
    monitor,            \* "waiting", "taken", "applying" or "exited"
    tasksToRemove,      \* stopped tasks, erased at the end of the round
    keepMonitoring,
    mMonitoredTasks,    \* id |-> deadline, parent, hung; .last is its latest event (history)
    mHungTasks,         \* the monitor's count
    stack,              \* the watchdogs of each thread, innermost last
    loose,              \* ids whose watchdog was released
    stopped,            \* ids that were told to stop
    started,            \* the last id given out
    fresh,              \* ids given out since the last tick
    lag,                \* ticks since the last swap
    overdue,            \* history: the ids of which the last event was applied too late
    touches,            \* touches and polls so far
    closing             \* the destructor runs

clients == <<stack, loose, stopped, started, fresh, touches, closing>>
round == <<monitor, batch, tasksToRemove, keepMonitoring>>
monitoring == <<round, mMonitoredTasks, mHungTasks, lag, overdue>>
vars == <<mEventQueue, monitoring, clients>>

Unit == MaxTasks + 1
NoTask == 0
Now == 0
Timeout == Unit * Threshold
\* Nothing tells older events apart, nor older deadlines: no event waits that long.
LongAgo == - (Unit * ((IF Threshold > 2 * MaxLag THEN Threshold ELSE 2 * MaxLag) + 1))
Past == LongAgo + Timeout

Init ==
    /\ mEventQueue = <<>> /\ batch = <<>> /\ monitor = "waiting" /\ lag = 0 /\ overdue = {}
    /\ tasksToRemove = {} /\ keepMonitoring = TRUE
    /\ mMonitoredTasks = <<>> /\ mHungTasks = 0
    /\ stack = [t \in Threads |-> <<>>]
    /\ loose = {} /\ stopped = {} /\ started = 0 /\ fresh = {} /\ touches = 0 /\ closing = FALSE

----------------------------------------------------------------------------
(* The clients.                                                             *)

Push(type, id, time, parent) ==
    /\ ~closing
    /\ mEventQueue' = Append(mEventQueue, [type |-> type, id |-> id, time |-> time, parent |-> parent])
    /\ UNCHANGED monitoring

\* The constructor of HealthWatchdog: the time is read under the lock.
StartTask(t) ==
    /\ started < MaxTasks /\ started' = started + 1 /\ fresh' = fresh \cup {started + 1}
    /\ Push("start", started + 1, Now, IF stack[t] = <<>> THEN NoTask ELSE Last(stack[t]))
    /\ stack' = [stack EXCEPT ![t] = Append(@, started + 1)]
    /\ UNCHANGED <<loose, stopped, touches, closing>>

\* touch and stop read the time before they take the lock.
ReadTime(id) == IF id \in fresh THEN {Now} ELSE {Now, Now - Unit}

TouchTask(id) ==
    /\ id \notin stopped
    /\ touches < MaxTouches /\ touches' = touches + 1
    /\ \E time \in ReadTime(id) : Push("touch", id, time, NoTask)
    /\ UNCHANGED <<stack, loose, stopped, started, fresh, closing>>

StopTask(id) ==
    /\ stopped' = stopped \cup {id}
    /\ \E time \in ReadTime(id) : Push("stop", id, time, NoTask)
    /\ UNCHANGED <<started, fresh, touches, closing>>

\* The destructor of the innermost watchdog of t, and the owner of a released id.
EndWatchdog(t) ==
    /\ stack[t] # <<>> /\ stack' = [stack EXCEPT ![t] = Front(@)]
    /\ StopTask(Last(stack[t])) /\ UNCHANGED loose

StopLoose(id) == id \in loose /\ loose' = loose \ {id} /\ StopTask(id) /\ UNCHANGED stack

Release(t) ==
    /\ stack[t] # <<>> /\ ~closing
    /\ loose' = loose \cup {Last(stack[t])}
    /\ stack' = [stack EXCEPT ![t] = Front(@)]
    /\ UNCHANGED <<mEventQueue, monitoring, stopped, started, fresh, touches, closing>>

Poll ==
    /\ touches < MaxTouches /\ touches' = touches + 1
    /\ Push("poll", NoTask, Now, NoTask)
    /\ UNCHANGED <<stack, loose, stopped, started, fresh, closing>>

\* The destructor: its own poll only wakes the monitor, whose thread it then joins.
Destroy ==
    /\ \A t \in Threads : stack[t] = <<>>
    /\ Push("end", NoTask, Now, NoTask) /\ closing' = TRUE
    /\ UNCHANGED <<stack, loose, stopped, started, fresh, touches>>

----------------------------------------------------------------------------
(* The monitor.                                                             *)

StopIsNone == {"touch"}             \* Mutant: a stop does not refresh the deadline.
Refreshing == {"touch", "stop"}

\* One event applied to the tasks T.
Apply(T, e) ==
    IF e.type = "start"
    THEN [id \in DOMAIN T \cup {e.id} |-> IF id # e.id THEN T[id]
            ELSE [timeout |-> e.time + Timeout, hung |-> FALSE, last |-> e.time,
                  parent |-> IF e.parent \in DOMAIN T THEN e.parent ELSE NoTask]]
    ELSE IF e.type \in Refreshing /\ e.id \in DOMAIN T
    THEN [T EXCEPT ![e.id].timeout = e.time + Timeout, ![e.id].last = IF e.time > @ THEN e.time ELSE @]
    ELSE T

NotPassed(T, e) == <<>>             \* Mutant: the parent is not touched.
\* updateTaskParent
Passed(T, e) ==
    IF e.id \in DOMAIN T /\ T[e.id].parent # NoTask
    THEN <<[type |-> "touch", id |-> T[e.id].parent, time |-> e.time + 1, parent |-> NoTask]>>
    ELSE <<>>

Swap ==
    /\ monitor = "waiting" /\ monitor' = "taken"
    /\ batch' = mEventQueue /\ mEventQueue' = <<>> /\ lag' = 0
    /\ UNCHANGED <<tasksToRemove, keepMonitoring, mMonitoredTasks, mHungTasks, overdue, clients>>

InRound == monitor \in {"taken", "applying"}

\* One turn of the loop over the events; what is passed on joins the end of those taken.
ApplyEvent ==
    /\ InRound /\ batch # <<>> /\ monitor' = "applying"
    /\ LET event == Head(batch) IN
       /\ mMonitoredTasks' = Apply(mMonitoredTasks, event)
       /\ batch' = Tail(batch) \o Passed(mMonitoredTasks', event)
       /\ tasksToRemove' = IF event.type = "stop" /\ event.id \in DOMAIN mMonitoredTasks
                           THEN tasksToRemove \cup {event.id} ELSE tasksToRemove
       /\ keepMonitoring' = (keepMonitoring /\ event.type # "end")
       /\ overdue' = IF event.type \in {"poll", "end"} \/ event.id \notin DOMAIN mMonitoredTasks' THEN overdue
                     ELSE IF event.time + Timeout < Now THEN overdue \cup {event.id}
                     ELSE overdue \ {event.id}
    /\ UNCHANGED <<mEventQueue, mHungTasks, lag, clients>>

Kept == DOMAIN mMonitoredTasks      \* Mutant: stopped tasks are not erased.
Surviving == DOMAIN mMonitoredTasks \ tasksToRemove

\* The rest of a round: hangs and resumptions are counted and reported, the stopped tasks
\* are erased and the polls answered.
EndRound ==
    /\ InRound /\ batch = <<>> /\ monitor' = IF keepMonitoring THEN "waiting" ELSE "exited"
    /\ LET late == {id \in DOMAIN mMonitoredTasks : mMonitoredTasks[id].timeout < Now}
           hung == {id \in DOMAIN mMonitoredTasks : mMonitoredTasks[id].hung}
       IN  /\ mHungTasks' = mHungTasks + Cardinality(late \ hung) - Cardinality(hung \ late)
           /\ mMonitoredTasks' = [id \in Surviving |-> [mMonitoredTasks[id] EXCEPT !.hung = id \in late]]
    /\ tasksToRemove' = {}
    /\ UNCHANGED <<mEventQueue, batch, keepMonitoring, lag, overdue, clients>>

\* Time passes, no further than the monitor is assumed to be late.  The monitor reads it
\* once, before the first event.
Back(time, limit) == IF time - Unit < limit THEN limit ELSE time - Unit
Aged(events) == [i \in DOMAIN events |-> [events[i] EXCEPT !.time = Back(@, LongAgo)]]
Tick ==
    /\ monitor # "applying" /\ lag < MaxLag /\ lag' = lag + 1 /\ fresh' = {}
    /\ mEventQueue' = Aged(mEventQueue) /\ batch' = Aged(batch)
    /\ mMonitoredTasks' = [id \in DOMAIN mMonitoredTasks |->
                              [mMonitoredTasks[id] EXCEPT !.timeout = Back(@, Past), !.last = Back(@, LongAgo)]]
    /\ UNCHANGED <<monitor, tasksToRemove, keepMonitoring, mHungTasks, overdue,
                   stack, loose, stopped, started, touches, closing>>

Next ==
    \/ \E t \in Threads : StartTask(t) \/ EndWatchdog(t) \/ Release(t)
    \/ \E id \in 1 .. started : TouchTask(id) \/ StopLoose(id)
    \/ Poll \/ Destroy \/ Swap \/ ApplyEvent \/ EndRound \/ Tick

Spec == Init /\ [][Next]_vars

----------------------------------------------------------------------------
(* Properties.                                                              *)


\* The report is true: a task is marked as hung by a round if its timeout has passed since
\* the last event of the task, and only if it has passed - less what one batch can lack in
\* order - since the last event of the task and of each of its children, although events
\* are applied out of order and a parent's touch goes through the queue again
\* (HealthMonitor.cpp:217, 270).
HangIsReal ==
    [][InRound /\ ~InRound' =>
        \A id \in DOMAIN mMonitoredTasks' :
            LET task == mMonitoredTasks'[id]
                children == {c \in DOMAIN mMonitoredTasks' : mMonitoredTasks'[c].parent = id}
            IN  /\ Now > task.last + Timeout => task.hung
                /\ task.hung => \A c \in children \cup {id} :
                       Now > mMonitoredTasks'[c].last + Timeout - Unit * (MaxLag + 1)]_vars

\* The count that goes into every report is the number of tasks that hang, and of those no
\* longer watched whose last event - the stop, or the touch of a child behind it - reached the
\* monitor after the deadline it set: such a task is counted as hung and erased in one round
\* and stays in the count for ever; a task whose stop came in time never does, however long
\* it had hung before (HealthMonitor.cpp:65, 227, 245).
HungCount ==
    mHungTasks = Cardinality({id \in DOMAIN mMonitoredTasks : mMonitoredTasks[id].hung})
                   + Cardinality(overdue \ DOMAIN mMonitoredTasks)

\* A task is watched from when its start is applied until its stop is: none is lost and none
\* comes back by a touch that a child passes on (HealthMonitor.cpp:182, 205).
WatchedUntilStopped ==
    LET pending(type) == {e.id : e \in {x \in ToSet(mEventQueue) \cup ToSet(batch) : x.type = type}}
    IN  DOMAIN mMonitoredTasks =
            ((1 .. started) \ pending("start")) \ (stopped \ (pending("stop") \cup tasksToRemove))

=============================================================================
