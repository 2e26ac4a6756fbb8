---------------------------- MODULE AndroidPipe ----------------------------
(***************************************************************************)
(* AndroidPipe with its connector, its services and the PipeWaker, the     *)
(* DeviceContextRunner that carries signalWake() and closeFromHost() to    *)
(* the device thread.                                                      *)
(*                                                                         *)
(* The device calls with the VM lock held, and the timer that performs the *)
(* pending operations needs it too.  A service's own threads signal at any *)
(* time and without it, as long as onGuestClose has not returned.  The     *)
(* device, the timer and the lock are external.  Left out: the transfers   *)
(* of a service, and pipes with flags, whose calls return at once.         *)
(***************************************************************************)
EXTENDS Integers, Sequences, SequencesExt, FiniteSetsExt

CONSTANTS
    Pipes,              \* values of hwPipe
    Names,              \* services a process may register
    CanLoad,            \* those whose pipes can be loaded
    Optional,           \* those a process may lack: isPipeOptional
    BufferSize,         \* kBufferSize
    MaxPending          \* bound: operations that wait

ASSUME PipeAssumption ==
    /\ CanLoad \subseteq Names /\ Optional \subseteq Names /\ IsFiniteSet(Names)
    /\ BufferSize \in Nat \ {0}

VARIABLES
    services,           \* the names of the registered services, in order
    pipe,               \* the host side of each hwPipe
    mContextRunMode,
    mPending,
    armed,              \* whether the timer was started
    starting,           \* pipes whose thread queued an operation and starts the timer next
    vm,                 \* what the holder of the VM lock is doing
    closing,            \* pipes whose operations are aborted and that onGuestClose is about to end
    snapshot,
    loading,            \* pipes of the snapshot that are not loaded yet
    streams,            \* what each service was given to load
    owed,               \* history: signals of each pipe that the device was not told of yet
    savedOwed           \* history: owed when the snapshot was saved

vars == <<services, pipe, mContextRunMode, mPending, armed, starting, vm, closing, snapshot,
          loading, streams, owed, savedOwed>>

Closed == [kind |-> "closed", pos |-> 0, name |-> "none"]
Connector == [kind |-> "connector", pos |-> 0, name |-> "none"]
Orders == {s \in SeqOf(Names, Cardinality(Names)) : IsInjective(s)}
NoStream == "null"

Init ==
    /\ services \in Orders /\ pipe = [p \in Pipes |-> Closed]
    /\ mContextRunMode = "DeferIfNotLocked" /\ mPending = <<>> /\ armed = FALSE
    /\ starting = {} /\ vm = "idle" /\ closing = {}
    /\ owed = [p \in Pipes |-> {}] /\ savedOwed = owed
    /\ snapshot = [pipes |-> pipe, flags |-> owed, services |-> services]
    /\ loading = {} /\ streams = <<>>

----------------------------------------------------------------------------
(* DeviceContextRunner.  An operation is a pipe and wake flags; late tells  *)
(* that it was queued after its pipe's operations were aborted, or restored *)
(* for a connector that had inherited such an operation.                    *)

Op(p, flags) == [pipe |-> p, flags |-> flags, late |-> p \in closing]

Push(p, flags) == Len(mPending) < MaxPending /\ mPending' = Append(mPending, Op(p, flags))

\* performDeviceOperation: a close hides the other flags.
Told(flags) == IF "closed" \in flags THEN {"closed"} ELSE flags
Tells(ops, p) == UNION {Told(op.flags) : op \in {o \in ops : o.pipe = p}}
Perform(ops) ==
    owed' = [p \in Pipes |-> IF "closed" \in Tells(ops, p) THEN {} ELSE owed[p] \ Tells(ops, p)]

\* The history of a signal that has to wait; a pipe whose operations are aborted has none.
Owes(p, flags) ==
    owed' = IF p \in closing THEN owed ELSE [owed EXCEPT ![p] = @ \cup flags]

MayPerform == mContextRunMode = "DeferIfNotLocked"

\* queueDeviceOperation on a thread that holds the VM lock
QueueLocked(p, flags) ==
    \/ /\ MayPerform /\ Perform({Op(p, flags)}) /\ UNCHANGED <<mPending, armed>>
    \/ /\ ~MayPerform /\ Push(p, flags) /\ armed' = TRUE /\ Owes(p, flags)

Keeps(p) == mPending                            \* Mutant: nothing is aborted.
Without(p) ==
    LET kept[i \in 0 .. Len(mPending)] ==
            IF i = 0 THEN <<>>
            ELSE IF mPending[i].pipe = p THEN kept[i - 1]
            ELSE Append(kept[i - 1], mPending[i])
    IN  kept[Len(mPending)]

\* onTimerEvent, on the main loop with the VM lock
TimerEvent ==
    /\ armed /\ vm = "idle" /\ closing = {}
    /\ Perform(ToSet(mPending)) /\ mPending' = <<>> /\ armed' = FALSE
    /\ UNCHANGED <<services, pipe, mContextRunMode, starting, vm, closing, snapshot, savedOwed,
                   loading, streams>>

----------------------------------------------------------------------------
(* Signals.                                                                 *)

UNCHANGEDBySignals ==
    UNCHANGED <<services, pipe, mContextRunMode, vm, closing, snapshot, savedOwed, loading, streams>>

\* signalWake and closeFromHost by a thread of the service: the timer is started after the
\* lock of the queue is released.
HostSignals(p, flags) ==
    /\ pipe[p].kind = "service" /\ p \notin starting
    /\ Push(p, flags) /\ starting' = starting \cup {p} /\ Owes(p, flags)
    /\ UNCHANGED armed /\ UNCHANGEDBySignals

HostStartsTimer(p) ==
    /\ p \in starting /\ starting' = starting \ {p} /\ armed' = TRUE
    /\ UNCHANGED <<mPending, owed>> /\ UNCHANGEDBySignals

\* The same calls in a callback from the device.
GuestSignals(p, flags) ==
    /\ pipe[p].kind = "service" /\ vm \in {"idle", "loading"} /\ p \notin closing
    /\ QueueLocked(p, flags)
    /\ UNCHANGED starting /\ UNCHANGEDBySignals

----------------------------------------------------------------------------
(* The connection.                                                          *)

Idle == vm = "idle" /\ closing = {}
UNCHANGEDByGuest ==
    UNCHANGED <<services, mContextRunMode, mPending, armed, starting, vm, snapshot, savedOwed, owed,
                loading, streams>>

\* android_pipe_guest_open
GuestOpen(p) ==
    /\ Idle /\ pipe[p] = Closed
    /\ pipe' = [pipe EXCEPT ![p] = Connector]
    /\ UNCHANGED closing /\ UNCHANGEDByGuest

Accepted(p, n) == Min({n, BufferSize - pipe[p].pos})

\* ConnectorPipe::onGuestSend of n bytes, the last of which may be the zero behind a name.
\* The buffer keeps what it was given, so that the first name counts even when it is refused,
\* for want of a service of that name or because the service creates no pipe.
GuestSend(p, n, ends, name) ==
    LET taken == Accepted(p, n)
        first == IF pipe[p].name = "none" THEN name ELSE pipe[p].name
    IN
    /\ Idle /\ pipe[p].kind = "connector"
    /\ \/ /\ ~(ends /\ taken = n) /\ pipe' = [pipe EXCEPT ![p].pos = @ + taken]
       \/ /\ ends /\ taken = n        \* refused
          /\ pipe' = [pipe EXCEPT ![p].pos = @ + taken, ![p].name = first]
       \/ /\ ends /\ taken = n /\ first \in ToSet(services)
          /\ pipe' = [pipe EXCEPT ![p] = [kind |-> "service", pos |-> 0, name |-> first]]
    /\ UNCHANGED closing /\ UNCHANGEDByGuest

\* android_pipe_guest_close: the pending operations are aborted, then the service ends.
GuestClose(p) ==
    /\ vm \in {"idle", "loading"} /\ closing = {} /\ pipe[p] # Closed
    /\ vm = "loading" => p \in loading \/ snapshot.pipes[p] = Closed
    /\ mPending' = Without(p) /\ closing' = {p}
    /\ owed' = [owed EXCEPT ![p] = {}]
    /\ UNCHANGED <<services, pipe, mContextRunMode, armed, starting, vm, snapshot, savedOwed,
                   loading, streams>>

CloseEnds(p) ==
    /\ p \in closing /\ closing' = {} /\ pipe' = [pipe EXCEPT ![p] = Closed]
    /\ UNCHANGEDByGuest

----------------------------------------------------------------------------
(* Snapshots.                                                               *)

LastOnly(p) ==                                  \* Mutant: one operation is saved.
    IF \E op \in ToSet(mPending) : op.pipe = p
    THEN mPending[Max({i \in DOMAIN mPending : mPending[i].pipe = p})].flags ELSE {}
PendingFlags(p) == UNION {op.flags : op \in {o \in ToSet(mPending) : o.pipe = p}}

\* pre_save, guest_save of each pipe, post_save
Save ==
    /\ Idle
    /\ snapshot' = [pipes |-> pipe, services |-> services,
                    flags |-> [p \in Pipes |-> IF pipe[p] = Closed THEN {} ELSE PendingFlags(p)]]
    /\ savedOwed' = owed
    /\ UNCHANGED <<services, pipe, mContextRunMode, mPending, armed, starting, vm, closing, owed,
                   loading, streams>>

\* Another process, with its services in another order, or others.
NewProcess ==
    /\ services' \in Orders /\ pipe' = [p \in Pipes |-> Closed]
    /\ mContextRunMode' = "DeferIfNotLocked" /\ mPending' = <<>> /\ armed' = FALSE
    /\ starting' = {} /\ vm' = "idle" /\ closing' = {}
    /\ owed' = [p \in Pipes |-> {}] /\ loading' = {} /\ streams' = <<>>
    /\ UNCHANGED <<snapshot, savedOwed>>

\* It may begin at any point; what it begins with is the same at all of them.
Restart == Idle /\ NewProcess

PositionFrom(name, start) == {i \in start .. Len(services) : services[i] = name}
NeverWraps(name, start) ==                      \* Mutant: what is before the hint is not searched.
    IF PositionFrom(name, start) # {} THEN Min(PositionFrom(name, start)) ELSE 0
\* findServicePositionByName, 0 for a service that is not there.
Position(name, start) ==
    IF PositionFrom(name, start) # {} THEN Min(PositionFrom(name, start))
    ELSE IF PositionFrom(name, 1) # {} THEN Min(PositionFrom(name, 1))
    ELSE 0

\* forEachServiceFromStream: the stream each service is given; each search begins behind the
\* service found last.
Given ==
    LET at[i \in 0 .. Len(snapshot.services)] ==
            IF i = 0 THEN 0 ELSE Position(snapshot.services[i], at[i - 1] + 1)
    IN  [k \in DOMAIN services |->
            LET found == {i \in DOMAIN snapshot.services : at[i] = k} IN
            IF found = {} THEN NoStream ELSE snapshot.services[Max(found)]]

PreLoadAborts ==
    /\ Idle /\ vm' = "aborted" /\ mPending' = <<>> /\ owed' = [p \in Pipes |-> {}]
    /\ UNCHANGED <<services, pipe, mContextRunMode, armed, starting, closing, snapshot, savedOwed,
                   loading, streams>>

\* The assertion of forEachServiceFromStream: a build with assertions ends the process when
\* the snapshot has a service that it lacks and needs; one without goes on as Given says.
AssertFails ==
    /\ vm = "aborted" /\ ~(ToSet(snapshot.services) \subseteq ToSet(services) \cup Optional)
    /\ NewProcess

PreLoadDefers ==
    /\ vm = "aborted" /\ vm' = "loading" /\ mContextRunMode' = "DeferAlways" /\ streams' = Given
    /\ loading' = {p \in Pipes : snapshot.pipes[p] # Closed}
    /\ UNCHANGED <<services, pipe, mPending, armed, starting, closing, snapshot, savedOwed, owed>>

\* The connector loads what it saved; a service may find no pipe in its stream.
MustLoad(saved) == saved.kind = "connector"
MayLoad(saved) == MustLoad(saved) \/ saved.name \in ToSet(services) \cap CanLoad

\* android_pipe_guest_load, after the device has closed the pipe that was there.  Without a
\* host side the device closes the pipe.
LoadPipe(p) ==
    /\ vm = "loading" /\ closing = {} /\ p \in loading /\ loading' = loading \ {p}
    /\ pipe[p] = Closed
    /\ \/ /\ MayLoad(snapshot.pipes[p])
          /\ pipe' = [pipe EXCEPT ![p] = snapshot.pipes[p]]
          /\ owed' = [owed EXCEPT ![p] = savedOwed[p]]
          /\ \/ /\ snapshot.flags[p] = {} /\ UNCHANGED <<mPending, armed>>
             \/ /\ snapshot.flags[p] # {}
                /\ Len(mPending) < MaxPending /\ armed' = TRUE
                /\ mPending' = Append(mPending, [pipe |-> p, flags |-> snapshot.flags[p],
                                                 late |-> snapshot.pipes[p].kind # "service"])
       \/ ~MustLoad(snapshot.pipes[p]) /\ UNCHANGED <<pipe, mPending, armed, owed>>
    /\ UNCHANGED <<services, mContextRunMode, starting, vm, closing, snapshot, savedOwed, streams>>

PostLoad ==
    /\ vm = "loading" /\ closing = {} /\ loading = {} /\ vm' = "idle"
    /\ \A p \in Pipes : snapshot.pipes[p] = Closed => pipe[p] = Closed
    /\ mContextRunMode' = "DeferIfNotLocked" /\ streams' = Given
    /\ UNCHANGED <<services, pipe, mPending, armed, starting, closing, snapshot, savedOwed, owed,
                   loading>>

Flags == {{"in"}, {"closed"}}

Next ==
    \/ \E p \in Pipes :
          \/ GuestOpen(p) \/ GuestClose(p) \/ CloseEnds(p) \/ LoadPipe(p) \/ HostStartsTimer(p)
          \/ \E flags \in Flags : HostSignals(p, flags) \/ GuestSignals(p, flags)
          \/ \E n \in 1 .. BufferSize, ends \in BOOLEAN, name \in Names : GuestSend(p, n, ends, name)
    \/ TimerEvent \/ Save \/ Restart \/ PreLoadAborts \/ AssertFails \/ PreLoadDefers \/ PostLoad

Spec == Init /\ [][Next]_vars

----------------------------------------------------------------------------
(* Properties.                                                              *)

\* An operation outlives its pipe only if it was queued between the abort and the end of
\* onGuestClose (AndroidPipe.cpp:607); the next connection of the hwPipe inherits it.
OnlyLateOutlive ==
    \A op \in ToSet(mPending) : pipe[op.pipe].kind = "service" \/ op.late

\* A wake or close that a service asked for waits until the device is told of it or the pipe
\* is closed, with the timer that will tell on its way; and a pipe that a snapshot brings back
\* waits again for what it was waiting for when the snapshot was saved (AndroidPipe.cpp:557).
LoadKeepsWakes ==
    \A p \in Pipes : owed[p] # {} =>
        /\ \A flag \in owed[p] : \E op \in ToSet(mPending) : op.pipe = p /\ flag \in op.flags
        /\ armed \/ starting # {}

\* Each service loads what it saved itself, whatever services this process has and in which
\* order, and a service the snapshot does not have is told so (AndroidPipe.cpp:659).
ServicesMatched ==
    vm = "loading" =>
        \A k \in DOMAIN services :
            streams[k] = IF services[k] \in ToSet(snapshot.services) THEN services[k] ELSE NoStream
=============================================================================
