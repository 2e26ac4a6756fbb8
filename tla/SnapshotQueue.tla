--------------------------- MODULE SnapshotQueue ----------------------------
(* What a BufferQueue promises: a FIFO queue with a capacity that only a      *)
(* snapshot (or the load of a longer one) may raise, that a close shuts to    *)
(* new items but not to the ones it holds, and whose open contents a save and *)
(* a load carry over unchanged and in order.  BufferQueue implements it.      *)
EXTENDS Naturals, Sequences

CONSTANTS Item, Nothing

VARIABLES
    queue,      \* the items pushed and not popped, oldest first
    capacity,
    closed,
    snapshot,   \* snapshot mode is on
    saved,      \* the stream: the last saved state
    ret         \* the last operation that completed, and what it returned

vars == <<queue, capacity, closed, snapshot, saved, ret>>
flags == <<closed, snapshot, saved>>

Result(o, r, m) == [op |-> o, result |-> r, item |-> m]
PushOp == {"push", "tryPush"}
PopOp == {"pop", "tryPop", "popBefore"}
WaitOp == {"waitPushable", "waitPopable", "wokenPushable", "wokenPopable"}

\* capacity is given its first value by the implementation.
Init ==
    /\ queue = <<>>
    /\ capacity \in Nat \ {0}
    /\ closed = FALSE
    /\ snapshot = FALSE
    /\ saved = [closed |-> FALSE, items |-> <<>>]
    /\ ret = Result("none", "Ok", Nothing)

Push(o, m) ==
    /\ ~closed
    /\ Len(queue) < capacity \/ snapshot
    /\ queue' = Append(queue, m)
    /\ capacity' = IF Len(queue) < capacity THEN capacity ELSE 2 * capacity
    /\ ret' = Result(o, "Ok", Nothing)
    /\ UNCHANGED flags

Pop(o) ==
    /\ queue # <<>>
    /\ queue' = Tail(queue)
    /\ ret' = Result(o, "Ok", Head(queue))
    /\ UNCHANGED <<capacity, flags>>

\* An operation that leaves the queue alone, and the reasons it may give.
Fail(o, r) ==
    /\ \/ o \in PushOp /\ r = "Error" /\ closed
       \/ o = "tryPush" /\ r = "TryAgain" /\ ~closed /\ ~snapshot /\ Len(queue) >= capacity
       \/ o \in PopOp /\ r = "Error" /\ queue = <<>> /\ (closed \/ snapshot)
       \/ o = "tryPop" /\ r = "TryAgain" /\ queue = <<>> /\ ~closed /\ ~snapshot
       \/ o = "popBefore" /\ r = "Timeout"
    /\ ret' = Result(o, r, Nothing)
    /\ UNCHANGED <<queue, capacity, flags>>

\* A thread that waited for room, or for an item, is told what it found.
Notice(o, r) == ret' = Result(o, r, Nothing) /\ UNCHANGED <<queue, capacity, flags>>

Close == closed' = TRUE /\ UNCHANGED <<queue, capacity, snapshot, saved, ret>>

SetSnapshotMode(on) ==
    snapshot' = on /\ UNCHANGED <<queue, capacity, closed, saved, ret>>

\* A closed queue is saved, and loaded, without its items.
Save ==
    /\ saved' = [closed |-> closed, items |-> IF closed THEN <<>> ELSE queue]
    /\ UNCHANGED <<queue, capacity, closed, snapshot, ret>>

Load ==
    /\ closed' = saved.closed
    /\ queue' = IF saved.closed THEN queue ELSE saved.items
    /\ capacity' = IF Len(queue') > capacity THEN Len(queue') ELSE capacity
    /\ UNCHANGED <<snapshot, saved, ret>>

Next ==
    \/ \E o \in PushOp, m \in Item : Push(o, m)
    \/ \E o \in PopOp : Pop(o)
    \/ \E o \in PushOp \union PopOp, r \in {"Error", "TryAgain", "Timeout"} : Fail(o, r)
    \/ \E o \in WaitOp, r \in {"Ok", "TryAgain"} : Notice(o, r)
    \/ Close
    \/ \E on \in BOOLEAN : SetSnapshotMode(on)
    \/ Save \/ Load

Spec == Init /\ [][Next]_vars
=============================================================================
