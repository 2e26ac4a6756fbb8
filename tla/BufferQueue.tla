---------------------------- MODULE BufferQueue -----------------------------
(* android::base::BufferQueue (base/.../containers/BufferQueue.h): a FIFO of  *)
(* items in a ring that grows in snapshot mode.  Every operation runs under a *)
(* lock of its owner's and gives it up only while it waits, so a step of the  *)
(* model is one locked section; the condition variables are the sets of the   *)
(* threads that wait on them, as in MessageChannel.                           *)
EXTENDS Integers, Sequences

CONSTANTS
    Pusher, Popper,     \* the threads at the two ends
    PusherCalls,        \* the blocking calls each end makes
    PopperCalls,
    Item, Nothing,      \* Nothing: a moved-from or default-constructed item
    Capacity,           \* the constructor's capacity
    MaxSize             \* bound of the model: the ring grows to this size

ASSUME CallsAssumption ==
    /\ PusherCalls \subseteq {"push", "waitPushable"}
    /\ PopperCalls \subseteq {"pop", "popBefore", "waitPopable"}
ASSUME CapacityAssumption == Capacity \in Nat \ {0}
ASSUME ItemAssumption == Nothing \notin Item

VARIABLES
    mPos, mCount, mClosed, mSnapshotMode,
    mBuffers,       \* mBuffers[i + 1] is slot i
    mCanPush, mCanPop,
    late,           \* threads in popLockedBefore whose deadline has passed
    timedOut,       \* those whose timedWait reported it
    op, arg,        \* the blocking call each thread is in, and the item it pushes
    saved,          \* what the last onSaveLocked wrote to the stream
    ret             \* the last operation that completed, and its result

ring == <<mPos, mCount, mBuffers>>
modes == <<mClosed, mSnapshotMode, saved>>
waits == <<mCanPush, mCanPop, late, timedOut>>
vars == <<ring, modes, waits, op, arg, ret>>

Thread == Pusher \union Popper
Size == Len(mBuffers)
Wrap(i) == IF i >= Size THEN i - Size ELSE i
Full == mCount >= Size
CanPush == ~mClosed /\ mCount < Size
CanPop == mCount > 0
Result(o, r, m) == [op |-> o, result |-> r, item |-> m]

Init ==
    /\ mPos = 0 /\ mCount = 0
    /\ mClosed = FALSE /\ mSnapshotMode = FALSE
    /\ mBuffers = [i \in 1..Capacity |-> Nothing]
    /\ mCanPush = {} /\ mCanPop = {} /\ late = {} /\ timedOut = {}
    /\ op = [t \in Thread |-> "none"]
    /\ arg = [t \in Thread |-> Nothing]
    /\ saved = [closed |-> FALSE, items |-> <<>>]
    /\ ret = Result("none", "Ok", Nothing)

-----------------------------------------------------------------------------
Signal(cv) == IF cv = {} THEN cv' = {} ELSE \E t \in cv : cv' = cv \ {t}

Runs(t, o) == op[t] = o /\ t \notin mCanPush \union mCanPop \union timedOut

Call(t, o, m) ==
    /\ op[t] = "none"
    /\ op' = [op EXCEPT ![t] = o]
    /\ arg' = [arg EXCEPT ![t] = m]
    /\ UNCHANGED <<ring, modes, waits, ret>>

Return(t, r, m) ==
    /\ op' = [op EXCEPT ![t] = "none"]
    /\ arg' = [arg EXCEPT ![t] = Nothing]
    /\ ret' = Result(op[t], r, m)
    /\ late' = late \ {t}
    /\ timedOut' = timedOut \ {t}

Immediate(o, r, m) == ret' = Result(o, r, m) /\ UNCHANGED <<op, arg, late, timedOut>>

\* The items from mPos on, in order: the new first half of a grown ring.
Contents == [i \in 1..mCount |-> mBuffers[((mPos + i - 1) % Size) + 1]]

\* Mutant: grow copies the slots where they are, as if mPos were 0.
GrownInPlace == mBuffers \o [i \in 1..Size |-> Nothing]

\* grow(): called on a full ring only.
Grown == Contents \o [i \in 1..Size |-> Nothing]

\* The part of tryPushLocked that stores the item.
Store(m) ==
    LET grows == Full
        pos == IF grows THEN mCount ELSE Wrap(mPos + mCount)
        bufs == IF grows THEN Grown ELSE mBuffers
    IN  /\ grows => mSnapshotMode /\ 2 * Size <= MaxSize
        /\ mBuffers' = [bufs EXCEPT ![pos + 1] = m]
        /\ mPos' = IF grows THEN 0 ELSE mPos
        /\ mCount' = mCount + 1
        /\ IF mCount = 0 THEN Signal(mCanPop) ELSE UNCHANGED mCanPop
        /\ UNCHANGED <<modes, mCanPush>>

\* tryPushLocked, once it has found whether the queue takes the item.
TryPushLocked(m, r) ==
    \/ r = "Error" /\ mClosed /\ UNCHANGED <<ring, modes, mCanPush, mCanPop>>
    \/ /\ r = "TryAgain" /\ ~mClosed /\ Full /\ ~mSnapshotMode
       /\ UNCHANGED <<ring, modes, mCanPush, mCanPop>>
    \/ r = "Ok" /\ ~mClosed /\ (~Full \/ mSnapshotMode) /\ Store(m)

TryPopLocked(m, r) ==
    \/ /\ mCount = 0
       /\ r = IF mClosed \/ mSnapshotMode THEN "Error" ELSE "TryAgain"
       /\ m = Nothing
       /\ UNCHANGED <<ring, modes, mCanPush, mCanPop>>
    \/ /\ mCount # 0
       /\ r = "Ok"
       /\ m = mBuffers[mPos + 1]
       /\ mBuffers' = [mBuffers EXCEPT ![mPos + 1] = Nothing]
       /\ mPos' = Wrap(mPos + 1)
       /\ mCount' = mCount - 1
       /\ IF mCount = Size THEN Signal(mCanPush) ELSE UNCHANGED mCanPush
       /\ UNCHANGED <<modes, mCanPop>>

-----------------------------------------------------------------------------
(* The blocking operations.                                                   *)

PushWaits(t) ==
    /\ Runs(t, "push")
    /\ mCount = Size /\ ~mSnapshotMode /\ ~mClosed
    /\ mCanPush' = mCanPush \union {t}
    /\ UNCHANGED <<ring, modes, mCanPop, late, timedOut, op, arg, ret>>

Push(t) ==
    /\ Runs(t, "push")
    /\ mCount # Size \/ mSnapshotMode \/ mClosed
    /\ \E r \in {"Ok", "Error", "TryAgain"} :
          TryPushLocked(arg[t], r) /\ Return(t, r, Nothing)

PopWaits(t, o) ==
    /\ Runs(t, o)
    /\ mCount = 0 /\ ~mSnapshotMode /\ ~mClosed
    /\ IF t \in late
       THEN timedOut' = timedOut \union {t} /\ UNCHANGED mCanPop
       ELSE mCanPop' = mCanPop \union {t} /\ UNCHANGED timedOut
    /\ UNCHANGED <<ring, modes, mCanPush, late, op, arg, ret>>

Pop(t, o) ==
    /\ Runs(t, o)
    /\ mCount # 0 \/ mSnapshotMode \/ mClosed
    /\ \E m \in Item \union {Nothing}, r \in {"Ok", "Error", "TryAgain"} :
          TryPopLocked(m, r) /\ Return(t, r, m)

\* popLockedBefore does not look at the queue again after its deadline.
PopExpires(t) ==
    /\ t \in timedOut
    /\ Return(t, "Timeout", Nothing)
    /\ UNCHANGED <<ring, modes, mCanPush, mCanPop>>

DeadlinePasses(t) ==
    /\ op[t] = "popBefore" /\ t \notin late
    /\ late' = late \union {t}
    /\ UNCHANGED <<ring, modes, mCanPush, mCanPop, timedOut, op, arg, ret>>

Timeout(t) ==
    /\ t \in mCanPop \intersect late
    /\ mCanPop' = mCanPop \ {t}
    /\ timedOut' = timedOut \union {t}
    /\ UNCHANGED <<ring, modes, mCanPush, late, op, arg, ret>>

SpuriousWakeup(t) ==
    /\ t \in mCanPush \union mCanPop
    /\ mCanPush' = mCanPush \ {t}
    /\ mCanPop' = mCanPop \ {t}
    /\ UNCHANGED <<ring, modes, late, timedOut, op, arg, ret>>

\* waitUntilPushableLocked and waitUntilPopableLocked wait once; "woken" is the
\* part after the wait, and the result says whether the condition holds then.
WaitUntil(t, o, can, cv, other) ==
    /\ Runs(t, o)
    /\ IF can
       THEN Return(t, "Ok", Nothing) /\ UNCHANGED cv
       ELSE /\ op' = [op EXCEPT ![t] = IF o = "waitPushable" THEN "wokenPushable" ELSE "wokenPopable"]
            /\ cv' = cv \union {t}
            /\ UNCHANGED <<arg, late, timedOut, ret>>
    /\ UNCHANGED <<ring, modes, other>>

Woken(t, o, can) ==
    /\ Runs(t, o)
    /\ Return(t, IF can THEN "Ok" ELSE "TryAgain", Nothing)
    /\ UNCHANGED <<ring, modes, mCanPush, mCanPop>>

-----------------------------------------------------------------------------
(* The operations that do not block.                                          *)

TryPush(m) ==
    \E r \in {"Ok", "Error", "TryAgain"} :
        TryPushLocked(m, r) /\ Immediate("tryPush", r, Nothing)

TryPop ==
    \E m \in Item \union {Nothing}, r \in {"Ok", "Error", "TryAgain"} :
        TryPopLocked(m, r) /\ Immediate("tryPop", r, m)

\* Mutant: the reader of an empty queue is left asleep.
WakePushers ==
    /\ mCanPush' = IF mCount = Size THEN {} ELSE mCanPush
    /\ UNCHANGED mCanPop

WakeAllWaiters ==
    /\ mCanPush' = IF mCount = Size THEN {} ELSE mCanPush
    /\ mCanPop' = IF mCount = 0 THEN {} ELSE mCanPop

Close ==
    /\ mClosed' = TRUE
    /\ WakeAllWaiters
    /\ UNCHANGED <<ring, mSnapshotMode, saved, late, timedOut, op, arg, ret>>

SetSnapshotMode(on) ==
    /\ mSnapshotMode' = on
    /\ IF on /\ ~mClosed THEN WakeAllWaiters ELSE UNCHANGED <<mCanPush, mCanPop>>
    /\ UNCHANGED <<ring, mClosed, saved, late, timedOut, op, arg, ret>>

Save ==
    /\ saved' = [closed |-> mClosed, items |-> IF mClosed THEN <<>> ELSE Contents]
    /\ UNCHANGED <<ring, mClosed, mSnapshotMode, waits, op, arg, ret>>

\* A load that reads its whole stream.  Nobody waits on a queue being loaded:
\* its threads are started after the load, and the code wakes no one here.
Load ==
    /\ mCanPush = {} /\ mCanPop = {}
    /\ mClosed' = saved.closed
    /\ IF saved.closed
       THEN UNCHANGED ring
       ELSE LET n == Len(saved.items) IN
            /\ mCount' = n
            /\ mPos' = 0
            /\ mBuffers' = [i \in 1..(IF Size < n THEN n ELSE Size) |->
                              IF i <= n THEN saved.items[i] ELSE mBuffers[i]]
    /\ UNCHANGED <<mSnapshotMode, saved, waits, op, arg, ret>>

-----------------------------------------------------------------------------
Invoke ==
    \/ \E t \in Pusher, m \in Item : "push" \in PusherCalls /\ Call(t, "push", m)
    \/ \E t \in Pusher : "waitPushable" \in PusherCalls /\ Call(t, "waitPushable", Nothing)
    \/ \E t \in Popper, o \in PopperCalls : Call(t, o, Nothing)

Proceed(t) ==
    \/ PushWaits(t) \/ Push(t)
    \/ \E o \in {"pop", "popBefore"} : PopWaits(t, o) \/ Pop(t, o)
    \/ PopExpires(t)
    \/ WaitUntil(t, "waitPushable", CanPush, mCanPush, mCanPop)
    \/ WaitUntil(t, "waitPopable", CanPop, mCanPop, mCanPush)
    \/ Woken(t, "wokenPushable", CanPush)
    \/ Woken(t, "wokenPopable", CanPop)

Next ==
    \/ Invoke
    \/ \E t \in Thread : Proceed(t) \/ DeadlinePasses(t) \/ Timeout(t) \/ SpuriousWakeup(t)
    \/ \E t \in Pusher, m \in Item : op[t] = "none" /\ TryPush(m)
    \/ \E t \in Popper : op[t] = "none" /\ TryPop
    \/ Close
    \/ \E on \in BOOLEAN : SetSnapshotMode(on)
    \/ Save \/ Load

Spec == Init /\ [][Next]_vars

-----------------------------------------------------------------------------
(* Properties.                                                                *)

\* With one thread at each end, a blocked pop has nothing to pop and no reason
\* to fail, and a blocked push no room and no reason to fail: tryPush signals
\* only the first item, tryPop only the first free slot, close and snapshot mode
\* wake the poppers of an empty queue and the pushers of a full one only, the
\* ring grows, and yet none is forgotten.
NobodyStranded ==
    /\ \A t \in mCanPop : op[t] \in {"pop", "popBefore"} =>
           mCount = 0 /\ ~mClosed /\ ~mSnapshotMode
    /\ \A t \in mCanPush : op[t] = "push" =>
           mCount = Size /\ ~mClosed /\ ~mSnapshotMode

Abstract == INSTANCE SnapshotQueue
    WITH queue <- Contents, capacity <- Size, closed <- mClosed, snapshot <- mSnapshotMode

\* Every step of the growing ring is a step of a FIFO queue: growing, wrapping,
\* saving and loading neither lose, repeat nor reorder an item.
ImplementsQueue == Abstract!Spec
=============================================================================
