--------------------------- MODULE MessageChannel ---------------------------
(* android::base::MessageChannel: a ring of CAPACITY slots shared by threads  *)
(* under one lock, with a condition variable for "not full" and one for "not  *)
(* empty" (base/MessageChannel.cpp, base/.../synchronization/MessageChannel.h)*)
(*                                                                            *)
(* An operation holds mLock from before* to after*, except while it waits; a  *)
(* step of the model is one such locked section.  A condition variable is the *)
(* set of the threads that wait on it: a signal removes one of them, whichever*)
(* the scheduler picks, a broadcast removes all.  A thread removed from the   *)
(* set competes for mLock with every other caller.  Waits may end without a   *)
(* signal (ConditionVariable.h warns of it).  The signal is given before the  *)
(* unlock, as in the POSIX build.                                             *)
EXTENDS Integers, FiniteSets

CONSTANTS
    Sender,     \* threads that call send and trySend
    Receiver,   \* threads that call receive, tryReceive and timedReceive
    Emptier,    \* threads that call waitForEmpty
    Msg,        \* the messages of type T
    NoMsg,      \* the default-constructed (or moved-from) T
    CAPACITY    \* the size of mItems

Thread == Sender \union Receiver \union Emptier

ASSUME CapacityAssumption == CAPACITY \in Nat \ {0}
ASSUME ThreadAssumption == IsFiniteSet(Thread)
ASSUME MsgAssumption == NoMsg \notin Msg

VARIABLES
    mPos,       \* slot of the oldest message
    mCount,     \* number of messages
    mStopped,
    mItems,     \* the slots
    mCanRead,   \* threads waiting for a message
    mCanWrite,  \* threads waiting for room, or for the channel to be empty
    late,       \* threads in timedReceive whose deadline has passed
    timedOut,   \* threads whose timedWait reported the deadline
    op,         \* op[t]: the blocking call thread t is in, or "none"
    msg,        \* msg[t]: the argument of t's send
    ret         \* the last call that returned, and what it returned

state == <<mPos, mCount, mStopped, mItems>>
calls == <<op, msg, ret>>
vars == <<state, mCanRead, mCanWrite, late, timedOut, calls>>

Slot == 0..CAPACITY - 1
BlockingOp == {"send", "receive", "timedReceive", "waitForEmpty"}
Result(t, o, ok, m) == [thread |-> t, op |-> o, ok |-> ok, msg |-> m]

Init ==
    /\ mPos = 0
    /\ mCount = 0
    /\ mStopped = FALSE
    /\ mItems = [i \in Slot |-> NoMsg]
    /\ mCanRead = {}
    /\ mCanWrite = {}
    /\ late = {}
    /\ timedOut = {}
    /\ op = [t \in Thread |-> "none"]
    /\ msg = [t \in Thread |-> NoMsg]
    /\ ret = Result(NoMsg, "none", FALSE, NoMsg)

-----------------------------------------------------------------------------
(* Condition variables.                                                       *)

Signal(cv) ==
    IF cv = {} THEN cv' = {} ELSE \E t \in cv : cv' = cv \ {t}

\* Thread t is in operation o and runs: it is about to (re)acquire mLock.
Runs(t, o) == op[t] = o /\ t \notin mCanRead \union mCanWrite \union timedOut

Wait(t, cv) == cv' = cv \union {t} /\ UNCHANGED <<state, late, timedOut, calls>>

\* A wait that ends with no signal.
SpuriousWakeup(t) ==
    /\ t \in mCanRead \union mCanWrite
    /\ mCanRead' = mCanRead \ {t}
    /\ mCanWrite' = mCanWrite \ {t}
    /\ UNCHANGED <<state, late, timedOut, calls>>

\* The wall clock reaches wallTimeUs.
DeadlinePasses(t) ==
    /\ op[t] = "timedReceive"
    /\ t \notin late
    /\ late' = late \union {t}
    /\ UNCHANGED <<state, mCanRead, mCanWrite, timedOut, calls>>

\* timedWait ends by its deadline; the thread still has to take mLock.
Timeout(t) ==
    /\ t \in mCanRead \intersect late
    /\ mCanRead' = mCanRead \ {t}
    /\ timedOut' = timedOut \union {t}
    /\ UNCHANGED <<state, mCanWrite, late, calls>>

-----------------------------------------------------------------------------
(* The locked sections.                                                       *)

Full == mCount >= CAPACITY
WrapSlot(i) == IF i >= CAPACITY THEN i - CAPACITY ELSE i

\* Mutant: the writer signals only when the channel was empty.
AfterWriteSignalsFirst(success, m) ==
    /\ IF success
       THEN /\ mItems' = [mItems EXCEPT ![WrapSlot(mPos + mCount)] = m]
            /\ mCount' = mCount + 1
       ELSE UNCHANGED <<mItems, mCount>>
    /\ UNCHANGED <<mPos, mStopped, mCanWrite>>
    /\ IF mCount = 0 THEN Signal(mCanRead) ELSE UNCHANGED mCanRead

\* afterWrite and afterRead, with what the templates do to mItems before them.
AfterWrite(success, m) ==
    /\ IF success
       THEN /\ mItems' = [mItems EXCEPT ![WrapSlot(mPos + mCount)] = m]
            /\ mCount' = mCount + 1
       ELSE UNCHANGED <<mItems, mCount>>
    /\ UNCHANGED <<mPos, mStopped, mCanWrite>>
    /\ Signal(mCanRead)

\* Mutant: the reader does not tell the writers that it freed a slot.
AfterReadNoSignal(success) ==
    /\ IF success
       THEN /\ mItems' = [mItems EXCEPT ![mPos] = NoMsg]
            /\ mPos' = IF mPos + 1 = CAPACITY THEN 0 ELSE mPos + 1
            /\ mCount' = mCount - 1
       ELSE UNCHANGED <<mItems, mPos, mCount>>
    /\ UNCHANGED <<mStopped, mCanRead, mCanWrite>>

AfterRead(success) ==
    /\ IF success
       THEN /\ mItems' = [mItems EXCEPT ![mPos] = NoMsg]
            /\ mPos' = IF mPos + 1 = CAPACITY THEN 0 ELSE mPos + 1
            /\ mCount' = mCount - 1
       ELSE UNCHANGED <<mItems, mPos, mCount>>
    /\ UNCHANGED <<mStopped, mCanRead>>
    /\ Signal(mCanWrite)

Return(t, ok, m) ==
    /\ op' = [op EXCEPT ![t] = "none"]
    /\ msg' = [msg EXCEPT ![t] = NoMsg]
    /\ ret' = Result(t, op[t], ok, m)
    /\ timedOut' = timedOut \ {t}
    /\ late' = late \ {t}

Immediate(t, o, ok, m) ==
    /\ op[t] = "none"
    /\ ret' = Result(t, o, ok, m)
    /\ UNCHANGED <<op, msg, late, timedOut>>

\* A thread enters a blocking operation, and will ask for mLock.
Call(t, o, m) ==
    /\ op[t] = "none"
    /\ op' = [op EXCEPT ![t] = o]
    /\ msg' = [msg EXCEPT ![t] = m]
    /\ UNCHANGED <<state, mCanRead, mCanWrite, late, timedOut, ret>>

SendWaits(t) ==
    /\ Runs(t, "send")
    /\ Full /\ ~mStopped
    /\ Wait(t, mCanWrite)
    /\ UNCHANGED mCanRead

\* Mutant: a sender does not look at mStopped again after its wait.
SendIgnoresStop(t) ==
    /\ Runs(t, "send")
    /\ ~Full \/ mStopped
    /\ AfterWrite(TRUE, msg[t])
    /\ Return(t, TRUE, NoMsg)

Send(t) ==
    /\ Runs(t, "send")
    /\ ~Full \/ mStopped
    /\ AfterWrite(~mStopped, msg[t])
    /\ Return(t, ~mStopped, NoMsg)

TrySend(t, m) ==
    LET ok == ~Full /\ ~mStopped IN
    /\ AfterWrite(ok, m)
    /\ Immediate(t, "trySend", ok, NoMsg)

ReceiveWaits(t, o) ==
    /\ Runs(t, o)
    /\ mCount = 0 /\ ~mStopped
    /\ t \notin late
    /\ Wait(t, mCanRead)
    /\ UNCHANGED mCanWrite

\* A timedWait for a deadline already past does not wait for a signal.
ReceiveIsLate(t) ==
    /\ Runs(t, "timedReceive")
    /\ mCount = 0 /\ ~mStopped
    /\ t \in late
    /\ timedOut' = timedOut \union {t}
    /\ UNCHANGED <<state, mCanRead, mCanWrite, late, calls>>

Receive(t, o) ==
    /\ Runs(t, o)
    /\ mCount # 0 \/ mStopped
    /\ AfterRead(~mStopped)
    /\ Return(t, ~mStopped, IF mStopped THEN NoMsg ELSE mItems[mPos])

\* Mutant: the deadline is treated like any other wakeup.
ReceiveRetries(t) ==
    /\ t \in timedOut
    /\ timedOut' = timedOut \ {t}
    /\ UNCHANGED <<state, mCanRead, mCanWrite, late, calls>>

\* beforeTimedRead gives up as soon as timedWait reports the deadline, even if
\* a message arrived before the thread got mLock back.
ReceiveExpires(t) ==
    /\ t \in timedOut
    /\ AfterRead(FALSE)
    /\ Return(t, FALSE, NoMsg)

TryReceive(t) ==
    LET ok == mCount # 0 /\ ~mStopped IN
    /\ AfterRead(ok)
    /\ Immediate(t, "tryReceive", ok, IF ok THEN mItems[mPos] ELSE NoMsg)

EmptyWaits(t) ==
    /\ Runs(t, "waitForEmpty")
    /\ mCount > 0
    /\ Wait(t, mCanWrite)
    /\ UNCHANGED mCanRead

SeesEmpty(t) ==
    /\ Runs(t, "waitForEmpty")
    /\ mCount = 0
    /\ Return(t, TRUE, NoMsg)
    /\ UNCHANGED <<state, mCanRead, mCanWrite>>

\* Mutant: stop wakes the receivers only.
StopForgetsWriters ==
    /\ mStopped' = TRUE
    /\ mCount' = 0
    /\ mCanRead' = {}
    /\ UNCHANGED <<mPos, mItems, mCanWrite, late, timedOut, calls>>

Stop ==
    /\ mStopped' = TRUE
    /\ mCount' = 0
    /\ mCanRead' = {}
    /\ mCanWrite' = {}
    /\ UNCHANGED <<mPos, mItems, late, timedOut, calls>>

-----------------------------------------------------------------------------
Invoke ==
    \/ \E t \in Sender, m \in Msg : Call(t, "send", m)
    \/ \E t \in Receiver, o \in {"receive", "timedReceive"} : Call(t, o, NoMsg)
    \/ \E t \in Emptier : Call(t, "waitForEmpty", NoMsg)

\* The steps of a call in progress.
Proceed(t) ==
    \/ SendWaits(t) \/ Send(t)
    \/ \E o \in {"receive", "timedReceive"} : ReceiveWaits(t, o) \/ Receive(t, o)
    \/ ReceiveIsLate(t) \/ ReceiveExpires(t)
    \/ EmptyWaits(t) \/ SeesEmpty(t)

Next ==
    \/ Invoke
    \/ \E t \in Thread : Proceed(t) \/ DeadlinePasses(t) \/ Timeout(t) \/ SpuriousWakeup(t)
    \/ \E t \in Sender, m \in Msg : TrySend(t, m)
    \/ \E t \in Receiver : TryReceive(t)
    \/ Stop

SafeSpec == Init /\ [][Next]_vars

\* Every runnable thread eventually runs, and every deadline passes.  Nothing
\* obliges a thread to make a call, and no wakeup is owed to a waiting thread
\* other than by a signal.
Fairness ==
    \A t \in Thread : /\ WF_vars(Proceed(t))
                      /\ WF_vars(DeadlinePasses(t))
                      /\ WF_vars(Timeout(t))

Spec == SafeSpec /\ Fairness

-----------------------------------------------------------------------------
(* Safety.                                                                    *)

TypeOK ==
    /\ mPos \in Slot
    /\ mCount \in 0..CAPACITY
    /\ mStopped \in BOOLEAN
    /\ mItems \in [Slot -> Msg \union {NoMsg}]
    /\ mCanRead \in SUBSET Thread
    /\ mCanWrite \in SUBSET Thread
    /\ late \in SUBSET Thread
    /\ timedOut \in SUBSET Thread
    /\ op \in [Thread -> BlockingOp \union {"none"}]
    /\ msg \in [Thread -> Msg \union {NoMsg}]

\* The threads that hold a wakeup for room: inside send and not waiting.
AwakeSenders == {t \in Thread : op[t] = "send" /\ t \notin mCanWrite}
AwakeReceivers ==
    {t \in Thread : /\ op[t] \in {"receive", "timedReceive"}
                    /\ t \notin mCanRead \union timedOut}

\* No lost wakeup, receiving side: while some receiver waits, there is for
\* every message in the ring a receiver that is awake and will come to take it
\* (afterWrite signals mCanRead once per message, beforeRead re-checks).
ReceiversKeepUp ==
    mCanRead # {} => mCount <= Cardinality(AwakeReceivers)

\* No lost wakeup, sending side: while some thread waits on mCanWrite, there is
\* for every free slot a sender awake that will come to fill it.  It holds when
\* no thread calls waitForEmpty, which shares mCanWrite with the senders.
SendersKeepUp ==
    (mCanWrite # {} /\ ~mStopped) => CAPACITY - mCount <= Cardinality(AwakeSenders)

\* stop() is final: nobody waits on a stopped channel and it holds no message,
\* however the calls in progress interleave with it.
StoppedIsQuiet == mStopped => mCount = 0 /\ mCanRead = {} /\ mCanWrite = {}

-----------------------------------------------------------------------------
(* What the channel implements.                                               *)

queue == [i \in 1..mCount |-> mItems[WrapSlot(mPos + (i - 1))]]

Abstract == INSTANCE BoundedChannel WITH stopped <- mStopped

\* Every step of the ring is a step of the bounded FIFO channel, or invisible.
ImplementsChannel == Abstract!SafeSpec

\* With its fairness: room with a send in progress leads to a send, a message
\* with a receive in progress to a receive, a stop to the return of every call.
ImplementsFairChannel == Abstract!Spec

\* stop() "aborts the currently pending operations": every call in progress
\* on a stopped channel returns, whichever condition it was waiting for.
StopReleases ==
    \A t \in Thread : mStopped /\ op[t] # "none" ~> op[t] = "none"

\* Every timedReceive returns, whatever the other threads do.
TimedReceiveReturns ==
    \A t \in Receiver : op[t] = "timedReceive" ~> op[t] = "none"
=============================================================================
