---------------------------- MODULE ThreadProofs ----------------------------
(* The two queues between threads.  Safety of MessageChannel, and that it     *)
(* implements BoundedChannel, for every set of threads, every message type    *)
(* and every capacity; at the end the order that a WorkerThread keeps.        *)
EXTENDS MessageChannel, WorkerThread, FiniteSetTheorems, SequenceTheorems, TLAPS

\* A waiting thread waits where its operation put it, and only a timedReceive
\* whose deadline has passed can have timed out.
WaitersOK ==
    /\ \A t \in mCanRead : op[t] \in {"receive", "timedReceive"}
    /\ \A t \in mCanWrite : op[t] \in {"send", "waitForEmpty"}
    /\ \A t \in late \union timedOut : op[t] = "timedReceive"
    /\ mCanRead \intersect timedOut = {}

\* Every thread keeps to the calls of its role.
RolesOK ==
    \A t \in Thread : /\ op[t] = "send" => t \in Sender
                      /\ op[t] \in {"receive", "timedReceive"} => t \in Receiver
                      /\ op[t] = "waitForEmpty" => t \in Emptier

IInv == TypeOK /\ WaitersOK /\ RolesOK /\ StoppedIsQuiet

-----------------------------------------------------------------------------
(* Types.                                                                     *)

\* Signal and Wait keep a condition variable a set of threads.
LEMMA SignalType ==
    ASSUME NEW VARIABLE cv, NEW S, cv \in SUBSET S, Signal(cv)
    PROVE  cv' \in SUBSET S /\ cv' \subseteq cv
BY DEF Signal

\* The slots the code computes are slots.
LEMMA SlotType ==
    ASSUME mPos \in Slot, NEW n \in 0..CAPACITY - 1
    PROVE  WrapSlot(mPos + n) \in Slot
BY CapacityAssumption DEF Slot, WrapSlot

\* The initial channel satisfies the inductive invariant.
LEMMA InitIInv == Init => IInv
<1> SUFFICES ASSUME Init PROVE IInv
    OBVIOUS
<1>1. TypeOK
    <2>1. 0 \in Slot /\ 0 \in 0..CAPACITY
        BY CapacityAssumption DEF Slot
    <2> QED BY <2>1, Zenon DEF Init, TypeOK, BlockingOp
<1>2. WaitersOK
    BY DEF Init, WaitersOK
<1>3. StoppedIsQuiet
    BY DEF Init, StoppedIsQuiet
<1>4. RolesOK
    BY DEF Init, RolesOK
<1> QED BY <1>1, <1>2, <1>3, <1>4 DEF IInv
\* Every step keeps the inductive invariant.
LEMMA NextIInv == IInv /\ [Next]_vars => IInv'
<1> SUFFICES ASSUME IInv, [Next]_vars PROVE IInv'
    OBVIOUS
<1> USE CapacityAssumption, MsgAssumption DEF IInv, TypeOK, WaitersOK, RolesOK, StoppedIsQuiet, state, calls, Slot, BlockingOp
<1>1. CASE Invoke
    BY <1>1 DEF Invoke, Call, Thread
<1>2. ASSUME NEW t \in Thread, SendWaits(t) PROVE IInv'
    BY <1>2 DEF SendWaits, Runs, Wait, Full, WrapSlot
<1>3. ASSUME NEW t \in Thread, Send(t) PROVE IInv'
    BY <1>3, SMTT(30) DEF Send, Runs, Full, AfterWrite, Signal, Return, WrapSlot
<1>4. ASSUME NEW t \in Thread, NEW m \in Msg, TrySend(t, m) PROVE IInv'
    BY <1>4 DEF TrySend, Full, AfterWrite, Signal, Immediate, WrapSlot
<1>5. ASSUME NEW t \in Thread, NEW o \in {"receive", "timedReceive"}, ReceiveWaits(t, o) PROVE IInv'
    BY <1>5 DEF ReceiveWaits, Runs, Wait, WrapSlot
<1>6. ASSUME NEW t \in Thread, NEW o \in {"receive", "timedReceive"}, Receive(t, o) PROVE IInv'
    BY <1>6 DEF Receive, Runs, AfterRead, Signal, Return, WrapSlot
<1>7. ASSUME NEW t \in Thread, ReceiveIsLate(t) PROVE IInv'
    BY <1>7 DEF ReceiveIsLate, Runs, WrapSlot
<1>8. ASSUME NEW t \in Thread, ReceiveExpires(t) PROVE IInv'
    BY <1>8 DEF ReceiveExpires, AfterRead, Signal, Return, WrapSlot
<1>9. ASSUME NEW t \in Thread, TryReceive(t) PROVE IInv'
    BY <1>9 DEF TryReceive, AfterRead, Signal, Immediate, WrapSlot
<1>10. ASSUME NEW t \in Thread, EmptyWaits(t) PROVE IInv'
    BY <1>10 DEF EmptyWaits, Runs, Wait, WrapSlot
<1>11. ASSUME NEW t \in Thread, SeesEmpty(t) PROVE IInv'
    BY <1>11 DEF SeesEmpty, Runs, Return, WrapSlot
<1>12. ASSUME NEW t \in Thread, DeadlinePasses(t) PROVE IInv'
    BY <1>12 DEF DeadlinePasses, WrapSlot
<1>13. ASSUME NEW t \in Thread, Timeout(t) PROVE IInv'
    BY <1>13 DEF Timeout, WrapSlot
<1>14. ASSUME NEW t \in Thread, SpuriousWakeup(t) PROVE IInv'
    BY <1>14 DEF SpuriousWakeup, WrapSlot
<1>15. CASE Stop
    BY <1>15 DEF Stop, WrapSlot
<1>16. CASE UNCHANGED vars
    BY <1>16 DEF vars
<1> QED BY <1>1, <1>2, <1>3, <1>4, <1>5, <1>6, <1>7, <1>8, <1>9, <1>10, <1>11, <1>12, <1>13, <1>14, <1>15, <1>16 DEF Next, Invoke, Proceed, Thread

\* Types, the stations of the waiting threads and the quiet of a stopped
\* channel hold in every reachable state.
THEOREM Invariance == SafeSpec => []IInv
BY InitIInv, NextIInv, PTL DEF SafeSpec

\* Type correctness of the channel.
THEOREM TypeCorrect == SafeSpec => []TypeOK
BY Invariance, PTL DEF IInv

\* stop() is final: no operation that races with it leaves a message in the
\* ring or a thread asleep.
THEOREM StopIsFinal == SafeSpec => []StoppedIsQuiet
BY Invariance, PTL DEF IInv

-----------------------------------------------------------------------------
(* No lost wakeup.                                                            *)

\* Counting awake threads: a finite set loses at most one member to a removal
\* and gains exactly one by the addition of a new one.
LEMMA AwakeCount ==
    ASSUME NEW A, NEW B, IsFiniteSet(A), IsFiniteSet(B)
    PROVE  /\ Cardinality(A) \in Nat
           /\ A \subseteq B => Cardinality(A) <= Cardinality(B)
           /\ \A t : A \ {t} \subseteq B => Cardinality(A) - 1 <= Cardinality(B)
           /\ \A t : t \notin A /\ A \union {t} \subseteq B
                    => Cardinality(A) + 1 <= Cardinality(B)
<1>1. Cardinality(A) \in Nat /\ Cardinality(B) \in Nat
    BY FS_CardinalityType
<1>2. A \subseteq B => Cardinality(A) <= Cardinality(B)
    BY FS_Subset
<1>3. ASSUME NEW t, A \ {t} \subseteq B
      PROVE  Cardinality(A) - 1 <= Cardinality(B)
    <2>1. /\ IsFiniteSet(A \ {t})
          /\ Cardinality(A \ {t}) =
                IF t \in A THEN Cardinality(A) - 1 ELSE Cardinality(A)
        BY FS_RemoveElement
    <2>2. Cardinality(A \ {t}) <= Cardinality(B)
        BY <1>3, FS_Subset
    <2> QED BY <1>1, <2>1, <2>2
<1>4. ASSUME NEW t, t \notin A, A \union {t} \subseteq B
      PROVE  Cardinality(A) + 1 <= Cardinality(B)
    <2>1. /\ IsFiniteSet(A \union {t})
          /\ Cardinality(A \union {t}) = Cardinality(A) + 1
        BY <1>4, FS_AddElement
    <2>2. Cardinality(A \union {t}) <= Cardinality(B)
        BY <1>4, FS_Subset
    <2> QED BY <1>1, <2>1, <2>2
<1> QED BY <1>1, <1>2, <1>3, <1>4

\* Receivers are never asleep beside a message that nobody is coming for.
LEMMA ReceiversStep ==
    ASSUME IInv, ReceiversKeepUp, [Next]_vars
    PROVE  ReceiversKeepUp'
<1> DEFINE A == AwakeReceivers
           Kept == /\ A \subseteq A'
                   /\ mCount' <= mCount
                   /\ mCanRead' # {} => mCanRead # {}
           Taken(t) == /\ A \ {t} \subseteq A'
                       /\ mCount' = mCount - 1
                       /\ mCanRead' = mCanRead
           Woken(t) == /\ t \notin A /\ A \union {t} \subseteq A'
                       /\ mCount' <= mCount + 1
                       /\ mCanRead # {}
           Goal == mCanRead' # {} => mCount' <= Cardinality(A')
<1> USE DEF IInv
<1>1. /\ mCount \in 0..CAPACITY /\ mCount' \in 0..CAPACITY
      /\ CAPACITY \in Nat
    BY NextIInv, CapacityAssumption DEF TypeOK
<1>2. IsFiniteSet(A) /\ IsFiniteSet(A')
    <2>1. A \subseteq Thread /\ A' \subseteq Thread
        BY DEF AwakeReceivers
    <2> QED BY <2>1, ThreadAssumption, FS_Subset
<1>3. /\ Cardinality(A) \in Nat /\ Cardinality(A') \in Nat
      /\ A \subseteq A' => Cardinality(A) <= Cardinality(A')
      /\ \A t : A \ {t} \subseteq A' => Cardinality(A) - 1 <= Cardinality(A')
      /\ \A t : t \notin A /\ A \union {t} \subseteq A'
               => Cardinality(A) + 1 <= Cardinality(A')
    BY <1>2, AwakeCount, FS_CardinalityType
<1> HIDE DEF A
<1>4. (mCanRead # {} => mCount <= Cardinality(A))
    BY DEF ReceiversKeepUp, A
<1>5. SUFFICES Goal
    BY DEF ReceiversKeepUp, A
<1>6. /\ Kept => Goal
      /\ \A t : Taken(t) \/ Woken(t) => Goal
    <2>1. Kept => Goal
        BY <1>1, <1>3, <1>4
    <2>2. ASSUME NEW t, Taken(t) PROVE Goal
        <3>1. Cardinality(A) - 1 <= Cardinality(A')
            BY <1>3, <2>2
        <3> QED BY <1>1, <1>3, <1>4, <2>2, <3>1
    <2>3. ASSUME NEW t, Woken(t) PROVE Goal
        <3>1. Cardinality(A) + 1 <= Cardinality(A')
            BY <1>3, <2>3
        <3> QED BY <1>1, <1>3, <1>4, <2>3, <3>1
    <2> QED BY <2>1, <2>2, <2>3
<1> USE DEF A, AwakeReceivers, TypeOK, WaitersOK, state, calls
<1>7. ASSUME NEW t \in Thread, NEW o \in BlockingOp, NEW m, Call(t, o, m) PROVE Kept
    BY <1>1, <1>7 DEF Call, BlockingOp
<1>8. ASSUME NEW t \in Thread, SendWaits(t) \/ EmptyWaits(t) PROVE Kept
    BY <1>1, <1>8 DEF SendWaits, EmptyWaits, Wait
<1>9. ASSUME NEW t \in Thread, SeesEmpty(t) PROVE Kept
    BY <1>1, <1>9 DEF SeesEmpty, Runs, Return
<1>10. ASSUME NEW t \in Thread, DeadlinePasses(t) \/ Timeout(t) \/ SpuriousWakeup(t)
       PROVE  Kept
    BY <1>1, <1>10 DEF DeadlinePasses, Timeout, SpuriousWakeup
<1>11. ASSUME NEW t \in Thread, ReceiveExpires(t) PROVE Kept
    BY <1>1, <1>11 DEF ReceiveExpires, AfterRead, Return
<1>12. ASSUME NEW t \in Thread, TryReceive(t) PROVE Kept
    BY <1>1, <1>12 DEF TryReceive, AfterRead, Immediate
<1>13. CASE UNCHANGED vars
    BY <1>1, <1>6, <1>13 DEF vars
<1>14. ASSUME NEW t \in Thread,
              \/ \E o \in {"receive", "timedReceive"} : ReceiveWaits(t, o)
              \/ ReceiveIsLate(t)
       PROVE  Goal
    <2>1. mCount' = 0
        BY <1>14 DEF ReceiveWaits, ReceiveIsLate, Wait
    <2> QED BY <2>1, <1>3
<1>15. ASSUME NEW t \in Thread, NEW o \in {"receive", "timedReceive"}, Receive(t, o)
       PROVE  Goal
    <2>1. mCanRead' = mCanRead
        BY <1>15 DEF Receive, AfterRead
    <2>2. CASE mStopped
        BY <2>1, <2>2 DEF StoppedIsQuiet
    <2>3. CASE ~mStopped
        <3>1. mCount' = mCount - 1
            BY <1>15, <2>3 DEF Receive, AfterRead
        <3>2. A \ {t} \subseteq A'
            BY <1>15 DEF Receive, AfterRead, Return
        <3>3. Taken(t)
            BY <2>1, <3>1, <3>2
        <3> QED BY <3>3, <1>6
    <2> QED BY <2>2, <2>3
<1>16. ASSUME NEW success, NEW m, AfterWrite(success, m),
              \/ UNCHANGED <<op, timedOut>>
              \/ \E t \in Thread : /\ op[t] = "send"
                                   /\ op' = [op EXCEPT ![t] = "none"]
                                   /\ timedOut' = timedOut \ {t}
       PROVE  Goal
    <2>1. CASE mCanRead = {}
        BY <2>1, <1>16 DEF AfterWrite, Signal
    <2>2. CASE mCanRead # {}
        <3>1. PICK w \in mCanRead : mCanRead' = mCanRead \ {w}
            BY <2>2, <1>16 DEF AfterWrite, Signal
        <3>2. w \notin A
            BY <3>1
        <3>3. A \union {w} \subseteq A'
            BY <3>1, <1>16
        <3>4. mCount' <= mCount + 1
            BY <1>16, <1>1 DEF AfterWrite
        <3>5. Woken(w)
            BY <2>2, <3>2, <3>3, <3>4
        <3> QED BY <3>5, <1>6
    <2> QED BY <2>1, <2>2
<1>17. ASSUME NEW t \in Thread, Send(t)
       PROVE  Goal
    BY <1>16, <1>17 DEF Send, Runs, Return
<1>18. ASSUME NEW t \in Sender, NEW m \in Msg, TrySend(t, m)
       PROVE  Goal
    BY <1>16, <1>18 DEF TrySend, Immediate
<1>19. CASE Stop
    BY <1>19 DEF Stop
<1> HIDE DEF A, Kept, Taken, Woken, Goal, AwakeReceivers, IInv, TypeOK, WaitersOK
<1> QED BY <1>6, <1>7, <1>8, <1>9, <1>10, <1>11, <1>12, <1>13, <1>14, <1>15, <1>17, <1>18, <1>19
        DEF Next, Invoke, Proceed, Thread, BlockingOp

\* Every message in the ring has an awake receiver coming for it while any
\* receiver waits: a receiver is never left blocked beside a message.
THEOREM NoLostReadWakeup == SafeSpec => []ReceiversKeepUp
<1>1. Init => ReceiversKeepUp
    BY DEF Init, ReceiversKeepUp
<1> QED BY <1>1, Invariance, ReceiversStep, PTL DEF SafeSpec

-----------------------------------------------------------------------------
(* The same for the writers, when no thread calls waitForEmpty.               *)

NoEmptier == \A t \in Thread : op[t] # "waitForEmpty"

\* Senders are never asleep beside a free slot that nobody is coming for.
LEMMA SendersStep ==
    ASSUME IInv, NoEmptier, SendersKeepUp, [Next]_vars
    PROVE  SendersKeepUp'
<1> DEFINE A == AwakeSenders
           Blocked == mCanWrite # {} /\ ~mStopped
           Kept == /\ A \subseteq A'
                   /\ mCount' >= mCount
                   /\ Blocked' => Blocked
           Taken(t) == /\ A \ {t} \subseteq A'
                       /\ mCount' = mCount + 1
                       /\ Blocked' => Blocked
           Woken(t) == /\ t \notin A /\ A \union {t} \subseteq A'
                       /\ mCount' >= mCount - 1
                       /\ Blocked' => Blocked
           Goal == Blocked' => CAPACITY - mCount' <= Cardinality(A')
<1> USE DEF IInv
<1>1. /\ mCount \in 0..CAPACITY /\ mCount' \in 0..CAPACITY
      /\ CAPACITY \in Nat
    BY NextIInv, CapacityAssumption DEF TypeOK
<1>2. IsFiniteSet(A) /\ IsFiniteSet(A')
    <2>1. A \subseteq Thread /\ A' \subseteq Thread
        BY DEF AwakeSenders
    <2> QED BY <2>1, ThreadAssumption, FS_Subset
<1>3. /\ Cardinality(A) \in Nat /\ Cardinality(A') \in Nat
      /\ A \subseteq A' => Cardinality(A) <= Cardinality(A')
      /\ \A t : A \ {t} \subseteq A' => Cardinality(A) - 1 <= Cardinality(A')
      /\ \A t : t \notin A /\ A \union {t} \subseteq A'
               => Cardinality(A) + 1 <= Cardinality(A')
    BY <1>2, AwakeCount, FS_CardinalityType
<1> HIDE DEF A
<1>4. Blocked => CAPACITY - mCount <= Cardinality(A)
    BY DEF SendersKeepUp, A
<1>5. SUFFICES Goal
    BY DEF SendersKeepUp, A
<1> HIDE DEF Blocked
<1>6. /\ Kept => Goal
      /\ \A t : Taken(t) \/ Woken(t) => Goal
    <2>1. Kept => Goal
        BY <1>1, <1>3, <1>4
    <2>2. ASSUME NEW t, Taken(t) PROVE Goal
        <3>1. Cardinality(A) - 1 <= Cardinality(A')
            BY <1>3, <2>2
        <3> QED BY <1>1, <1>3, <1>4, <2>2, <3>1
    <2>3. ASSUME NEW t, Woken(t) PROVE Goal
        <3>1. Cardinality(A) + 1 <= Cardinality(A')
            BY <1>3, <2>3
        <3> QED BY <1>1, <1>3, <1>4, <2>3, <3>1
    <2> QED BY <2>1, <2>2, <2>3
<1> USE DEF A, Blocked, AwakeSenders, TypeOK, WaitersOK, state, calls
<1>7. ASSUME NEW t \in Thread, NEW o \in BlockingOp, NEW m, Call(t, o, m) PROVE Kept
    BY <1>1, <1>7 DEF Call, BlockingOp
<1>8. ASSUME NEW t \in Thread, SendWaits(t) PROVE Goal
    BY <1>1, <1>3, <1>8 DEF SendWaits, Wait, Full
<1>9. ASSUME NEW t \in Thread, EmptyWaits(t) \/ SeesEmpty(t) PROVE Goal
    BY <1>9 DEF EmptyWaits, SeesEmpty, Runs, NoEmptier
<1>10. ASSUME NEW t \in Thread, DeadlinePasses(t) \/ Timeout(t) \/ SpuriousWakeup(t)
       PROVE  Kept
    BY <1>1, <1>10 DEF DeadlinePasses, Timeout, SpuriousWakeup
<1>11. ASSUME NEW t \in Thread,
              \/ \E o \in {"receive", "timedReceive"} : ReceiveWaits(t, o)
              \/ ReceiveIsLate(t)
       PROVE  Kept
    BY <1>1, <1>11 DEF ReceiveWaits, ReceiveIsLate, Wait
<1>12. ASSUME NEW t \in Sender, NEW m \in Msg, TrySend(t, m) PROVE Kept
    BY <1>1, <1>12 DEF TrySend, AfterWrite, Immediate
<1>13. CASE UNCHANGED vars
    BY <1>1, <1>6, <1>13 DEF vars
<1>14. ASSUME NEW t \in Thread, Send(t) PROVE Goal
    <2>1. mCanWrite' = mCanWrite /\ mStopped' = mStopped
        BY <1>14 DEF Send, AfterWrite
    <2>2. CASE mStopped
        BY <2>1, <2>2
    <2>3. CASE ~mStopped
        <3>1. mCount' = mCount + 1
            BY <1>14, <2>3 DEF Send, AfterWrite
        <3>2. A \ {t} \subseteq A'
            BY <1>14 DEF Send, AfterWrite, Return
        <3>3. Taken(t)
            BY <2>1, <3>1, <3>2
        <3> QED BY <3>3, <1>6
    <2> QED BY <2>2, <2>3
<1>15. ASSUME NEW success, AfterRead(success),
              \/ UNCHANGED op
              \/ \E t \in Thread : /\ op[t] \in {"receive", "timedReceive"}
                                   /\ op' = [op EXCEPT ![t] = "none"]
       PROVE  Goal
    <2>1. CASE mCanWrite = {}
        BY <2>1, <1>15 DEF AfterRead, Signal
    <2>2. CASE mCanWrite # {}
        <3>1. PICK w \in mCanWrite : mCanWrite' = mCanWrite \ {w}
            BY <2>2, <1>15 DEF AfterRead, Signal
        <3>2. w \notin A
            BY <3>1
        <3>3. A \union {w} \subseteq A'
            BY <3>1, <1>15 DEF NoEmptier
        <3>4. mCount' >= mCount - 1 /\ (Blocked' => Blocked)
            BY <2>2, <1>15, <1>1 DEF AfterRead
        <3>5. Woken(w)
            BY <3>2, <3>3, <3>4
        <3> QED BY <3>5, <1>6
    <2> QED BY <2>1, <2>2
<1>16. ASSUME NEW t \in Thread, NEW o \in {"receive", "timedReceive"}, Receive(t, o)
       PROVE  Goal
    BY <1>15, <1>16 DEF Receive, Runs, Return
<1>17. ASSUME NEW t \in Thread, ReceiveExpires(t) PROVE Goal
    BY <1>15, <1>17 DEF ReceiveExpires, Return
<1>18. ASSUME NEW t \in Receiver, TryReceive(t) PROVE Goal
    BY <1>15, <1>18 DEF TryReceive, Immediate
<1>19. CASE Stop
    BY <1>19 DEF Stop
<1> HIDE DEF A, Kept, Taken, Woken, Goal, Blocked, AwakeSenders, IInv, TypeOK, WaitersOK
<1> QED BY <1>6, <1>7, <1>8, <1>9, <1>10, <1>11, <1>12, <1>13, <1>14, <1>16, <1>17, <1>18, <1>19
        DEF Next, Invoke, Proceed, Thread, BlockingOp

\* Without a caller of waitForEmpty, every free slot has an awake sender coming
\* for it while any sender waits.
THEOREM NoLostWriteWakeup ==
    ASSUME Emptier = {}
    PROVE  SafeSpec => []SendersKeepUp
<1>1. Init => SendersKeepUp
    BY DEF Init, SendersKeepUp
<1>2. IInv => NoEmptier
    BY DEF IInv, RolesOK, NoEmptier
<1>3. IInv /\ SendersKeepUp /\ [Next]_vars => SendersKeepUp'
    BY <1>2, SendersStep
<1> QED BY <1>1, <1>3, Invariance, PTL DEF SafeSpec

-----------------------------------------------------------------------------
(* The ring as a queue: every step of the ring is a step of the bounded FIFO  *)
(* queue or leaves it alone.                                                  *)

Item == Msg \union {NoMsg}

\* A function on 1..n is a sequence of length n.
LEMMA FunctionIsSeq ==
    ASSUME NEW S, NEW n \in Nat, NEW q \in [1..n -> S]
    PROVE  q \in Seq(S) /\ Len(q) = n
<1>1. q \in Seq(S)
    BY SeqDef
<1>2. Len(q) \in Nat /\ 1..Len(q) = 1..n
    BY <1>1, LenProperties
<1> QED BY <1>1, <1>2

\* The slots from mPos on, wrapped, are slots; no two of CAPACITY consecutive
\* ones are the same.
LEMMA RingSlots ==
    ASSUME NEW pos \in Slot
    PROVE  /\ \A i \in 0..CAPACITY - 1 : WrapSlot(pos + i) \in Slot
           /\ \A i, j \in 0..CAPACITY - 1 :
                 WrapSlot(pos + i) = WrapSlot(pos + j) => i = j
BY CapacityAssumption DEF Slot, WrapSlot

\* The contents of the ring are a sequence of mCount items.
LEMMA QueueType ==
    ASSUME TypeOK
    PROVE  /\ queue \in Seq(Item)
           /\ Len(queue) = mCount
           /\ \A i \in 1..mCount : queue[i] = mItems[WrapSlot(mPos + (i - 1))]
<1>1. mCount \in Nat
    BY CapacityAssumption DEF TypeOK
<1>2. queue \in [1..mCount -> Item]
    <2>1. \A i \in 1..mCount : i - 1 \in 0..CAPACITY - 1
        BY CapacityAssumption DEF TypeOK
    <2>2. \A i \in 1..mCount : mItems[WrapSlot(mPos + (i - 1))] \in Item
        BY <2>1, RingSlots DEF TypeOK, Item
    <2> QED BY <2>2 DEF queue
<1>3. \A i \in 1..mCount : queue[i] = mItems[WrapSlot(mPos + (i - 1))]
    BY DEF queue
<1> QED BY <1>1, <1>2, <1>3, FunctionIsSeq

\* The queue of the next state, slot by slot.
LEMMA QueueTypeNext ==
    ASSUME TypeOK'
    PROVE  /\ queue' \in Seq(Item)
           /\ Len(queue') = mCount'
           /\ \A i \in 1..mCount' : queue'[i] = mItems'[WrapSlot(mPos' + (i - 1))]
<1>1. mCount' \in Nat
    BY CapacityAssumption DEF TypeOK
<1>2. queue' \in [1..mCount' -> Item]
    <2>1. \A i \in 1..mCount' : i - 1 \in 0..CAPACITY - 1
        BY CapacityAssumption DEF TypeOK
    <2>2. \A i \in 1..mCount' : mItems'[WrapSlot(mPos' + (i - 1))] \in Item
        BY <2>1, RingSlots DEF TypeOK, Item
    <2> QED BY <2>2 DEF queue
<1>3. \A i \in 1..mCount' : queue'[i] = mItems'[WrapSlot(mPos' + (i - 1))]
    BY DEF queue, WrapSlot
<1> QED BY <1>1, <1>2, <1>3, FunctionIsSeq

\* Writing behind the newest message appends it.
LEMMA WriteAppends ==
    ASSUME TypeOK, TypeOK', mCount < CAPACITY, NEW m \in Item, AfterWrite(TRUE, m)
    PROVE  queue' = Append(queue, m)
<1>1. /\ mCount' = mCount + 1 /\ mPos' = mPos
      /\ mItems' = [mItems EXCEPT ![WrapSlot(mPos + mCount)] = m]
      /\ mItems \in [Slot -> Item]
    BY DEF AfterWrite, TypeOK, Item
<1>2. /\ mPos \in Slot /\ mCount \in 0..CAPACITY - 1 /\ CAPACITY \in Nat
    BY CapacityAssumption DEF TypeOK
<1>3. /\ Append(queue, m) \in Seq(Item)
      /\ Len(Append(queue, m)) = mCount + 1
      /\ \A i \in 1..mCount : Append(queue, m)[i] = queue[i]
      /\ Append(queue, m)[mCount + 1] = m
    BY QueueType, AppendProperties
<1>4. WrapSlot(mPos + mCount) \in Slot
    BY <1>2, RingSlots
<1>5. ASSUME NEW i \in 1..mCount
      PROVE  mItems'[WrapSlot(mPos + (i - 1))] = mItems[WrapSlot(mPos + (i - 1))]
    <2>1. i - 1 \in 0..CAPACITY - 1 /\ i - 1 # mCount
        BY <1>2
    <2>2. /\ WrapSlot(mPos + (i - 1)) \in Slot
          /\ WrapSlot(mPos + (i - 1)) # WrapSlot(mPos + mCount)
        BY <1>2, <2>1, RingSlots
    <2> QED BY <1>1, <1>4, <2>2
<1>6. mItems'[WrapSlot(mPos + mCount)] = m
    BY <1>1, <1>4
<1>7. ASSUME NEW i \in 1..mCount + 1
      PROVE  queue'[i] = Append(queue, m)[i]
    <2>1. queue'[i] = mItems'[WrapSlot(mPos + (i - 1))]
        BY <1>1, QueueTypeNext
    <2>2. CASE i = mCount + 1
        <3>1. i - 1 = mCount
            BY <1>2, <2>2
        <3> QED BY <1>3, <1>6, <2>1, <2>2, <3>1
    <2>3. CASE i \in 1..mCount
        BY <1>3, <1>5, <2>1, <2>3, QueueType
    <2>4. i = mCount + 1 \/ i \in 1..mCount
        BY <1>2
    <2> QED BY <2>2, <2>3, <2>4
<1> QED BY <1>1, <1>3, <1>7, QueueTypeNext, SeqEqual

\* Reading the oldest message takes the head of the queue.
LEMMA ReadTakesHead ==
    ASSUME TypeOK, TypeOK', mCount # 0, AfterRead(TRUE)
    PROVE  queue # <<>> /\ mItems[mPos] = Head(queue) /\ queue' = Tail(queue)
<1>1. /\ mCount' = mCount - 1
      /\ mPos' = IF mPos + 1 = CAPACITY THEN 0 ELSE mPos + 1
      /\ mItems' = [mItems EXCEPT ![mPos] = NoMsg]
      /\ mItems \in [Slot -> Item]
    BY DEF AfterRead, TypeOK, Item
<1>2. /\ mPos \in Slot /\ mCount \in 1..CAPACITY /\ CAPACITY \in Nat
    BY CapacityAssumption DEF TypeOK
<1>3. queue # <<>>
    BY <1>2, QueueType, EmptySeq
<1>4. mItems[mPos] = Head(queue)
    <2>1. Head(queue) = queue[1]
        BY <1>3, QueueType
    <2>2. WrapSlot(mPos + (1 - 1)) = mPos
        BY <1>2 DEF WrapSlot, Slot
    <2>3. queue[1] = mItems[WrapSlot(mPos + (1 - 1))]
        BY <1>2, QueueType
    <2> QED BY <2>1, <2>2, <2>3
<1>5. /\ Tail(queue) \in Seq(Item)
      /\ Len(Tail(queue)) = mCount - 1
      /\ \A i \in 1..mCount - 1 : Tail(queue)[i] = queue[i + 1]
    BY <1>3, QueueType, HeadTailProperties
<1>6. ASSUME NEW i \in 1..mCount - 1
      PROVE  queue'[i] = Tail(queue)[i]
    <2>1. queue'[i] = mItems'[WrapSlot(mPos' + (i - 1))]
        BY <1>1, QueueTypeNext
    <2>2. WrapSlot(mPos' + (i - 1)) = WrapSlot(mPos + i)
        BY <1>1, <1>2 DEF WrapSlot, Slot
    <2>3. i \in 0..CAPACITY - 1 /\ 0 \in 0..CAPACITY - 1 /\ i # 0
        BY <1>2
    <2>4. WrapSlot(mPos + i) \in Slot /\ WrapSlot(mPos + i) # WrapSlot(mPos + 0)
        BY <1>2, <2>3, RingSlots
    <2>5. WrapSlot(mPos + 0) = mPos
        BY <1>2 DEF WrapSlot, Slot
    <2>6. mItems'[WrapSlot(mPos + i)] = mItems[WrapSlot(mPos + i)]
        BY <1>1, <1>2, <2>4, <2>5
    <2>7. i + 1 \in 1..mCount /\ (i + 1) - 1 = i
        BY <1>2
    <2>8. queue[i + 1] = mItems[WrapSlot(mPos + i)]
        BY <2>7, QueueType
    <2> QED BY <1>5, <2>1, <2>2, <2>6, <2>8
<1> QED BY <1>1, <1>3, <1>4, <1>5, <1>6, QueueTypeNext, SeqEqual
-----------------------------------------------------------------------------
(* The refinement.                                                            *)

\* Steps that change neither the ring's place nor its slots leave its queue as it was.
LEMMA SameQueue ==
    ASSUME UNCHANGED <<mPos, mCount, mItems>>
    PROVE  queue' = queue
BY DEF queue, WrapSlot

\* Every step of the channel is a step of the abstract channel, or changes
\* nothing a caller can see.
LEMMA StepRefines ==
    ASSUME IInv, [Next]_vars
    PROVE  [Abstract!Next]_Abstract!vars
<1> USE DEF IInv, state, calls
<1>1. TypeOK /\ TypeOK' /\ CAPACITY \in Nat \ {0}
    BY NextIInv, CapacityAssumption
<1>2. /\ Len(queue) = mCount /\ mCount \in 0..CAPACITY
      /\ mCount = 0 <=> queue = <<>>
    BY <1>1, QueueType, EmptySeq DEF TypeOK
<1>3. ASSUME NEW t, NEW ok, NEW m, Return(t, ok, m) PROVE Abstract!Return(t, ok, m)
    BY <1>3 DEF Return, Abstract!Return, Result, Abstract!Result
<1>4. ASSUME NEW t, NEW o, NEW ok, NEW m, Immediate(t, o, ok, m)
      PROVE  Abstract!Immediate(t, o, ok, m)
    BY <1>4 DEF Immediate, Abstract!Immediate, Result, Abstract!Result
<1>5. ASSUME NEW m \in Item, ~Full, ~mStopped, AfterWrite(TRUE, m)
      PROVE  Abstract!Put(m)
    <2>1. mCount < CAPACITY /\ mStopped' = mStopped
        BY <1>1, <1>2, <1>5 DEF Full, AfterWrite
    <2>2. queue' = Append(queue, m)
        BY <1>1, <1>5, <2>1, WriteAppends
    <2> QED BY <1>2, <1>5, <2>1, <2>2 DEF Abstract!Put
<1>6. ASSUME mCount # 0, ~mStopped, AfterRead(TRUE)
      PROVE  Abstract!Take /\ mItems[mPos] = Head(queue)
    <2>1. queue # <<>> /\ mItems[mPos] = Head(queue) /\ queue' = Tail(queue)
        BY <1>1, <1>6, ReadTakesHead
    <2> QED BY <1>6, <2>1 DEF Abstract!Take, AfterRead
<1>7. ASSUME NEW m, AfterWrite(FALSE, m) PROVE UNCHANGED Abstract!chan
    BY <1>7, SameQueue DEF AfterWrite, Abstract!chan
<1>8. ASSUME AfterRead(FALSE) PROVE UNCHANGED Abstract!chan
    BY <1>8, SameQueue DEF AfterRead, Abstract!chan
<1>9. ASSUME UNCHANGED state PROVE UNCHANGED Abstract!chan
    BY <1>9, SameQueue DEF Abstract!chan
<1>10. ASSUME UNCHANGED <<state, calls>> PROVE UNCHANGED Abstract!vars
    BY <1>9, <1>10 DEF Abstract!vars, Abstract!chan
<1>11. CASE Invoke
    BY <1>9, <1>11 DEF Invoke, Abstract!Next, Abstract!Invoke, Call, Abstract!Call
<1>12. ASSUME NEW t \in Thread,
              \/ SendWaits(t) \/ ReceiveIsLate(t) \/ EmptyWaits(t)
              \/ \E o \in {"receive", "timedReceive"} : ReceiveWaits(t, o)
              \/ DeadlinePasses(t) \/ Timeout(t) \/ SpuriousWakeup(t)
       PROVE  UNCHANGED Abstract!vars
    BY <1>10, <1>12 DEF SendWaits, ReceiveIsLate, EmptyWaits, ReceiveWaits, Wait,
                        DeadlinePasses, Timeout, SpuriousWakeup
<1>13. ASSUME NEW t \in Thread, Send(t) PROVE Abstract!Next
    <2>1. CASE mStopped
        <3>1. Abstract!Refuse(t)
            BY <1>3, <1>7, <1>13, <2>1 DEF Send, Runs, Abstract!Refuse
        <3> QED BY <3>1 DEF Abstract!Next, Abstract!Thread, Thread
    <2>2. CASE ~mStopped
        <3>1. msg[t] \in Item /\ AfterWrite(TRUE, msg[t]) /\ ~Full
            BY <1>1, <1>13, <2>2 DEF Send, TypeOK, Item
        <3>2. Abstract!Send(t)
            BY <1>3, <1>5, <1>13, <2>2, <3>1 DEF Send, Runs, Abstract!Send
        <3>3. t \in Sender
            BY <1>13 DEF Send, Runs, RolesOK
        <3> QED BY <3>2, <3>3 DEF Abstract!Next, Abstract!SomeSend
    <2> QED BY <2>1, <2>2
<1>14. ASSUME NEW t \in Sender, NEW m \in Msg, TrySend(t, m) PROVE Abstract!Next
    <2>1. CASE ~Full /\ ~mStopped
        <3>1. m \in Item /\ AfterWrite(TRUE, m)
            BY <1>14, <2>1 DEF TrySend, Item
        <3>2. Abstract!Put(m) /\ Abstract!Immediate(t, "trySend", TRUE, NoMsg)
            BY <1>4, <1>5, <1>14, <2>1, <3>1 DEF TrySend
        <3> QED BY <3>2 DEF Abstract!Next, Abstract!TrySend
    <2>2. CASE Full \/ mStopped
        <3>1. AfterWrite(FALSE, m) /\ Immediate(t, "trySend", FALSE, NoMsg)
            BY <1>14, <2>2 DEF TrySend
        <3>2. UNCHANGED Abstract!chan /\ Abstract!Immediate(t, "trySend", FALSE, NoMsg)
            BY <1>4, <1>7, <3>1
        <3>3. Len(queue) = CAPACITY \/ mStopped
            BY <1>1, <1>2, <2>2 DEF Full
        <3> QED BY <3>2, <3>3 DEF Abstract!Next, Abstract!TrySend
    <2> QED BY <2>1, <2>2
<1>15. ASSUME NEW t \in Thread, NEW o \in {"receive", "timedReceive"}, Receive(t, o)
       PROVE  Abstract!Next
    <2>1. CASE mStopped
        <3>1. AfterRead(FALSE) /\ Return(t, FALSE, NoMsg) /\ op[t] = o
            BY <1>15, <2>1 DEF Receive, Runs
        <3>2. Abstract!Refuse(t)
            BY <1>3, <1>8, <2>1, <3>1 DEF Abstract!Refuse
        <3> QED BY <3>2 DEF Abstract!Next, Abstract!Thread, Thread
    <2>2. CASE ~mStopped
        <3>1. AfterRead(TRUE) /\ Return(t, TRUE, mItems[mPos]) /\ op[t] = o /\ mCount # 0
            BY <1>15, <2>2 DEF Receive, Runs
        <3>2. Abstract!Take /\ mItems[mPos] = Head(queue)
            BY <1>6, <2>2, <3>1
        <3>3. Abstract!Return(t, TRUE, Head(queue))
            BY <1>3, <3>1, <3>2
        <3>4. Abstract!Receive(t) /\ t \in Receiver
            BY <3>1, <3>2, <3>3 DEF Abstract!Receive, RolesOK
        <3> QED BY <3>4 DEF Abstract!Next, Abstract!SomeReceive
    <2> QED BY <2>1, <2>2
<1>16. ASSUME NEW t \in Thread, ReceiveExpires(t) PROVE Abstract!Next
    <2>1. AfterRead(FALSE) /\ Return(t, FALSE, NoMsg) /\ op[t] = "timedReceive"
        BY <1>16 DEF ReceiveExpires, WaitersOK
    <2>2. Abstract!Expire(t)
        BY <1>3, <1>8, <2>1 DEF Abstract!Expire
    <2> QED BY <2>2 DEF Abstract!Next, Abstract!Thread, Thread
<1>17. ASSUME NEW t \in Receiver, TryReceive(t) PROVE Abstract!Next
    <2>1. CASE mCount # 0 /\ ~mStopped
        <3>1. AfterRead(TRUE) /\ Immediate(t, "tryReceive", TRUE, mItems[mPos])
            BY <1>17, <2>1 DEF TryReceive
        <3>2. Abstract!Take /\ Abstract!Immediate(t, "tryReceive", TRUE, Head(queue))
            BY <1>4, <1>6, <2>1, <3>1
        <3> QED BY <3>2 DEF Abstract!Next, Abstract!TryReceive
    <2>2. CASE mCount = 0 \/ mStopped
        <3>1. AfterRead(FALSE) /\ Immediate(t, "tryReceive", FALSE, NoMsg)
            BY <1>17, <2>2 DEF TryReceive
        <3>2. UNCHANGED Abstract!chan /\ Abstract!Immediate(t, "tryReceive", FALSE, NoMsg)
            BY <1>4, <1>8, <3>1
        <3>3. queue = <<>>
            BY <1>2, <2>2 DEF StoppedIsQuiet
        <3> QED BY <3>2, <3>3 DEF Abstract!Next, Abstract!TryReceive
    <2> QED BY <2>1, <2>2
<1>18. ASSUME NEW t \in Thread, SeesEmpty(t) PROVE Abstract!Next
    <2>1. Abstract!SeeEmpty(t)
        BY <1>2, <1>3, <1>9, <1>18 DEF SeesEmpty, Runs, Abstract!SeeEmpty
    <2> QED BY <2>1 DEF Abstract!Next, Abstract!Thread, Thread
<1>19. CASE Stop
    <2>1. mCount' = 0 /\ queue' = <<>>
        BY <1>1, <1>19, QueueTypeNext, EmptySeq DEF Stop
    <2>2. Abstract!Stop
        BY <1>19, <2>1 DEF Stop, Abstract!Stop
    <2> QED BY <2>2 DEF Abstract!Next
<1>20. CASE UNCHANGED vars
    BY <1>10, <1>20 DEF vars
<1> QED BY <1>11, <1>12, <1>13, <1>14, <1>15, <1>16, <1>17, <1>18, <1>19, <1>20
        DEF Next, Proceed

\* The initial channel is an empty queue.
LEMMA InitRefines == Init => Abstract!Init
<1> SUFFICES ASSUME Init PROVE Abstract!Init
    OBVIOUS
<1>1. TypeOK /\ mCount = 0
    BY InitIInv DEF IInv, Init
<1>2. queue = <<>>
    BY <1>1, QueueType, EmptySeq
<1> QED BY <1>2 DEF Init, Abstract!Init, Result, Abstract!Result, Thread, Abstract!Thread

\* The ring, its lock and its condition variables implement a bounded FIFO
\* channel: no message is lost, duplicated, reordered or handed out after stop.
THEOREM Refinement == SafeSpec => ImplementsChannel
BY InitRefines, StepRefines, Invariance, PTL
   DEF SafeSpec, ImplementsChannel, Abstract!SafeSpec

-----------------------------------------------------------------------------
(* WorkerThread: the worker processes the items one by one in the order they  *)
(* were accepted, and a sync waits for all that was accepted before it, for   *)
(* any number of commands, of enqueuing and of starting threads, whether or   *)
(* not the system can refuse the worker its thread.                           *)

Typed ==
    /\ mStarted \in BOOLEAN /\ mFinished \in BOOLEAN /\ shouldStop \in BOOLEAN
    /\ mQueue \in Seq(Command) /\ todo \in Seq(Command)
    /\ accepted \in Seq(Command) /\ processed \in Seq(Command)
    /\ next \in 1 .. Len(todo) + 1
    /\ called \subseteq Command /\ ready \subseteq Command
    /\ worker \in {"none", "idle", "batch", "drain", "exited"}
    /\ starting \in [Starter -> {"no", "claimed", "created", "returned", "failed"}]

\* One thread at most gets past the claim, and before it creates the worker there is none.
OneWorker ==
    /\ worker # "none" => mStarted
    /\ \A s \in Starter : starting[s] = "claimed" => mStarted /\ worker = "none"
    /\ \A s, t \in Starter : starting[s] = "claimed" /\ starting[t] = "claimed" => s = t

\* Where the worker is tells what it knows of the batch and of a stop.
Phase ==
    /\ worker \in {"none", "idle"} => todo = <<>> /\ next = 1 /\ ~shouldStop
    /\ worker \in {"drain", "exited"} => next = Len(todo) + 1 /\ shouldStop
    /\ mFinished => worker = "exited"

\* The number of accepted commands the worker has handled.
Handled == Len(accepted) - Len(mQueue) - Len(todo) + next - 1

\* Behind the handled commands come the rest of the batch and then the queue.
Pending ==
    /\ Handled \in next - 1 .. Len(accepted)
    /\ \A k \in next .. Len(todo) : todo[k] = accepted[Handled - next + 1 + k]
    /\ \A k \in 1 .. Len(mQueue) : mQueue[k] = accepted[Len(accepted) - Len(mQueue) + k]

\* A command is accepted once.
Once == \A i, j \in 1 .. Len(accepted) : accepted[i] = accepted[j] => i = j

\* Before the worker exits, the handled commands are the accepted ones that are answered.
Answered ==
    \A i \in 1 .. Len(accepted) :
        worker # "exited" => (accepted[i] \in ready => i <= Handled)

\* processed lists, in order, the items among the first upto accepted commands, and all of
\* them; those are the handled ones until an item says stop, and then those up to that item.
Lists(upto) ==
    /\ \A k \in 1 .. Len(processed) : \E i \in 1 .. upto : processed[k] = accepted[i]
    /\ \A k \in 1 .. Len(processed) : processed[k] \notin Sync
    /\ \A i \in 1 .. upto : accepted[i] \in Sync \/ \E k \in 1 .. Len(processed) : processed[k] = accepted[i]
    /\ \A j, k \in 1 .. Len(processed), a, b \in 1 .. upto :
           processed[j] = accepted[a] /\ processed[k] = accepted[b] /\ j < k => a < b
    /\ \A k \in 1 .. Len(processed) - 1 : processed[k] \notin Halt

Done ==
    IF shouldStop
    THEN /\ \E upto \in 0 .. Handled : Lists(upto)
         /\ \E k \in 1 .. Len(processed) : processed[k] \in Halt
    ELSE /\ Lists(Handled)
         /\ \A k \in 1 .. Len(processed) : processed[k] \notin Halt

WInv == Typed /\ OneWorker /\ Phase /\ Pending /\ Once /\ Answered /\ Done

-----------------------------------------------------------------------------
(* What the invariant depends on.                                             *)

\* The invariant does not depend on the rest of the state.
LEMMA SameInv ==
    ASSUME WInv,
           UNCHANGED <<mFinished, mQueue, todo, accepted, processed, next, shouldStop, ready>>,
           mStarted' \in BOOLEAN, called' \subseteq Command,
           starting' \in [Starter -> {"no", "claimed", "created", "returned", "failed"}],
           OneWorker',
           worker' = worker \/ (worker = "none" /\ worker' = "idle")
    PROVE  WInv'
  <1>1. /\ Len(accepted') = Len(accepted) /\ Len(todo') = Len(todo) /\ Len(mQueue') = Len(mQueue)
        /\ Handled' = Handled
    BY DEF Handled
  <1>2. Typed' /\ Phase'
    BY DEF WInv, Typed, Phase
  <1>3. Pending' /\ Once'
    BY <1>1 DEF WInv, Pending, Once
  <1>4. Answered'
    BY <1>1, <1>2 DEF WInv, Answered, Phase
  <1>5. Done'
    BY <1>1 DEF WInv, Done, Lists
  <1> QED BY <1>2, <1>3, <1>4, <1>5 DEF WInv

\* Before any step there is no worker, and nothing has been accepted.
LEMMA InitInv == WorkerInit => WInv
  <1> SUFFICES ASSUME WorkerInit PROVE WInv
    OBVIOUS
  <1>0. <<>> \in Seq(Command) /\ Len(<<>>) = 0
    BY EmptySeq
  <1>1. /\ accepted = <<>> /\ mQueue = <<>> /\ todo = <<>> /\ processed = <<>>
        /\ next = 1 /\ ready = {} /\ worker = "none" /\ ~shouldStop /\ ~mFinished
        /\ \A s \in Starter : starting[s] = "no"
    BY DEF WorkerInit
  <1>a. Len(accepted) = 0 /\ Len(mQueue) = 0 /\ Len(todo) = 0 /\ Len(processed) = 0 /\ next = 1
    BY <1>0, <1>1
  <1>b. Typed
    <2>1. /\ starting \in [Starter -> {"no", "claimed", "created", "returned", "failed"}]
          /\ mStarted \in BOOLEAN /\ mFinished \in BOOLEAN /\ shouldStop \in BOOLEAN /\ called = {}
      BY DEF WorkerInit
    <2> QED BY <1>0, <1>1, <1>a, <2>1 DEF Typed
  <1>2. OneWorker /\ Phase
    BY <1>1 DEF OneWorker, Phase
  <1>3. Handled = 0
    BY <1>a DEF Handled
  <1>4. Pending /\ Once /\ Answered
    BY <1>1, <1>a, <1>3 DEF Pending, Once, Answered
  <1>5. Done
    BY <1>1, <1>a, <1>3 DEF Done, Lists
  <1> QED BY <1>b, <1>2, <1>4, <1>5 DEF WInv

-----------------------------------------------------------------------------
(* start() and the steps that only wait.                                      *)

\* The first thread that calls start() claims the worker; the others go away.
LEMMA ClaimInv == ASSUME WInv, NEW s \in Starter, StartClaims(s) PROVE WInv'
  <1>1. \A t \in Starter : starting'[t] = "claimed" =>
            \/ t = s /\ ~mStarted
            \/ t # s /\ starting[t] = "claimed"
    BY DEF StartClaims, WInv, Typed
  <1>2. ~mStarted => worker = "none" /\ \A t \in Starter : starting[t] # "claimed"
    BY DEF WInv, OneWorker
  <1>3. mStarted' = TRUE /\ worker' = worker
    BY DEF StartClaims, workerVars
  <1>4. OneWorker'
    BY <1>1, <1>2, <1>3 DEF WInv, OneWorker
  <1> QED BY <1>4, SameInv DEF StartClaims, queueVars, workerVars, WInv, Typed

\* The thread whose claim succeeded creates the worker; no other is left to create one.
LEMMA CreateInv == ASSUME WInv, NEW s \in Starter, StartCreates(s) PROVE WInv'
  <1>1. mStarted /\ worker = "none" /\ \A t \in Starter : starting[t] = "claimed" => t = s
    BY DEF WInv, OneWorker, StartCreates
  <1>2. \A t \in Starter : starting'[t] # "claimed"
    BY <1>1 DEF StartCreates, WInv, Typed
  <1>3. OneWorker'
    BY <1>1, <1>2 DEF StartCreates, OneWorker
  <1> QED BY <1>1, <1>3, SameInv DEF StartCreates, queueVars, WInv, Typed

\* A start that ends, well or not, is no longer a claim.
LEMMA StartEndsInv ==
    ASSUME WInv, NEW s \in Starter, StartReturns(s) \/ StartFails(s)
    PROVE  WInv'
  <1>1. /\ \A t \in Starter : starting'[t] = "claimed" => starting[t] = "claimed"
        /\ starting' \in [Starter -> {"no", "claimed", "created", "returned", "failed"}]
    BY DEF StartReturns, StartFails, WInv, Typed
  <1>2. UNCHANGED <<mStarted, mFinished, ready, queueVars, workerVars>>
    BY DEF StartReturns, StartFails
  <1>3. OneWorker'
    BY <1>1, <1>2 DEF OneWorker, WInv, workerVars
  <1> QED BY <1>1, <1>2, <1>3, SameInv DEF queueVars, workerVars, WInv, Typed

\* A call that has not got the lock, a wait and a wakeup.
LEMMA WaitInv ==
    ASSUME WInv, (\E c \in Command : CallEnqueue(c)) \/ Waits \/ WorkerWakesUp \/ UNCHANGED threadVars
    PROVE  WInv'
  <1>1. /\ UNCHANGED <<mStarted, mFinished, starting, ready, mQueue, accepted, workerVars>>
        /\ called' \subseteq Command
    BY DEF CallEnqueue, Waits, WorkerWakesUp, threadVars, queueVars, workerVars, WInv, Typed
  <1>2. OneWorker'
    BY <1>1 DEF OneWorker, WInv, workerVars
  <1> QED BY <1>1, <1>2, SameInv DEF workerVars, WInv, Typed

-----------------------------------------------------------------------------
(* The queue and the batch.                                                   *)

\* A command that arrives is put behind all others, or answered without being accepted.
LEMMA EnqueueInv == ASSUME WInv, NEW c \in Command, Enqueue(c) PROVE WInv'
  <1>0. /\ Len(accepted) \in Nat /\ Len(mQueue) \in Nat /\ Len(todo) \in Nat /\ next \in Nat \ {0}
        /\ DOMAIN accepted = 1 .. Len(accepted)
    BY LenProperties DEF WInv, Typed
  <1>1. /\ \A i \in 1 .. Len(accepted) : accepted[i] # c
        /\ c \notin ready
    BY <1>0 DEF Enqueue, Elements
  <1>2. /\ UNCHANGED <<mStarted, mFinished, starting, called, todo, next, shouldStop, worker, processed>>
        /\ OneWorker' /\ Phase'
    BY DEF Enqueue, workerVars, WInv, OneWorker, Phase
  <1>3. CASE UNCHANGED <<mQueue, accepted>> /\ ready' = ready \union {c}
    <2>1. Typed'
      BY <1>2, <1>3 DEF WInv, Typed
    <2>2. Handled' = Handled
      BY <1>2, <1>3 DEF Handled
    <2>3. Pending' /\ Once'
      BY <1>2, <1>3, <2>2 DEF WInv, Pending, Once
    <2>a. Done'
      BY <1>2, <1>3, <2>2 DEF WInv, Done, Lists
    <2>4. Answered'
      BY <1>1, <1>2, <1>3, <2>2 DEF WInv, Answered
    <2> QED BY <1>2, <2>1, <2>3, <2>a, <2>4 DEF WInv
  <1>4. CASE mQueue' = Append(mQueue, c) /\ accepted' = Append(accepted, c) /\ ready' = ready
    <2>1. /\ accepted' \in Seq(Command) /\ Len(accepted') = Len(accepted) + 1
          /\ \A i \in 1 .. Len(accepted) : accepted'[i] = accepted[i]
          /\ accepted'[Len(accepted) + 1] = c
      BY <1>4, AppendProperties DEF WInv, Typed
    <2>2. /\ mQueue' \in Seq(Command) /\ Len(mQueue') = Len(mQueue) + 1
          /\ \A i \in 1 .. Len(mQueue) : mQueue'[i] = mQueue[i]
          /\ mQueue'[Len(mQueue) + 1] = c
      BY <1>4, AppendProperties DEF WInv, Typed
    <2>3. Typed'
      BY <1>2, <1>4, <2>1, <2>2 DEF WInv, Typed
    <2>4. Handled' = Handled /\ Handled \in Nat /\ Handled <= Len(accepted)
      <3>1. Handled \in Nat /\ Handled <= Len(accepted)
        BY <1>0 DEF WInv, Pending
      <3>2. Handled' = (Len(accepted) + 1) - (Len(mQueue) + 1) - Len(todo) + next - 1
        BY <1>2, <2>1, <2>2 DEF Handled
      <3> QED BY <1>0, <3>1, <3>2 DEF Handled
    <2>5. Pending'
      <3>1. Handled' \in next' - 1 .. Len(accepted')
        BY <1>0, <1>2, <2>1, <2>4 DEF WInv, Pending
      <3>2. \A k \in next .. Len(todo) : todo[k] = accepted'[Handled - next + 1 + k]
        <4> TAKE k \in next .. Len(todo)
        <4>1. Handled - next + 1 + k \in 1 .. Len(accepted)
          BY <1>0, <2>4 DEF Handled, WInv, Pending
        <4> QED BY <2>1, <4>1 DEF WInv, Pending
      <3>3. \A k \in 1 .. Len(mQueue') : mQueue'[k] = accepted'[Len(accepted') - Len(mQueue') + k]
        <4> TAKE k \in 1 .. Len(mQueue')
        <4>1. CASE k = Len(mQueue) + 1
          BY <1>0, <2>1, <2>2, <4>1
        <4>2. CASE k \in 1 .. Len(mQueue)
          <5>1. Len(accepted) - Len(mQueue) + k \in 1 .. Len(accepted)
            BY <1>0, <2>4, <4>2 DEF Handled, WInv, Typed
          <5>2. mQueue[k] = accepted[Len(accepted) - Len(mQueue) + k]
            BY <4>2 DEF WInv, Pending
          <5> QED BY <1>0, <2>1, <2>2, <4>2, <5>1, <5>2
        <4> QED BY <1>0, <2>2, <4>1, <4>2
      <3> QED BY <1>2, <2>4, <3>1, <3>2, <3>3 DEF Pending
    <2>6. Once'
      BY <1>0, <1>1, <2>1 DEF WInv, Once
    <2>7. Answered'
      BY <1>0, <1>1, <1>2, <1>4, <2>1, <2>4 DEF WInv, Answered
    <2>8. Done'
      <3>1. ASSUME NEW upto \in 0 .. Handled, Lists(upto) PROVE Lists(upto)'
        <4>1. \A i \in 1 .. upto : accepted'[i] = accepted[i]
          BY <1>0, <2>1, <2>4
        <4>2. PICK a : a = accepted'
          OBVIOUS
        <4>3. \A i \in 1 .. upto : a[i] = accepted[i]
          BY <4>1, <4>2
        <4> QED BY <1>2, <3>1, <4>2, <4>3 DEF Lists
      <3>2. CASE shouldStop
        BY <1>2, <2>4, <3>1, <3>2 DEF WInv, Done
      <3>3. CASE ~shouldStop
        BY <1>2, <2>4, <3>1, <3>3 DEF WInv, Done
      <3> QED BY <3>2, <3>3
    <2> QED BY <1>2, <2>3, <2>5, <2>6, <2>7, <2>8 DEF WInv
  <1> QED BY <1>3, <1>4 DEF Enqueue

\* The worker takes the queue as its batch when it has no other.
LEMMA TakeInv == ASSUME WInv, TakeBatch PROVE WInv'
  <1>0. Len(accepted) \in Nat /\ Len(mQueue) \in Nat /\ <<>> \in Seq(Command) /\ Len(<<>>) = 0
    BY LenProperties, EmptySeq DEF WInv, Typed
  <1>1. todo = <<>> /\ next = 1 /\ ~shouldStop /\ worker = "idle"
    BY DEF TakeBatch, WInv, Phase
  <1>2. /\ todo' = mQueue /\ mQueue' = <<>> /\ next' = 1 /\ shouldStop' = FALSE /\ worker' = "batch"
        /\ UNCHANGED <<mStarted, mFinished, starting, accepted, called, processed, ready>>
    BY DEF TakeBatch
  <1>3. Typed' /\ OneWorker' /\ Phase'
    <2>a. 1 \in 1 .. Len(mQueue) + 1
      BY <1>0
    <2>b. next' \in 1 .. Len(todo') + 1
      BY <1>2, <2>a
    <2>1. Typed'
      BY <1>0, <1>2, <2>b DEF WInv, Typed
    <2>2. OneWorker' /\ Phase'
      BY <1>1, <1>2 DEF WInv, OneWorker, Phase
    <2> QED BY <2>1, <2>2
  <1>4. Handled = Len(accepted) - Len(mQueue) /\ Handled' = Handled
    BY <1>0, <1>1, <1>2 DEF Handled
  <1>5. Pending'
    <2>1. Handled' \in next' - 1 .. Len(accepted')
      BY <1>0, <1>1, <1>2, <1>4 DEF WInv, Pending
    <2>2. \A k \in 1 .. Len(mQueue) : mQueue[k] = accepted[Handled - 1 + 1 + k]
      BY <1>0, <1>4 DEF WInv, Pending
    <2> QED BY <1>0, <1>2, <1>4, <2>1, <2>2 DEF Pending
  <1>6. Once' /\ Answered'
    BY <1>1, <1>2, <1>4 DEF WInv, Once, Answered
  <1>7. Done'
    BY <1>1, <1>2, <1>4 DEF WInv, Done, Lists
  <1> QED BY <1>3, <1>5, <1>6, <1>7 DEF WInv

\* One turn of the loop: the next accepted command is processed or not, and answered.
LEMMA HandleInv == ASSUME WInv, Handle PROVE WInv'
  <1> DEFINE c == todo[next]
             n == Handled + 1
  <1>0. /\ Len(accepted) \in Nat /\ Len(mQueue) \in Nat /\ Len(todo) \in Nat /\ Len(processed) \in Nat
        /\ next \in Nat \ {0}
    BY LenProperties DEF WInv, Typed
  <1>1. /\ worker = "batch" /\ next <= Len(todo) /\ next' = next + 1
        /\ ready' = ready \union {c}
        /\ UNCHANGED <<mStarted, mFinished, starting, mQueue, accepted, called, todo, worker>>
    BY DEF Handle, queueVars
  <1>2. /\ n \in 1 .. Len(accepted) /\ Handled \in Nat /\ Handled' = n
        /\ c = accepted[n] /\ c \in Command
    <2>1. Handled \in Nat /\ Handled' = n
      BY <1>0, <1>1 DEF Handled, WInv, Pending
    <2>2. n \in 1 .. Len(accepted)
      BY <1>0, <1>1, <2>1 DEF Handled
    <2>3. c = accepted[Handled - next + 1 + next]
      BY <1>0, <1>1 DEF WInv, Pending
    <2>4. c \in Command
      BY <1>0, <1>1, ElementOfSeq DEF WInv, Typed
    <2> QED BY <1>0, <2>1, <2>2, <2>3, <2>4
  <1>3. \/ /\ ~shouldStop /\ c \notin Sync
           /\ processed' = Append(processed, c)
           /\ (c \in Halt /\ shouldStop' = TRUE) \/ (c \notin Halt /\ shouldStop' = FALSE)
        \/ (shouldStop \/ c \in Sync) /\ UNCHANGED <<processed, shouldStop>>
    <2>1. CASE ~shouldStop /\ c \notin Sync
      <3>1. processed' = Append(processed, c) /\ shouldStop' = (c \in Halt)
        BY <2>1 DEF Handle
      <3>2. CASE c \in Halt
        <4>1. (c \in Halt) = TRUE
          BY <3>2
        <4>2. shouldStop' = TRUE
          BY <3>1, <4>1, Zenon
        <4>3. processed' = Append(processed, c)
          BY <3>1
        <4> QED BY <2>1, <3>2, <4>2, <4>3
      <3>3. CASE c \notin Halt
        <4>1. (c \in Halt) = FALSE
          BY <3>3
        <4>2. shouldStop' = FALSE
          BY <3>1, <4>1, Zenon
        <4> QED BY <2>1, <3>1, <3>3, <4>2
      <3> QED BY <3>2, <3>3
    <2>2. CASE shouldStop \/ c \in Sync
      BY <2>2 DEF Handle
    <2> QED BY <2>1, <2>2
  <1>n. next' \in Nat /\ next' <= Len(todo) + 1
    BY <1>0, <1>1
  <1> HIDE DEF c, n
  <1>p. PICK h \in Nat : h = n
    BY <1>2
  <1>4. Typed' /\ OneWorker' /\ Phase'
    <2>a. processed' \in Seq(Command)
      <3>1. processed \in Seq(Command) /\ Append(processed, c) \in Seq(Command)
        BY <1>2, AppendProperties DEF WInv, Typed
      <3> QED BY <1>3, <3>1, Zenon
    <2>b. shouldStop' \in BOOLEAN
      <3>1. shouldStop \in BOOLEAN
        BY DEF WInv, Typed
      <3> QED BY <1>3, <3>1, Zenon
    <2>1. processed' \in Seq(Command) /\ shouldStop' \in BOOLEAN
      BY <2>a, <2>b
    <2>2. ready' \subseteq Command
      BY <1>1, <1>2 DEF WInv, Typed
    <2>3. next' \in 1 .. Len(todo') + 1
      BY <1>0, <1>1, <1>n
    <2>4. Typed'
      BY <1>1, <2>1, <2>2, <2>3 DEF WInv, Typed
    <2> QED BY <1>1, <2>4 DEF WInv, OneWorker, Phase
  <1>5. Pending'
    <2>1. Handled' \in next' - 1 .. Len(accepted')
      BY <1>0, <1>1, <1>2 DEF n, WInv, Pending
    <2>2. \A k \in next' .. Len(todo') : todo'[k] = accepted'[Handled' - next' + 1 + k]
      <3>1. Handled' - next' = Handled - next
        BY <1>0, <1>1, <1>2 DEF n
      <3> QED BY <1>0, <1>1, <3>1 DEF WInv, Pending
    <2> QED BY <1>1, <2>1, <2>2 DEF WInv, Pending
  <1>6. Once' /\ Answered'
    <2>1. Once'
      BY <1>1 DEF WInv, Once
    <2>2. ASSUME NEW i \in 1 .. Len(accepted), accepted[i] \in ready \union {c} PROVE i <= n
      <3>1. CASE accepted[i] = c
        BY <1>2, <3>1 DEF WInv, Once
      <3>2. CASE accepted[i] \in ready
        BY <1>0, <1>1, <1>2, <3>2 DEF n, WInv, Answered
      <3> QED BY <2>2, <3>1, <3>2
    <2> QED BY <1>1, <1>2, <2>1, <2>2 DEF Answered
  <1>7. CASE /\ ~shouldStop /\ c \notin Sync
             /\ processed' = Append(processed, c)
             /\ (c \in Halt /\ shouldStop' = TRUE) \/ (c \notin Halt /\ shouldStop' = FALSE)
    <2> DEFINE m == Len(processed) + 1
    <2>0. Lists(Handled) /\ \A k \in 1 .. Len(processed) : processed[k] \notin Halt
      BY <1>7 DEF WInv, Done
    <2>1. /\ Len(processed') = m
          /\ \A k \in 1 .. Len(processed) : processed'[k] = processed[k]
          /\ processed'[m] = c
      BY <1>2, <1>7, AppendProperties DEF WInv, Typed
    <2>2. \A k \in 1 .. m : k = m \/ k \in 1 .. Len(processed)
      BY <1>0
    <2>3. \A i \in 1 .. n : i = n \/ i \in 1 .. Handled
      BY <1>2 DEF n
    <2>4. 1 .. Handled \subseteq 1 .. n /\ n \in 1 .. n /\ m \in 1 .. m
      BY <1>0, <1>2 DEF n
    <2>c. /\ \A i \in 1 .. n : i \in 1 .. Len(accepted)
          /\ \A i \in 1 .. Handled : i \in 1 .. n
      BY <1>0, <1>2 DEF n
    <2> HIDE DEF m
    <2>5. \A k \in 1 .. m : \E i \in 1 .. n : processed'[k] = accepted[i]
      <3>1. \A k \in 1 .. Len(processed) : \E i \in 1 .. Handled : processed[k] = accepted[i]
        BY <2>0 DEF Lists
      <3>2. ASSUME NEW k \in 1 .. Len(processed) PROVE \E i \in 1 .. n : processed'[k] = accepted[i]
        <4>1. PICK i \in 1 .. Handled : processed[k] = accepted[i]
          BY <3>1
        <4> QED BY <2>1, <2>4, <4>1
      <3>3. \E i \in 1 .. n : processed'[m] = accepted[i]
        BY <1>2, <2>1, <2>4
      <3> QED BY <2>2, <3>2, <3>3
    <2>6. \A k \in 1 .. m : processed'[k] \notin Sync
      BY <1>7, <2>0, <2>1, <2>2 DEF Lists
    <2>7. \A i \in 1 .. n : accepted[i] \in Sync \/ \E k \in 1 .. m : processed'[k] = accepted[i]
      <3> TAKE i \in 1 .. n
      <3>1. CASE i = n
        BY <1>2, <2>1, <2>4, <3>1
      <3>2. CASE i \in 1 .. Handled
        <4>1. 1 .. Len(processed) \subseteq 1 .. m
          BY <1>0 DEF m
        <4> QED BY <2>0, <2>1, <3>2, <4>1 DEF Lists
      <3> QED BY <2>3, <3>1, <3>2
    <2>8. ASSUME NEW j \in 1 .. m, NEW k \in 1 .. m, NEW a \in 1 .. n, NEW b \in 1 .. n,
                 processed'[j] = accepted[a], processed'[k] = accepted[b], j < k
          PROVE  a < b
      <3>0. j \in 1 .. Len(processed) /\ processed'[j] = processed[j]
        BY <1>0, <2>1, <2>2, <2>8 DEF m
      <3>1. PICK i \in 1 .. Handled : processed[j] = accepted[i]
        BY <2>0, <3>0 DEF Lists
      <3>2. a = i
        BY <2>c, <2>8, <3>0, <3>1 DEF WInv, Once
      <3>3. CASE k = m
        <4>1. b = n
          BY <1>2, <2>c, <2>1, <2>8, <3>3 DEF WInv, Once
        <4> QED BY <1>2, <3>1, <3>2, <4>1 DEF n
      <3>4. CASE k \in 1 .. Len(processed)
        <4>1. PICK g \in 1 .. Handled : processed[k] = accepted[g]
          BY <2>0, <3>4 DEF Lists
        <4>2. b = g
          BY <2>c, <2>1, <2>8, <3>4, <4>1 DEF WInv, Once
        <4> QED BY <2>0, <2>8, <3>0, <3>1, <3>2, <3>4, <4>1, <4>2 DEF Lists
      <3> QED BY <2>2, <3>3, <3>4
    <2>9. \A k \in 1 .. m - 1 : processed'[k] \notin Halt
      BY <1>0, <2>0, <2>1 DEF m
    <2>10. Lists(h)' /\ Lists(Handled)'
      BY <1>1, <1>2, <1>p, <2>1, <2>5, <2>6, <2>7, <2>8, <2>9 DEF Lists
    <2>11. CASE c \in Halt
      <3>1. shouldStop' = TRUE
        BY <1>7, <2>11
      <3>2. \E upto \in 0 .. Handled' : Lists(upto)'
        <4>1. h \in 0 .. Handled'
          BY <1>2, <1>p
        <4> QED BY <2>10, <4>1
      <3>3. \E k \in 1 .. Len(processed') : processed'[k] \in Halt
        BY <2>1, <2>4, <2>11
      <3> QED BY <1>4, <1>5, <1>6, <3>1, <3>2, <3>3 DEF WInv, Done
    <2>12. CASE c \notin Halt
      <3>1. shouldStop' = FALSE
        BY <1>7, <2>12
      <3>2. \A k \in 1 .. Len(processed') : processed'[k] \notin Halt
        BY <2>0, <2>1, <2>2, <2>12
      <3> QED BY <1>4, <1>5, <1>6, <2>10, <3>1, <3>2 DEF WInv, Done
    <2> QED BY <2>11, <2>12
  <1>8. CASE (shouldStop \/ c \in Sync) /\ UNCHANGED <<processed, shouldStop>>
    <2>1. ASSUME NEW upto, Lists(upto) PROVE Lists(upto)'
      BY <1>1, <1>8, <2>1 DEF Lists
    <2>2. CASE shouldStop
      <3>1. PICK upto \in 0 .. Handled : Lists(upto)
        BY <2>2 DEF WInv, Done
      <3>2. upto \in 0 .. n
        BY <1>2 DEF n
      <3>3. Lists(upto)'
        BY <2>1, <3>1
      <3> QED BY <1>2, <1>4, <1>5, <1>6, <1>8, <2>2, <3>2, <3>3 DEF WInv, Done
    <2>3. CASE ~shouldStop /\ c \in Sync
      <3>1. Lists(Handled)
        BY <2>3 DEF WInv, Done
      <3>2. \A i \in 1 .. n : i = n \/ i \in 1 .. Handled
        BY <1>2 DEF n
      <3>3. 1 .. Handled \subseteq 1 .. n
        BY <1>2 DEF n
      <3>4. Lists(n)
        <4>1. /\ \A k \in 1 .. Len(processed) : \E i \in 1 .. n : processed[k] = accepted[i]
              /\ \A k \in 1 .. Len(processed) : processed[k] \notin Sync
              /\ \A k \in 1 .. Len(processed) - 1 : processed[k] \notin Halt
          BY <3>1, <3>3 DEF Lists
        <4>2. \A i \in 1 .. n :
                 accepted[i] \in Sync \/ \E k \in 1 .. Len(processed) : processed[k] = accepted[i]
          BY <1>2, <2>3, <3>1, <3>2 DEF Lists
        <4>3. ASSUME NEW j \in 1 .. Len(processed), NEW k \in 1 .. Len(processed),
                     NEW a \in 1 .. n, NEW b \in 1 .. n,
                     processed[j] = accepted[a], processed[k] = accepted[b], j < k
              PROVE  a < b
          <5>1. accepted[a] \notin Sync /\ accepted[b] \notin Sync
            BY <3>1, <4>3 DEF Lists
          <5>2. a \in 1 .. Handled /\ b \in 1 .. Handled
            BY <1>2, <2>3, <3>2, <5>1
          <5> QED BY <3>1, <4>3, <5>2 DEF Lists
        <4> QED BY <4>1, <4>2, <4>3 DEF Lists
      <3>5. Lists(h)'
        <4>1. Lists(h)
          BY <1>p, <3>4 DEF Lists
        <4> QED BY <2>1, <4>1
      <3>6. Lists(Handled)'
        BY <1>2, <1>p, <3>5 DEF Lists
      <3>7. ~shouldStop' /\ \A k \in 1 .. Len(processed') : processed'[k] \notin Halt
        BY <1>8, <2>3 DEF WInv, Done
      <3> QED BY <1>4, <1>5, <1>6, <3>6, <3>7 DEF WInv, Done
    <2> QED BY <1>8, <2>2, <2>3 DEF WInv, Typed
  <1> QED BY <1>3, <1>7, <1>8

\* After the batch the worker waits for more, or leaves if it was told to stop.
LEMMA EndInv == ASSUME WInv, EndBatch PROVE WInv'
  <1>0. /\ Len(accepted) \in Nat /\ Len(mQueue) \in Nat /\ Len(todo) \in Nat /\ next \in Nat \ {0}
        /\ <<>> \in Seq(Command) /\ Len(<<>>) = 0
    BY LenProperties, EmptySeq DEF WInv, Typed
  <1>1. /\ worker = "batch" /\ next = Len(todo) + 1
        /\ UNCHANGED <<mStarted, mFinished, starting, ready, mQueue, accepted, called, shouldStop, processed>>
    BY <1>0 DEF EndBatch, queueVars, WInv, Typed
  <1>2. ~mFinished
    BY <1>1 DEF WInv, Phase
  <1>3. Handled = Len(accepted) - Len(mQueue)
    BY <1>0, <1>1 DEF Handled
  <1>4. CASE shouldStop
    <2>1. worker' = "drain" /\ todo' = todo /\ next' = next
      BY <1>4 DEF EndBatch
    <2>2. Typed' /\ OneWorker' /\ Phase'
      BY <1>1, <1>2, <1>4, <2>1 DEF WInv, Typed, OneWorker, Phase
    <2>3. Handled' = Handled
      BY <1>1, <2>1 DEF Handled
    <2>4. Pending' /\ Once' /\ Answered'
      BY <1>1, <2>1, <2>3 DEF WInv, Pending, Once, Answered
    <2>5. Done'
      BY <1>1, <1>4, <2>3 DEF WInv, Done, Lists
    <2> QED BY <2>2, <2>4, <2>5 DEF WInv
  <1>5. CASE ~shouldStop
    <2>1. worker' = "idle" /\ todo' = <<>> /\ next' = 1
      BY <1>5 DEF EndBatch
    <2>a. Len(todo') = 0
      BY <1>0, <2>1
    <2>b. next' \in 1 .. Len(todo') + 1
      BY <2>1, <2>a
    <2>2. Typed'
      BY <1>0, <1>1, <2>1, <2>b DEF WInv, Typed
    <2>3. OneWorker' /\ Phase'
      BY <1>1, <1>2, <1>5, <2>1 DEF WInv, OneWorker, Phase
    <2>4. Handled' = Handled
      <3>1. Handled' = Len(accepted) - Len(mQueue) - 0 + 1 - 1
        BY <1>1, <2>1, <2>a DEF Handled
      <3> QED BY <1>0, <1>3, <3>1
    <2>5. Pending'
      <3>1. Handled' \in next' - 1 .. Len(accepted')
        BY <1>0, <1>1, <1>3, <2>1, <2>4 DEF WInv, Pending
      <3>2. \A k \in next' .. Len(todo') : FALSE
        BY <2>1, <2>a
      <3> QED BY <1>1, <3>1, <3>2 DEF WInv, Pending
    <2>6. Once' /\ Answered'
      BY <1>1, <2>1, <2>4 DEF WInv, Once, Answered
    <2>7. Done'
      BY <1>1, <1>5, <2>4 DEF WInv, Done, Lists
    <2> QED BY <2>2, <2>3, <2>5, <2>6, <2>7 DEF WInv
  <1> QED BY <1>4, <1>5

\* A stopped worker answers the queue, of which nothing is handled any more.
LEMMA ExitInv == ASSUME WInv, Exit PROVE WInv'
  <1>0. Len(mQueue) \in Nat /\ DOMAIN mQueue = 1 .. Len(mQueue)
    BY LenProperties DEF WInv, Typed
  <1>1. /\ worker = "drain" /\ worker' = "exited" /\ mFinished' = TRUE
        /\ ready' = ready \union Elements(mQueue)
        /\ UNCHANGED <<mStarted, starting, mQueue, accepted, called, todo, next, shouldStop, processed>>
    BY DEF Exit, queueVars
  <1>2. Elements(mQueue) \subseteq Command
    BY <1>0, ElementOfSeq DEF WInv, Typed, Elements
  <1>3. Typed' /\ OneWorker' /\ Phase'
    BY <1>1, <1>2 DEF WInv, Typed, OneWorker, Phase
  <1>4. Handled' = Handled
    BY <1>1 DEF Handled
  <1>5. Pending' /\ Once' /\ Answered'
    BY <1>1, <1>4 DEF WInv, Pending, Once, Answered
  <1>6. Done'
    BY <1>1, <1>4 DEF WInv, Done, Lists
  <1> QED BY <1>3, <1>5, <1>6 DEF WInv

-----------------------------------------------------------------------------
(* The theorems.                                                              *)

\* The invariant is inductive.
THEOREM WInvHolds == WorkerSafeSpec => []WInv
  <1>1. ASSUME WInv, [WorkerNext]_threadVars PROVE WInv'
    <2>1. CASE \E s \in Starter : Start(s) \/ StartFails(s)
      BY <1>1, <2>1, ClaimInv, CreateInv, StartEndsInv DEF Start
    <2>2. CASE \E c \in Command : CallEnqueue(c) \/ Enqueue(c)
      BY <1>1, <2>2, WaitInv, EnqueueInv
    <2>3. CASE Worker
      BY <1>1, <2>3, WaitInv, TakeInv, HandleInv, EndInv, ExitInv DEF Worker
    <2>4. CASE WorkerWakesUp \/ Quiescent \/ UNCHANGED threadVars
      BY <1>1, <2>4, WaitInv DEF Quiescent
    <2> QED BY <1>1, <2>1, <2>2, <2>3, <2>4 DEF WorkerNext
  <1> QED BY InitInv, <1>1, PTL DEF WorkerSafeSpec

\* Where an accepted command was accepted.
LEMMA AcceptedAt ==
    ASSUME WInv, NEW i \in DOMAIN accepted
    PROVE  Accepted(accepted[i]) = i
  <1>1. DOMAIN accepted = 1 .. Len(accepted)
    BY LenProperties DEF WInv, Typed
  <1>2. Accepted(accepted[i]) \in DOMAIN accepted /\ accepted[Accepted(accepted[i])] = accepted[i]
    BY DEF Accepted
  <1> QED BY <1>1, <1>2 DEF WInv, Once

\* The items are processed one by one in the order in which enqueue() accepted them, none is
\* skipped, and none comes after the one that says stop, over any number of batches
\* (WorkerThread.h:150).
THEOREM InOrder == WorkerSpec => []ProcessedInOrder
  <1>1. WInv => ProcessedInOrder
    <2> SUFFICES ASSUME WInv PROVE ProcessedInOrder
      OBVIOUS
    <2>0. /\ DOMAIN accepted = 1 .. Len(accepted) /\ Len(accepted) \in Nat
          /\ DOMAIN processed = 1 .. Len(processed) /\ Len(processed) \in Nat
      BY LenProperties DEF WInv, Typed
    <2>1. PICK upto \in 0 .. Handled : Lists(upto)
      <3>1. Handled \in Nat
        BY DEF WInv, Pending, Typed
      <3> QED BY <3>1 DEF WInv, Done
    <2>2. 1 .. upto \subseteq DOMAIN accepted
      BY <2>0 DEF WInv, Pending
    <2>3. \A k \in DOMAIN processed :
              /\ Accepted(processed[k]) \in 1 .. upto
              /\ processed[k] = accepted[Accepted(processed[k])]
      <3> TAKE k \in DOMAIN processed
      <3>1. PICK i \in 1 .. upto : processed[k] = accepted[i]
        BY <2>0, <2>1 DEF Lists
      <3>2. Accepted(accepted[i]) = i
        BY <2>2, AcceptedAt
      <3> QED BY <3>1, <3>2
    <2>4. \A k \in DOMAIN processed : processed[k] \in Elements(accepted) \ Sync
      BY <2>0, <2>1, <2>2, <2>3 DEF Elements, Lists
    <2>5. \A j, k \in DOMAIN processed :
              j < k => Accepted(processed[j]) < Accepted(processed[k]) /\ processed[j] \notin Halt
      <3> SUFFICES ASSUME NEW j \in DOMAIN processed, NEW k \in DOMAIN processed, j < k
                   PROVE  Accepted(processed[j]) < Accepted(processed[k]) /\ processed[j] \notin Halt
        OBVIOUS
      <3>1. j \in 1 .. Len(processed) - 1
        BY <2>0
      <3> QED BY <2>0, <2>1, <2>3, <3>1 DEF Lists
    <2>6. \A k \in DOMAIN processed, i \in DOMAIN accepted :
              i < Accepted(processed[k]) => accepted[i] \in Elements(processed) \union Sync
      <3> SUFFICES ASSUME NEW k \in DOMAIN processed, NEW i \in DOMAIN accepted,
                          i < Accepted(processed[k])
                   PROVE  accepted[i] \in Elements(processed) \union Sync
        OBVIOUS
      <3>1. i \in 1 .. upto
        BY <2>0, <2>3
      <3> QED BY <2>0, <2>1, <3>1 DEF Elements, Lists
    <2> QED BY <2>4, <2>5, <2>6 DEF ProcessedInOrder
  <1> QED BY <1>1, WInvHolds, PTL DEF WorkerSpec

\* The worker answers what it has handled, and at its exit all that was accepted;
\* after that nothing is accepted.
Kept ==
    /\ worker = "exited" => mFinished
    /\ \A i \in 1 .. Len(accepted) :
           i <= Handled \/ worker = "exited" => accepted[i] \in ready

\* Each step keeps the answers: only handling a command and the exit add to what
\* must be answered, and both answer it.
LEMMA KeptStep == ASSUME WInv, Kept, [WorkerNext]_threadVars PROVE Kept'
  <1>0. /\ Len(accepted) \in Nat /\ Len(mQueue) \in Nat /\ Len(todo) \in Nat /\ next \in Nat
        /\ Handled \in Int /\ Handled <= Len(accepted)
    <2>1. /\ Len(accepted) \in Nat /\ Len(mQueue) \in Nat /\ Len(todo) \in Nat /\ next \in Nat
      BY LenProperties DEF WInv, Typed
    <2>2. Handled \in next - 1 .. Len(accepted)
      BY DEF WInv, Pending
    <2> QED BY <2>1, <2>2
  <1>1. ASSUME UNCHANGED <<mFinished, accepted, mQueue, todo, next, worker, ready>> PROVE Kept'
    BY <1>1 DEF Kept, Handled
  <1>2. ASSUME NEW s \in Starter, StartCreates(s) PROVE Kept'
    BY <1>2 DEF StartCreates, Kept, Handled, queueVars, WInv, OneWorker
  <1>3. ASSUME NEW c \in Command, Enqueue(c) PROVE Kept'
    <2>1. ASSUME ready' = ready \union {c} /\ UNCHANGED <<mQueue, accepted>> PROVE Kept'
      BY <1>3, <2>1 DEF Enqueue, Kept, Handled, workerVars
    <2>2. ASSUME ~mFinished, mQueue' = Append(mQueue, c), accepted' = Append(accepted, c), ready' = ready
          PROVE  Kept'
      <3>1. UNCHANGED <<mFinished, todo, next, worker>>
        BY <1>3 DEF Enqueue, workerVars
      <3>2. Len(accepted') = Len(accepted) + 1 /\ Len(mQueue') = Len(mQueue) + 1
        BY <2>2, AppendProperties DEF WInv, Typed
      <3>3. Handled' = Handled
        BY <1>0, <3>1, <3>2 DEF Handled
      <3>4. \A i \in 1 .. Len(accepted) : accepted'[i] = accepted[i]
        BY <2>2, AppendProperties DEF WInv, Typed
      <3>5. worker # "exited"
        BY <2>2 DEF Kept
      <3>6. ASSUME NEW i \in 1 .. Len(accepted'), i <= Handled' PROVE accepted'[i] \in ready'
        <4>1. i \in 1 .. Len(accepted) /\ i <= Handled
          BY <1>0, <3>2, <3>3, <3>6
        <4> QED BY <2>2, <3>4, <4>1 DEF Kept
      <3> QED BY <3>1, <3>5, <3>6 DEF Kept
    <2> QED BY <1>3, <2>1, <2>2 DEF Enqueue
  <1>4. ASSUME TakeBatch PROVE Kept'
    <2>1. /\ todo' = mQueue /\ mQueue' = <<>> /\ next' = 1 /\ worker' = "batch" /\ worker = "idle"
          /\ UNCHANGED <<mFinished, accepted, ready>>
      BY <1>4 DEF TakeBatch
    <2>2. todo = <<>> /\ next = 1
      BY <2>1 DEF WInv, Phase
    <2>3. Handled' = Handled
      BY <1>0, <2>1, <2>2 DEF Handled
    <2> QED BY <2>1, <2>3 DEF Kept
  <1>5. ASSUME Handle PROVE Kept'
    <2>1. /\ worker = "batch" /\ next <= Len(todo) /\ next' = next + 1
          /\ ready' = ready \union {todo[next]}
          /\ UNCHANGED <<mFinished, accepted, mQueue, todo, worker>>
      BY <1>5 DEF Handle, queueVars
    <2>2. Handled' = Handled + 1
      BY <1>0, <2>1 DEF Handled
    <2>3. todo[next] = accepted[Handled + 1]
      <3>1. todo[next] = accepted[Handled - next + 1 + next]
        BY <1>0, <2>1 DEF WInv, Pending
      <3>2. Handled - next + 1 + next = Handled + 1
        BY <1>0
      <3> QED BY <3>1, <3>2
    <2>4. ASSUME NEW i \in 1 .. Len(accepted), i <= Handled + 1 PROVE accepted[i] \in ready'
      <3>1. i <= Handled \/ i = Handled + 1
        BY <1>0, <2>4
      <3> QED BY <2>1, <2>3, <3>1 DEF Kept
    <2> QED BY <2>1, <2>2, <2>4 DEF Kept
  <1>6. ASSUME EndBatch PROVE Kept'
    <2>1. /\ worker = "batch" /\ worker' \in {"drain", "idle"} /\ next > Len(todo)
          /\ UNCHANGED <<mFinished, accepted, mQueue, ready>>
          /\ \/ UNCHANGED <<todo, next>>
             \/ todo' = <<>> /\ next' = 1
      BY <1>6 DEF EndBatch, queueVars
    <2>2. next = Len(todo) + 1
      <3>1. next \in 1 .. Len(todo) + 1
        BY DEF WInv, Typed
      <3> QED BY <1>0, <2>1, <3>1
    <2>3. Handled' = Handled
      <3>1. CASE UNCHANGED <<todo, next>>
        BY <2>1, <3>1 DEF Handled
      <3>2. CASE todo' = <<>> /\ next' = 1
        BY <1>0, <2>1, <2>2, <3>2 DEF Handled
      <3> QED BY <2>1, <3>1, <3>2
    <2> QED BY <2>1, <2>3 DEF Kept
  <1>7. ASSUME Exit PROVE Kept'
    <2>1. /\ worker = "drain" /\ worker' = "exited" /\ mFinished'
          /\ ready' = ready \union Elements(mQueue)
          /\ UNCHANGED <<accepted, mQueue, todo, next>>
      BY <1>7 DEF Exit, queueVars
    <2>2. next = Len(todo) + 1
      BY <2>1 DEF WInv, Phase
    <2>3. Handled = Len(accepted) - Len(mQueue)
      BY <1>0, <2>2 DEF Handled
    <2>4. ASSUME NEW i \in 1 .. Len(accepted) PROVE accepted[i] \in ready'
      <3>1. CASE i <= Handled
        BY <2>1, <3>1 DEF Kept
      <3>2. CASE i > Handled
        <4>1. PICK k \in 1 .. Len(mQueue) : i = Len(accepted) - Len(mQueue) + k
          <5>1. i - Handled \in 1 .. Len(mQueue)
            BY <1>0, <2>3, <3>2
          <5>2. i = Len(accepted) - Len(mQueue) + (i - Handled)
            BY <1>0, <2>3
          <5> QED BY <5>1, <5>2
        <4>2. accepted[i] = mQueue[k]
          BY <4>1 DEF WInv, Pending
        <4>3. k \in DOMAIN mQueue
          BY <4>1 DEF WInv, Typed
        <4> QED BY <2>1, <4>2, <4>3 DEF Elements
      <3> QED BY <1>0, <3>1, <3>2
    <2> QED BY <2>1, <2>4 DEF Kept
  <1>8. ASSUME NEW s \in Starter, StartClaims(s) \/ StartReturns(s) \/ StartFails(s) PROVE Kept'
    BY <1>1, <1>8 DEF StartClaims, StartReturns, StartFails, queueVars, workerVars
  <1>9. ASSUME NEW c \in Command, CallEnqueue(c) PROVE Kept'
    BY <1>1, <1>9 DEF CallEnqueue, workerVars
  <1>10. ASSUME Waits \/ WorkerWakesUp PROVE Kept'
    BY <1>1, <1>10 DEF Waits, WorkerWakesUp, workerVars
  <1>11. ASSUME UNCHANGED threadVars PROVE Kept'
    BY <1>1, <1>11 DEF threadVars, queueVars, workerVars
  <1> QED BY <1>2, <1>3, <1>4, <1>5, <1>6, <1>7, <1>8, <1>9, <1>10, <1>11
          DEF WorkerNext, Start, Worker, Quiescent

\* When waitQueuedItems returns, every command accepted before its own has been answered,
\* also across a stop and the exit of the worker, and each of them that is an item has been
\* processed, but for those behind an item that told the worker to stop (WorkerThread.h:97).
THEOREM SyncWaits == WorkerSpec => []SyncWaitsForEarlier
  <1>1. WInv /\ Kept => SyncWaitsForEarlier
    <2> SUFFICES ASSUME WInv, Kept, NEW s \in Sync \intersect ready, NEW i \in DOMAIN accepted,
                        s \in Elements(accepted), i < Accepted(s)
                 PROVE  /\ accepted[i] \in ready
                        /\ \/ accepted[i] \in Elements(processed) \union Sync
                           \/ \E h \in Halt \intersect Elements(processed) : Accepted(h) < i
      BY DEF SyncWaitsForEarlier
    <2>0. /\ DOMAIN accepted = 1 .. Len(accepted) /\ Len(accepted) \in Nat
          /\ DOMAIN processed = 1 .. Len(processed) /\ Len(processed) \in Nat
          /\ Handled \in Int
      BY LenProperties DEF WInv, Typed, Handled
    <2>1. PICK j \in DOMAIN accepted : s = accepted[j]
      BY DEF Elements
    <2>2. i < j
      BY <2>1, AcceptedAt
    <2>3. worker = "exited" \/ i <= Handled
      <3>1. worker # "exited" => j <= Handled
        BY <2>0, <2>1 DEF WInv, Answered
      <3> QED BY <2>0, <2>2, <3>1
    <2>4. accepted[i] \in ready
      BY <2>0, <2>3 DEF Kept
    <2>5. CASE ~shouldStop
      <3>1. Lists(Handled)
        BY <2>5 DEF WInv, Done
      <3>2. i \in 1 .. Handled
        BY <2>0, <2>3, <2>5 DEF WInv, Phase
      <3> QED BY <2>0, <2>4, <3>1, <3>2 DEF Lists, Elements
    <2>6. CASE shouldStop
      <3>1. PICK upto \in 0 .. Handled : Lists(upto)
        BY <2>6 DEF WInv, Done
      <3>2. PICK k \in 1 .. Len(processed) : processed[k] \in Halt
        BY <2>6 DEF WInv, Done
      <3>3. CASE i <= upto
        BY <2>0, <2>4, <3>1, <3>3 DEF Lists, Elements
      <3>4. CASE i > upto
        <4>1. PICK a \in 1 .. upto : processed[k] = accepted[a]
          BY <3>1 DEF Lists
        <4>2. a \in DOMAIN accepted /\ a < i
          BY <2>0, <3>4
        <4>3. Accepted(processed[k]) = a
          BY <4>1, <4>2, AcceptedAt
        <4>4. processed[k] \in Halt \intersect Elements(processed)
          BY <2>0, <3>2 DEF Elements
        <4> QED BY <2>4, <4>2, <4>3, <4>4
      <3> QED BY <2>0, <3>3, <3>4
    <2> QED BY <2>5, <2>6
  <1>2. WorkerInit => Kept
    BY DEF WorkerInit, Kept
  <1> QED BY <1>1, <1>2, KeptStep, WInvHolds, PTL DEF WorkerSpec, WorkerSafeSpec
=============================================================================
