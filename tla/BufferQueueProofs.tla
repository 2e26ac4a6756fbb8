-------------------------- MODULE BufferQueueProofs --------------------------
(* BufferQueue for every capacity and every set of threads: the growing ring  *)
(* implements a FIFO queue, and with one thread at each end nobody who waits  *)
(* is forgotten.                                                              *)
EXTENDS BufferQueue, SequenceTheorems, TLAPS

Slot(pos, i, n) == ((pos + i) % n) + 1

\* The ring: as many slots in use as there are items, from mPos on, each with an item.
RingOK ==
    /\ mBuffers \in Seq(Item \union {Nothing})
    /\ Size \in Nat \ {0}
    /\ mPos \in 0 .. Size - 1
    /\ mCount \in 0 .. Size
    /\ \A i \in 0 .. mCount - 1 : mBuffers[Slot(mPos, i, Size)] \in Item

SavedOK == mClosed \in BOOLEAN /\ saved \in [closed : BOOLEAN, items : Seq(Item)]

PushCalls == {"push", "waitPushable", "wokenPushable"}
PopCalls == {"pop", "popBefore", "waitPopable", "wokenPopable"}

\* A push has its item, and only a popLockedBefore has a deadline.
CallsOK ==
    /\ op \in [Thread -> PushCalls \union PopCalls \union {"none"}]
    /\ arg \in [Thread -> Item \union {Nothing}]
    /\ \A t \in Thread : op[t] = "push" => arg[t] \in Item
    /\ late \subseteq Thread /\ timedOut \subseteq Thread
    /\ \A t \in late \union timedOut : op[t] = "popBefore"

IInv == RingOK /\ SavedOK /\ CallsOK

\* Each thread keeps to its end, and waits where its call put it.
WaitersOK ==
    /\ \A t \in Thread : /\ op[t] \in PushCalls => t \in Pusher
                         /\ op[t] \in PopCalls => t \in Popper
    /\ \A t \in mCanPush : t \in Thread /\ op[t] \in {"push", "wokenPushable"}
    /\ \A t \in mCanPop : t \in Thread \ timedOut /\ op[t] \in {"pop", "popBefore", "wokenPopable"}

SInv == WaitersOK /\ NobodyStranded

\* The condition under which nobody is stranded: one thread at each end.
OneEach == (\A s, t \in Pusher : s = t) /\ (\A s, t \in Popper : s = t)

-----------------------------------------------------------------------------
(* The ring as a queue.                                                       *)

\* The slots from pos on, wrapped, are slots, and n consecutive ones differ.
LEMMA RingSlots ==
    ASSUME NEW n \in Nat \ {0}, NEW pos \in 0 .. n - 1
    PROVE  /\ \A i \in 0 .. n - 1 : Slot(pos, i, n) = (IF pos + i < n THEN pos + i ELSE pos + i - n) + 1
           /\ \A i \in 0 .. n - 1 : Slot(pos, i, n) \in 1 .. n
           /\ \A i, j \in 0 .. n - 1 : Slot(pos, i, n) = Slot(pos, j, n) => i = j
<1>1. \A i \in 0 .. n - 1 : Slot(pos, i, n) = (IF pos + i < n THEN pos + i ELSE pos + i - n) + 1
  <2> SUFFICES ASSUME NEW i \in 0 .. n - 1
               PROVE  (pos + i) % n = IF pos + i < n THEN pos + i ELSE pos + i - n
    BY DEF Slot
  <2>1. CASE pos + i < n
    BY <2>1
  <2>2. CASE pos + i >= n
    <3>1. PICK k \in 0 .. n - 1 : pos + i = k + n
      <4>1. pos + i - n \in 0 .. n - 1 /\ pos + i = (pos + i - n) + n
        BY <2>2
      <4> QED BY <4>1
    <3>2. (k + n) % n = k
      OBVIOUS
    <3> QED BY <3>1, <3>2
  <2> QED BY <2>1, <2>2
<1>2. \A i \in 0 .. n - 1 : Slot(pos, i, n) \in 1 .. n
  BY <1>1
<1>3. \A i, j \in 0 .. n - 1 : Slot(pos, i, n) = Slot(pos, j, n) => i = j
  BY <1>1
<1> QED BY <1>1, <1>2, <1>3

\* A function on 1 .. n is a sequence of length n.
LEMMA FunctionIsSeq ==
    ASSUME NEW S, NEW n \in Nat, NEW q \in [1 .. n -> S]
    PROVE  q \in Seq(S) /\ Len(q) = n
<1>1. q \in Seq(S)
  BY SeqDef
<1>2. Len(q) \in Nat /\ 1 .. Len(q) = 1 .. n
  BY <1>1, LenProperties
<1> QED BY <1>1, <1>2

\* Contents is the sequence of the items in the slots in use.
LEMMA ContentsOf ==
    ASSUME RingOK
    PROVE  /\ Contents \in Seq(Item) /\ Len(Contents) = mCount
           /\ \A i \in 1 .. mCount : Contents[i] = mBuffers[Slot(mPos, i - 1, Size)]
<1>1. mCount \in Nat /\ mPos \in Int /\ Size \in Nat
  BY DEF RingOK
<1>2. Contents = [i \in 1 .. mCount |-> mBuffers[Slot(mPos, i - 1, Size)]]
  <2>1. \A i \in 1 .. mCount : mPos + i - 1 = mPos + (i - 1)
    BY <1>1
  <2> QED BY <2>1 DEF Contents, Slot
<1>3. Contents \in [1 .. mCount -> Item]
  <2>1. \A i \in 1 .. mCount : i - 1 \in 0 .. mCount - 1
    BY <1>1
  <2>2. \A i \in 1 .. mCount : mBuffers[Slot(mPos, i - 1, Size)] \in Item
    BY <2>1 DEF RingOK
  <2> QED BY <1>2, <2>2
<1> QED BY <1>1, <1>2, <1>3, FunctionIsSeq

\* A sequence that is the items in the slots in use is the contents of the next state.
LEMMA ContentsNext ==
    ASSUME RingOK', NEW q \in Seq(Item), Len(q) = mCount',
           \A i \in 1 .. mCount' : q[i] = mBuffers'[Slot(mPos', i - 1, Size')]
    PROVE  Contents' = q
<1>1. (/\ Contents \in Seq(Item) /\ Len(Contents) = mCount
       /\ \A i \in 1 .. mCount : Contents[i] = mBuffers[Slot(mPos, i - 1, Size)])'
  BY ContentsOf, PTL
<1>2. /\ Contents' \in Seq(Item) /\ Len(Contents') = mCount'
      /\ \A i \in 1 .. mCount' : Contents'[i] = mBuffers'[Slot(mPos', i - 1, Size')]
  BY <1>1 DEF Slot
<1> QED BY <1>2, SeqEqual

\* grow(): twice the slots, with the items in order from the first on.
LEMMA GrownRing ==
    ASSUME RingOK, Full
    PROVE  /\ Grown \in Seq(Item \union {Nothing}) /\ Len(Grown) = 2 * Size /\ mCount = Size
           /\ \A i \in 0 .. mCount - 1 : Grown[Slot(0, i, 2 * Size)] = Contents[i + 1]
<1> DEFINE new == [i \in 1 .. Size |-> Nothing]
<1>1. Size \in Nat \ {0} /\ mCount = Size
  BY DEF RingOK, Full
<1>2. Contents \in Seq(Item \union {Nothing}) /\ Len(Contents) = Size
  BY <1>1, ContentsOf, SeqMonotonic
<1>3. new \in Seq(Item \union {Nothing}) /\ Len(new) = Size
  <2>1. new \in [1 .. Size -> Item \union {Nothing}]
    OBVIOUS
  <2> QED BY <1>1, <2>1, FunctionIsSeq
<1>4. Grown = Contents \o new
  BY DEF Grown
<1> HIDE DEF new
<1>a. /\ Contents \o new \in Seq(Item \union {Nothing})
      /\ Len(Contents \o new) = Len(Contents) + Len(new)
      /\ \A i \in 1 .. Len(Contents) + Len(new) : (Contents \o new)[i] =
              IF i <= Len(Contents) THEN Contents[i] ELSE new[i - Len(Contents)]
  BY <1>2, <1>3, ConcatProperties
<1>5. /\ Grown \in Seq(Item \union {Nothing}) /\ Len(Grown) = Size + Size
      /\ \A i \in 1 .. Size + Size : Grown[i] = IF i <= Size THEN Contents[i] ELSE new[i - Size]
  BY <1>a, <1>2, <1>3, <1>4
<1>6. ASSUME NEW i \in 0 .. mCount - 1 PROVE Grown[Slot(0, i, 2 * Size)] = Contents[i + 1]
  <2>1. 2 * Size \in Nat \ {0} /\ 0 \in 0 .. 2 * Size - 1 /\ i \in 0 .. 2 * Size - 1 /\ 0 + i < 2 * Size
    BY <1>1
  <2>2. Slot(0, i, 2 * Size) = 0 + i + 1
    BY <2>1, RingSlots
  <2>3. 0 + i + 1 = i + 1 /\ i + 1 \in 1 .. Size + Size /\ i + 1 <= Size
    BY <1>1
  <2> QED BY <1>5, <2>2, <2>3
<1> QED BY <1>1, <1>5, <1>6

\* The items of q are the ones in the c slots of bufs from pos on.
Holds(q, bufs, pos, c) ==
    /\ q \in Seq(Item) /\ Len(q) = c
    /\ \A i \in 0 .. c - 1 : bufs[Slot(pos, i, Len(bufs))] = q[i + 1]

\* A ring holds its contents.
LEMMA RingHolds == ASSUME RingOK PROVE Holds(Contents, mBuffers, mPos, mCount)
<1>1. /\ Contents \in Seq(Item) /\ Len(Contents) = mCount
      /\ \A i \in 1 .. mCount : Contents[i] = mBuffers[Slot(mPos, i - 1, Size)]
  BY ContentsOf
<1>2. ASSUME NEW i \in 0 .. mCount - 1 PROVE mBuffers[Slot(mPos, i, Size)] = Contents[i + 1]
  <2>1. mCount \in Nat
    BY DEF RingOK
  <2>2. i + 1 \in 1 .. mCount /\ (i + 1) - 1 = i
    BY <2>1
  <2> QED BY <1>1, <2>2
<1> QED BY <1>1, <1>2 DEF Holds, Size

\* A ring of the next state that holds q has the contents q.
LEMMA NextHolds ==
    ASSUME NEW q, NEW bufs \in Seq(Item \union {Nothing}), Len(bufs) \in Nat \ {0},
           NEW pos \in 0 .. Len(bufs) - 1, NEW c \in 0 .. Len(bufs), Holds(q, bufs, pos, c),
           mBuffers' = bufs, mPos' = pos, mCount' = c
    PROVE  RingOK' /\ Contents' = q
<1>0. c \in Nat
  OBVIOUS
<1>1. /\ q \in Seq(Item) /\ Len(q) = c
      /\ \A i \in 0 .. c - 1 : bufs[Slot(pos, i, Len(bufs))] = q[i + 1]
  BY DEF Holds
<1>2. ASSUME NEW i \in 0 .. c - 1 PROVE bufs[Slot(pos, i, Len(bufs))] \in Item
  <2>1. i + 1 \in 1 .. Len(q)
    BY <1>0, <1>1
  <2>2. q[i + 1] \in Item
    BY <1>1, <2>1, ElementOfSeq
  <2> QED BY <1>1, <2>2
<1>3. RingOK'
  BY <1>2 DEF RingOK, Size, Slot
<1>4. ASSUME NEW i \in 1 .. c PROVE q[i] = mBuffers'[Slot(mPos', i - 1, Size')]
  <2>1. i - 1 \in 0 .. c - 1 /\ (i - 1) + 1 = i
    BY <1>0
  <2> QED BY <1>1, <2>1 DEF Size
<1> QED BY <1>1, <1>3, <1>4, ContentsNext

\* Storing behind the last item appends it.
LEMMA StoreAppends ==
    ASSUME NEW bufs \in Seq(Item \union {Nothing}), NEW pos \in 0 .. Len(bufs) - 1,
           NEW c \in 0 .. Len(bufs) - 1, NEW q, Holds(q, bufs, pos, c), NEW m \in Item,
           mBuffers' = [bufs EXCEPT ![Slot(pos, c, Len(bufs))] = m], mPos' = pos, mCount' = c + 1
    PROVE  RingOK' /\ Contents' = Append(q, m) /\ Size' = Len(bufs)
<1> DEFINE n == Len(bufs)
           at == Slot(pos, c, n)
<1>1. n \in Nat \ {0}
  BY LenProperties
<1>2. at \in 1 .. n
  BY <1>1, RingSlots
<1>3. q \in Seq(Item) /\ Len(q) = c /\ \A i \in 0 .. c - 1 : bufs[Slot(pos, i, n)] = q[i + 1]
  BY DEF Holds
<1>4. m \in Item \union {Nothing}
  OBVIOUS
<1>5. /\ mBuffers' \in Seq(Item \union {Nothing}) /\ Len(mBuffers') = n
      /\ \A j \in 1 .. n : mBuffers'[j] = IF j = at THEN m ELSE bufs[j]
  BY <1>2, <1>4, ExceptSeq
<1>6. /\ Append(q, m) \in Seq(Item) /\ Len(Append(q, m)) = c + 1
      /\ \A i \in 1 .. c : Append(q, m)[i] = q[i]
      /\ Append(q, m)[c + 1] = m
  BY <1>3, AppendProperties
<1>7. ASSUME NEW i \in 0 .. c PROVE mBuffers'[Slot(pos, i, n)] = Append(q, m)[i + 1]
  <2>1. i \in 0 .. n - 1 /\ c \in 0 .. n - 1
    BY <1>1
  <2>2. Slot(pos, i, n) \in 1 .. n /\ (Slot(pos, i, n) = at => i = c)
    BY <1>1, <2>1, RingSlots
  <2>3. CASE i = c
    BY <1>2, <1>5, <1>6, <2>3
  <2>4. CASE i # c
    <3>1. i \in 0 .. c - 1 /\ i + 1 \in 1 .. c
      BY <1>1, <2>4
    <3>2. mBuffers'[Slot(pos, i, n)] = bufs[Slot(pos, i, n)]
      BY <1>5, <2>2, <2>4
    <3> QED BY <1>3, <1>6, <3>1, <3>2
  <2> QED BY <2>3, <2>4
<1> HIDE DEF n, at
<1>8. mPos' \in 0 .. n - 1 /\ mCount' \in 0 .. n /\ mCount' - 1 = c
  BY <1>1 DEF n
<1>9. Holds(Append(q, m), mBuffers', mPos', mCount')
  BY <1>5, <1>6, <1>7, <1>8 DEF Holds
<1>10. RingOK' /\ Contents' = Append(q, m)
  BY <1>1, <1>5, <1>8, <1>9, NextHolds
<1> QED BY <1>5, <1>10 DEF Size, n

\* tryPushLocked appends the item, and doubles a full ring.
LEMMA StoreRing ==
    ASSUME RingOK, NEW m \in Item, Store(m)
    PROVE  /\ RingOK' /\ Contents' = Append(Contents, m)
           /\ Size' = IF mCount < Size THEN Size ELSE 2 * Size
<1>1. /\ mBuffers \in Seq(Item \union {Nothing}) /\ Size \in Nat \ {0}
      /\ mPos \in 0 .. Size - 1 /\ mCount \in 0 .. Size
  BY DEF RingOK
<1>2. CASE ~Full
  <2>1. mCount \in 0 .. Size - 1 /\ mCount < Size
    BY <1>1, <1>2 DEF Full
  <2>2. Wrap(mPos + mCount) + 1 = Slot(mPos, mCount, Size)
    <3>1. Slot(mPos, mCount, Size) =
             (IF mPos + mCount < Size THEN mPos + mCount ELSE mPos + mCount - Size) + 1
      BY <1>1, <2>1, RingSlots
    <3> QED BY <1>1, <3>1 DEF Wrap
  <2>3. /\ mBuffers' = [mBuffers EXCEPT ![Slot(mPos, mCount, Size)] = m]
        /\ mPos' = mPos /\ mCount' = mCount + 1
    BY <1>2, <2>2 DEF Store
  <2>4. RingOK' /\ Contents' = Append(Contents, m) /\ Size' = Size
    BY <1>1, <2>1, <2>3, RingHolds, StoreAppends DEF Size
  <2> QED BY <2>1, <2>4
<1>3. CASE Full
  <2>1. /\ Grown \in Seq(Item \union {Nothing}) /\ Len(Grown) = 2 * Size /\ mCount = Size
        /\ \A i \in 0 .. mCount - 1 : Grown[Slot(0, i, 2 * Size)] = Contents[i + 1]
    BY <1>3, GrownRing
  <2>2. 0 \in 0 .. Len(Grown) - 1 /\ mCount \in 0 .. Len(Grown) - 1 /\ ~(mCount < Size)
    BY <1>1, <2>1
  <2>3. mCount + 1 = Slot(0, mCount, Len(Grown))
    <3>1. 0 + mCount < Len(Grown) /\ Len(Grown) \in Nat \ {0} /\ 0 + mCount + 1 = mCount + 1
      BY <1>1, <2>1
    <3> QED BY <2>2, <3>1, RingSlots
  <2>4. /\ mBuffers' = [Grown EXCEPT ![Slot(0, mCount, Len(Grown))] = m]
        /\ mPos' = 0 /\ mCount' = mCount + 1
    BY <1>3, <2>3 DEF Store
  <2>5. Holds(Contents, Grown, 0, mCount)
    BY <2>1, ContentsOf DEF Holds
  <2>6. RingOK' /\ Contents' = Append(Contents, m) /\ Size' = Len(Grown)
    BY <2>1, <2>2, <2>4, <2>5, StoreAppends
  <2> QED BY <2>1, <2>2, <2>6
<1> QED BY <1>2, <1>3

\* tryPopLocked hands out the oldest item and clears its slot.
LEMMA PopRing ==
    ASSUME RingOK, NEW m, NEW r, TryPopLocked(m, r), mCount # 0
    PROVE  /\ RingOK' /\ Size' = Size
           /\ Contents # <<>> /\ m = Head(Contents) /\ Contents' = Tail(Contents)
<1> DEFINE n == Size
<1>1. /\ mBuffers \in Seq(Item \union {Nothing}) /\ n \in Nat \ {0}
      /\ mPos \in 0 .. n - 1 /\ mCount \in 1 .. n
  BY DEF RingOK
<1>2. /\ m = mBuffers[mPos + 1] /\ mBuffers' = [mBuffers EXCEPT ![mPos + 1] = Nothing]
      /\ mPos' = Wrap(mPos + 1) /\ mCount' = mCount - 1
  BY DEF TryPopLocked
<1>3. mPos + 1 \in 1 .. n
  BY <1>1
<1>4. /\ mBuffers' \in Seq(Item \union {Nothing}) /\ Len(mBuffers') = n
      /\ \A j \in 1 .. n : mBuffers'[j] = IF j = mPos + 1 THEN Nothing ELSE mBuffers[j]
  <2>1. Nothing \in Item \union {Nothing} /\ n = Len(mBuffers)
    BY DEF Size
  <2> HIDE DEF n
  <2> QED BY <1>1, <1>2, <1>3, <2>1, ExceptSeq
<1> HIDE DEF n
<1>5. mPos' = (IF mPos + 1 < n THEN mPos + 1 ELSE 0) /\ mPos' \in 0 .. n - 1
  BY <1>1, <1>2 DEF Wrap, n
<1>6. /\ Contents \in Seq(Item) /\ Len(Contents) = mCount
      /\ \A i \in 0 .. mCount - 1 : mBuffers[Slot(mPos, i, n)] = Contents[i + 1]
  BY RingHolds DEF Holds, Size, n
<1>7. Contents # <<>>
  BY <1>1, <1>6, EmptySeq
<1>8. m = Head(Contents)
  <2>1. 0 \in 0 .. n - 1 /\ 0 \in 0 .. mCount - 1 /\ mPos + 0 < n /\ mPos + 0 + 1 = mPos + 1
    BY <1>1
  <2>2. Slot(mPos, 0, n) = mPos + 1
    BY <1>1, <2>1, RingSlots
  <2>3. m = Contents[1]
    BY <1>2, <1>6, <2>1, <2>2
  <2> QED BY <1>6, <1>7, <2>3
<1>9. /\ Tail(Contents) \in Seq(Item) /\ Len(Tail(Contents)) = mCount - 1
      /\ \A i \in 1 .. mCount - 1 : Tail(Contents)[i] = Contents[i + 1]
  BY <1>6, <1>7, HeadTailProperties
<1>10. ASSUME NEW i \in 0 .. mCount' - 1
       PROVE  mBuffers'[Slot(mPos', i, n)] = Tail(Contents)[i + 1]
  <2>1. /\ i \in 0 .. n - 1 /\ i + 1 \in 0 .. n - 1 /\ i + 1 \in 0 .. mCount - 1
        /\ i + 1 \in 1 .. mCount - 1 /\ 0 \in 0 .. n - 1 /\ i + 1 # 0
    BY <1>1, <1>2
  <2>2. Slot(mPos', i, n) = Slot(mPos, i + 1, n)
    <3>1. Slot(mPos', i, n) = (IF mPos' + i < n THEN mPos' + i ELSE mPos' + i - n) + 1
      BY <1>1, <1>5, <2>1, RingSlots
    <3>2. Slot(mPos, i + 1, n) =
             (IF mPos + (i + 1) < n THEN mPos + (i + 1) ELSE mPos + (i + 1) - n) + 1
      BY <1>1, <2>1, RingSlots
    <3> QED BY <1>1, <1>5, <2>1, <3>1, <3>2
  <2>3. Slot(mPos, 0, n) = mPos + 1
    <3>1. mPos + 0 < n /\ mPos + 0 + 1 = mPos + 1
      BY <1>1
    <3> QED BY <1>1, <2>1, <3>1, RingSlots
  <2>4. Slot(mPos, i + 1, n) \in 1 .. n /\ Slot(mPos, i + 1, n) # mPos + 1
    BY <1>1, <2>1, <2>3, RingSlots
  <2>5. mBuffers'[Slot(mPos', i, n)] = mBuffers[Slot(mPos, i + 1, n)]
    BY <1>4, <2>2, <2>4
  <2> QED BY <1>6, <1>9, <2>1, <2>5
<1>11. Holds(Tail(Contents), mBuffers', mPos', mCount')
  BY <1>2, <1>4, <1>9, <1>10 DEF Holds
<1>12. RingOK' /\ Contents' = Tail(Contents)
  <2>1. mCount' \in 0 .. n
    BY <1>1, <1>2
  <2> QED BY <1>1, <1>4, <1>5, <1>11, <2>1, NextHolds
<1> QED BY <1>4, <1>7, <1>8, <1>12 DEF Size, n

\* A load puts the saved items at the start of a ring that is long enough.
LEMMA LoadRing ==
    ASSUME RingOK, SavedOK, Load, ~saved.closed
    PROVE  /\ RingOK' /\ Contents' = saved.items
           /\ Size' = IF Len(saved.items) > Size THEN Len(saved.items) ELSE Size
<1> DEFINE q == saved.items
           n == Len(q)
           k == IF Size < n THEN n ELSE Size
<1>1. q \in Seq(Item) /\ n \in Nat /\ \A i \in 1 .. n : q[i] \in Item
  <2>1. q \in Seq(Item)
    BY DEF SavedOK
  <2> HIDE DEF q
  <2> QED BY <2>1, LenProperties, ElementOfSeq
<1>2. mBuffers \in Seq(Item \union {Nothing}) /\ Size \in Nat \ {0}
  BY DEF RingOK
<1>3. \A i \in 1 .. Size : mBuffers[i] \in Item \union {Nothing}
  BY <1>2, ElementOfSeq DEF Size
<1>4. /\ mCount' = n /\ mPos' = 0
      /\ mBuffers' = [i \in 1 .. k |-> IF i <= n THEN q[i] ELSE mBuffers[i]]
  BY DEF Load
<1> HIDE DEF q
<1>5. k \in Nat \ {0} /\ n <= k /\ (n < k => k = Size)
  BY <1>1, <1>2
<1> HIDE DEF n, k
<1>6. ASSUME NEW i \in 1 .. k
      PROVE  (IF i <= n THEN q[i] ELSE mBuffers[i]) \in Item \union {Nothing}
  <2>1. CASE i <= n
    <3>1. i \in 1 .. n
      BY <1>1, <1>5, <2>1
    <3> QED BY <1>1, <2>1, <3>1
  <2>2. CASE ~(i <= n)
    <3>1. i \in 1 .. Size
      BY <1>1, <1>2, <1>5, <2>2
    <3> QED BY <1>3, <2>2, <3>1
  <2> QED BY <2>1, <2>2
<1>7. mBuffers' \in [1 .. k -> Item \union {Nothing}]
  BY <1>4, <1>6
<1>8. mBuffers' \in Seq(Item \union {Nothing}) /\ Len(mBuffers') = k
  BY <1>5, <1>7, FunctionIsSeq
<1>9. ASSUME NEW i \in 0 .. n - 1 PROVE mBuffers'[Slot(0, i, k)] = q[i + 1]
  <2>1. /\ i \in 0 .. k - 1 /\ 0 + i < k /\ 0 \in 0 .. k - 1 /\ 0 + i + 1 = i + 1
        /\ i + 1 \in 1 .. k /\ i + 1 <= n
    BY <1>1, <1>5
  <2>2. Slot(0, i, k) = i + 1
    BY <1>5, <2>1, RingSlots
  <2> QED BY <1>4, <2>1, <2>2
<1>10. Holds(q, mBuffers', mPos', mCount')
  BY <1>1, <1>4, <1>8, <1>9 DEF Holds, n
<1>11. mPos' \in 0 .. k - 1 /\ mCount' \in 0 .. k
  BY <1>1, <1>4, <1>5
<1>12. RingOK' /\ Contents' = q
  BY <1>5, <1>8, <1>10, <1>11, NextHolds
<1>13. k = IF n > Size THEN n ELSE Size
  BY <1>1, <1>2 DEF k
<1> QED BY <1>8, <1>12, <1>13 DEF Size, n, q

\* A ring whose slots, place and count stay has its contents.
LEMMA SameRing ==
    ASSUME UNCHANGED ring
    PROVE  (RingOK => RingOK') /\ Contents' = Contents /\ Size' = Size
BY DEF ring, RingOK, Contents, Size, Slot

-----------------------------------------------------------------------------
(* The operations, as steps of the queue.                                     *)

\* What a push does to the queue: it appends the item, or says why not.
LEMMA PushRefines ==
    ASSUME RingOK, NEW m \in Item, NEW r \in {"Ok", "Error", "TryAgain"}, TryPushLocked(m, r),
           NEW o \in {"push", "tryPush"}, ret' = Result(o, r, Nothing),
           o = "push" => mCount # Size \/ mSnapshotMode \/ mClosed
    PROVE  RingOK' /\ UNCHANGED modes /\ Abstract!Next
<1>1. /\ Contents \in Seq(Item) /\ Len(Contents) = mCount
      /\ Size \in Nat \ {0} /\ mCount \in 0 .. Size
  BY ContentsOf DEF RingOK
<1>2. UNCHANGED modes
  BY DEF TryPushLocked, Store
<1>3. UNCHANGED Abstract!flags
  BY <1>2 DEF modes, Abstract!flags
<1>4. CASE r = "Ok"
  <2>1. ~mClosed /\ (~Full \/ mSnapshotMode) /\ Store(m)
    BY <1>4 DEF TryPushLocked
  <2>2. /\ RingOK' /\ Contents' = Append(Contents, m)
        /\ Size' = IF mCount < Size THEN Size ELSE 2 * Size
    BY <2>1, StoreRing
  <2>3. Len(Contents) < Size \/ mSnapshotMode
    BY <1>1, <2>1 DEF Full
  <2>4. Abstract!Push(o, m)
    BY <1>1, <1>3, <1>4, <2>1, <2>2, <2>3 DEF Abstract!Push, Abstract!Result, Result
  <2> QED BY <1>2, <2>2, <2>4 DEF Abstract!Next, Abstract!PushOp
<1>5. CASE r # "Ok"
  <2>1. UNCHANGED ring
    BY <1>5 DEF TryPushLocked
  <2>2. RingOK' /\ Contents' = Contents /\ Size' = Size
    BY <2>1, SameRing
  <2>3. \/ r = "Error" /\ mClosed
        \/ o = "tryPush" /\ r = "TryAgain" /\ ~mClosed /\ ~mSnapshotMode /\ Len(Contents) >= Size
    BY <1>1, <1>5 DEF TryPushLocked, Full
  <2>4. Abstract!Fail(o, r)
    BY <1>3, <2>2, <2>3 DEF Abstract!Fail, Abstract!PushOp, Abstract!Result, Result
  <2> QED BY <1>2, <1>5, <2>2, <2>4 DEF Abstract!Next, Abstract!PushOp
<1> QED BY <1>4, <1>5

\* What a pop does to the queue: it takes the head, or says why not.
LEMMA PopRefines ==
    ASSUME RingOK, NEW m, NEW r \in {"Ok", "Error", "TryAgain"}, TryPopLocked(m, r),
           NEW o \in {"pop", "tryPop", "popBefore"}, ret' = Result(o, r, m),
           o # "tryPop" => mCount # 0 \/ mSnapshotMode \/ mClosed
    PROVE  RingOK' /\ UNCHANGED modes /\ Abstract!Next
<1>1. Contents \in Seq(Item) /\ Len(Contents) = mCount /\ mCount \in Nat
  BY ContentsOf DEF RingOK
<1>2. UNCHANGED modes
  BY DEF TryPopLocked
<1>3. UNCHANGED Abstract!flags
  BY <1>2 DEF modes, Abstract!flags
<1>4. CASE mCount # 0
  <2>1. /\ RingOK' /\ Size' = Size
        /\ Contents # <<>> /\ m = Head(Contents) /\ Contents' = Tail(Contents)
    BY <1>4, PopRing
  <2>2. r = "Ok"
    BY <1>4 DEF TryPopLocked
  <2>3. Abstract!Pop(o)
    BY <1>3, <2>1, <2>2 DEF Abstract!Pop, Abstract!Result, Result
  <2> QED BY <1>2, <2>1, <2>3 DEF Abstract!Next, Abstract!PopOp
<1>5. CASE mCount = 0
  <2>1. UNCHANGED ring /\ m = Nothing /\ r = IF mClosed \/ mSnapshotMode THEN "Error" ELSE "TryAgain"
    BY <1>5 DEF TryPopLocked
  <2>2. RingOK' /\ Contents' = Contents /\ Size' = Size
    BY <2>1, SameRing
  <2>3. Contents = <<>>
    BY <1>1, <1>5, EmptySeq
  <2>4. \/ r = "Error" /\ (mClosed \/ mSnapshotMode)
        \/ o = "tryPop" /\ r = "TryAgain" /\ ~mClosed /\ ~mSnapshotMode
    BY <1>5, <2>1
  <2>5. Abstract!Fail(o, r)
    BY <1>3, <2>1, <2>2, <2>3, <2>4 DEF Abstract!Fail, Abstract!PopOp, Abstract!Result, Result
  <2>6. r \in {"Error", "TryAgain", "Timeout"}
    BY <2>4
  <2> QED BY <1>2, <2>2, <2>5, <2>6 DEF Abstract!Next, Abstract!PopOp
<1> QED BY <1>4, <1>5

\* A thread returns from its call.
LEMMA ReturnCalls ==
    ASSUME CallsOK, NEW t \in Thread, NEW r, NEW m, Return(t, r, m)
    PROVE  CallsOK'
BY DEF CallsOK, Return

\* An operation that looks at the queue without touching it.
LEMMA Noticed ==
    ASSUME IInv, UNCHANGED <<ring, modes>>, CallsOK',
           NEW o \in {"waitPushable", "waitPopable", "wokenPushable", "wokenPopable"},
           NEW r \in {"Ok", "TryAgain"}, ret' = Result(o, r, Nothing)
    PROVE  IInv' /\ Abstract!Next
<1>1. RingOK' /\ Contents' = Contents /\ Size' = Size
  BY SameRing DEF IInv
<1>2. Abstract!Notice(o, r)
  BY <1>1 DEF Abstract!Notice, Abstract!flags, modes, Result, Abstract!Result
<1> QED BY <1>1, <1>2 DEF IInv, SavedOK, modes, Abstract!Next, Abstract!WaitOp

\* A step that leaves the ring, the modes and the last result alone is not seen.
LEMMA Unseen ==
    ASSUME IInv, UNCHANGED <<ring, modes, ret>>, CallsOK'
    PROVE  IInv' /\ UNCHANGED Abstract!vars
<1>1. RingOK' /\ Contents' = Contents /\ Size' = Size
  BY SameRing DEF IInv
<1> QED BY <1>1 DEF IInv, SavedOK, modes, Abstract!vars

\* The steps of one thread inside its call.
LEMMA ProceedRefines ==
    ASSUME IInv, NEW t \in Thread, Proceed(t)
    PROVE  IInv' /\ [Abstract!Next]_(Abstract!vars)
<1>1. RingOK /\ SavedOK /\ CallsOK
  BY DEF IInv
<1>2. CASE PushWaits(t)
  <2>1. UNCHANGED <<ring, modes, ret, op, arg, late, timedOut>>
    BY <1>2 DEF PushWaits
  <2>2. CallsOK'
    BY <1>1, <2>1 DEF CallsOK
  <2> QED BY <2>1, <2>2, Unseen
<1>3. CASE Push(t)
  <2>1. PICK r \in {"Ok", "Error", "TryAgain"} : TryPushLocked(arg[t], r) /\ Return(t, r, Nothing)
    BY <1>3 DEF Push
  <2>2. op[t] = "push" /\ arg[t] \in Item /\ (mCount # Size \/ mSnapshotMode \/ mClosed)
    BY <1>1, <1>3 DEF Push, Runs, CallsOK
  <2>3. ret' = Result("push", r, Nothing) /\ CallsOK'
    BY <1>1, <2>1, <2>2, ReturnCalls DEF Return
  <2>4. RingOK' /\ UNCHANGED modes /\ Abstract!Next
    BY <1>1, <2>1, <2>2, <2>3, PushRefines
  <2> QED BY <1>1, <2>3, <2>4 DEF IInv, SavedOK, modes
<1>4. ASSUME NEW o \in {"pop", "popBefore"}, PopWaits(t, o)
      PROVE  IInv' /\ [Abstract!Next]_(Abstract!vars)
  <2>1. UNCHANGED <<ring, modes, ret, op, arg, late>>
    BY <1>4 DEF PopWaits
  <2>2. timedOut' = timedOut \/ (t \in late /\ timedOut' = timedOut \union {t})
    BY <1>4 DEF PopWaits
  <2>3. CallsOK'
    BY <1>1, <2>1, <2>2 DEF CallsOK
  <2> QED BY <2>1, <2>3, Unseen
<1>5. ASSUME NEW o \in {"pop", "popBefore"}, Pop(t, o)
      PROVE  IInv' /\ [Abstract!Next]_(Abstract!vars)
  <2>1. PICK m \in Item \union {Nothing}, r \in {"Ok", "Error", "TryAgain"} :
            TryPopLocked(m, r) /\ Return(t, r, m)
    BY <1>5 DEF Pop
  <2>2. op[t] = o /\ (mCount # 0 \/ mSnapshotMode \/ mClosed)
    BY <1>5 DEF Pop, Runs
  <2>3. ret' = Result(o, r, m) /\ CallsOK'
    BY <1>1, <2>1, <2>2, ReturnCalls DEF Return
  <2>4. RingOK' /\ UNCHANGED modes /\ Abstract!Next
    BY <1>1, <2>1, <2>2, <2>3, PopRefines
  <2> QED BY <1>1, <2>3, <2>4 DEF IInv, SavedOK, modes
<1>6. CASE PopExpires(t)
  <2>1. op[t] = "popBefore" /\ Return(t, "Timeout", Nothing) /\ UNCHANGED <<ring, modes>>
    BY <1>1, <1>6 DEF PopExpires, CallsOK
  <2>2. ret' = Result("popBefore", "Timeout", Nothing) /\ CallsOK'
    BY <1>1, <2>1, ReturnCalls DEF Return
  <2>3. RingOK' /\ Contents' = Contents /\ Size' = Size
    BY <1>1, <2>1, SameRing
  <2>4. Abstract!Fail("popBefore", "Timeout")
    BY <2>1, <2>2, <2>3 DEF Abstract!Fail, Abstract!PopOp, Abstract!Result, Result,
                            Abstract!flags, modes
  <2> QED BY <1>1, <2>1, <2>2, <2>3, <2>4
          DEF IInv, SavedOK, modes, Abstract!Next, Abstract!PopOp
<1>7. ASSUME NEW o \in {"waitPushable", "waitPopable"}, NEW can \in BOOLEAN, op[t] = o,
             UNCHANGED <<ring, modes>>,
             \/ can /\ Return(t, "Ok", Nothing)
             \/ /\ ~can
                /\ op' = [op EXCEPT ![t] = IF o = "waitPushable" THEN "wokenPushable" ELSE "wokenPopable"]
                /\ UNCHANGED <<arg, late, timedOut, ret>>
      PROVE  IInv' /\ [Abstract!Next]_(Abstract!vars)
  <2>1. CASE can
    <3>1. ret' = Result(o, "Ok", Nothing) /\ CallsOK'
      BY <1>1, <1>7, <2>1, ReturnCalls DEF Return
    <3> QED BY <1>7, <3>1, Noticed
  <2>2. CASE ~can
    <3>1. CallsOK'
      BY <1>1, <1>7, <2>2 DEF CallsOK, PushCalls, PopCalls
    <3> QED BY <1>7, <2>2, <3>1, Unseen
  <2> QED BY <2>1, <2>2
<1>8. CASE WaitUntil(t, "waitPushable", CanPush, mCanPush, mCanPop)
  <2>1. CanPush \in BOOLEAN
    BY DEF CanPush
  <2> QED BY <1>7, <1>8, <2>1 DEF WaitUntil, Runs
<1>9. CASE WaitUntil(t, "waitPopable", CanPop, mCanPop, mCanPush)
  <2>1. CanPop \in BOOLEAN
    BY DEF CanPop
  <2> QED BY <1>7, <1>9, <2>1 DEF WaitUntil, Runs
<1>10. ASSUME NEW o \in {"wokenPushable", "wokenPopable"}, NEW can, Woken(t, o, can)
       PROVE  IInv' /\ [Abstract!Next]_(Abstract!vars)
  <2>1. PICK r \in {"Ok", "TryAgain"} : Return(t, r, Nothing)
    BY <1>10 DEF Woken
  <2>2. op[t] = o /\ UNCHANGED <<ring, modes>>
    BY <1>10 DEF Woken, Runs
  <2>3. ret' = Result(o, r, Nothing) /\ CallsOK'
    BY <1>1, <2>1, <2>2, ReturnCalls DEF Return
  <2> QED BY <2>2, <2>3, Noticed
<1> QED BY <1>2, <1>3, <1>4, <1>5, <1>6, <1>8, <1>9, <1>10 DEF Proceed

\* Every step of the ring is a step of the FIFO queue, or changes nothing a caller can see.
LEMMA StepRefines ==
    ASSUME IInv, [Next]_vars
    PROVE  IInv' /\ [Abstract!Next]_(Abstract!vars)
<1>1. RingOK /\ SavedOK /\ CallsOK
  BY DEF IInv
<1>2. CASE Invoke
  <2>1. UNCHANGED <<ring, modes, ret>>
    BY <1>2 DEF Invoke, Call
  <2>2. CallsOK'
    <3>1. PICK t \in Thread, o \in {"push", "waitPushable", "pop", "popBefore", "waitPopable"},
               m \in Item \union {Nothing} : Call(t, o, m) /\ (o = "push" => m \in Item)
      BY <1>2, CallsAssumption DEF Invoke, Thread
    <3> QED BY <1>1, <3>1 DEF CallsOK, Call, waits, PushCalls, PopCalls
  <2> QED BY <2>1, <2>2, Unseen
<1>3. ASSUME NEW t \in Thread, DeadlinePasses(t) \/ Timeout(t) \/ SpuriousWakeup(t)
      PROVE  IInv' /\ [Abstract!Next]_(Abstract!vars)
  <2>1. UNCHANGED <<ring, modes, ret>>
    BY <1>3 DEF DeadlinePasses, Timeout, SpuriousWakeup
  <2>2. CallsOK'
    BY <1>1, <1>3 DEF CallsOK, DeadlinePasses, Timeout, SpuriousWakeup
  <2> QED BY <2>1, <2>2, Unseen
<1>4. ASSUME NEW m \in Item, TryPush(m) PROVE IInv' /\ [Abstract!Next]_(Abstract!vars)
  <2>1. PICK r \in {"Ok", "Error", "TryAgain"} :
            TryPushLocked(m, r) /\ Immediate("tryPush", r, Nothing)
    BY <1>4 DEF TryPush
  <2>2. RingOK' /\ UNCHANGED modes /\ Abstract!Next
    BY <1>1, <2>1, PushRefines DEF Immediate
  <2>3. CallsOK'
    BY <1>1, <2>1 DEF CallsOK, Immediate
  <2> QED BY <1>1, <2>2, <2>3 DEF IInv, SavedOK, modes
<1>5. CASE TryPop
  <2>1. PICK m \in Item \union {Nothing}, r \in {"Ok", "Error", "TryAgain"} :
            TryPopLocked(m, r) /\ Immediate("tryPop", r, m)
    BY <1>5 DEF TryPop
  <2>2. RingOK' /\ UNCHANGED modes /\ Abstract!Next
    BY <1>1, <2>1, PopRefines DEF Immediate
  <2>3. CallsOK'
    BY <1>1, <2>1 DEF CallsOK, Immediate
  <2> QED BY <1>1, <2>2, <2>3 DEF IInv, SavedOK, modes
<1>6. CASE Close
  <2>1. RingOK' /\ Contents' = Contents /\ Size' = Size
    BY <1>1, <1>6, SameRing DEF Close
  <2>2. CallsOK' /\ SavedOK'
    BY <1>1, <1>6 DEF CallsOK, SavedOK, Close
  <2>3. Abstract!Close
    BY <1>6, <2>1 DEF Close, Abstract!Close
  <2> QED BY <2>1, <2>2, <2>3 DEF IInv, Abstract!Next
<1>7. ASSUME NEW on \in BOOLEAN, SetSnapshotMode(on)
      PROVE  IInv' /\ [Abstract!Next]_(Abstract!vars)
  <2>1. RingOK' /\ Contents' = Contents /\ Size' = Size
    BY <1>1, <1>7, SameRing DEF SetSnapshotMode
  <2>2. CallsOK' /\ SavedOK'
    BY <1>1, <1>7 DEF CallsOK, SavedOK, SetSnapshotMode
  <2>3. Abstract!SetSnapshotMode(on)
    BY <1>7, <2>1 DEF SetSnapshotMode, Abstract!SetSnapshotMode
  <2> QED BY <2>1, <2>2, <2>3 DEF IInv, Abstract!Next
<1>8. CASE Save
  <2>1. RingOK' /\ Contents' = Contents /\ Size' = Size
    BY <1>1, <1>8, SameRing DEF Save
  <2>2. CallsOK'
    BY <1>1, <1>8 DEF CallsOK, Save, waits
  <2>3. Abstract!Save
    BY <1>8, <2>1 DEF Save, Abstract!Save
  <2>4. SavedOK'
    <3>1. Contents \in Seq(Item) /\ <<>> \in Seq(Item)
      BY <1>1, ContentsOf, EmptySeq
    <3>2. mClosed \in BOOLEAN
      BY <1>1 DEF SavedOK
    <3> QED BY <1>8, <3>1, <3>2 DEF SavedOK, Save
  <2> QED BY <2>1, <2>2, <2>3, <2>4 DEF IInv, Abstract!Next
<1>9. CASE Load
  <2>1. UNCHANGED <<mSnapshotMode, saved, ret>> /\ mClosed' = saved.closed
    BY <1>9 DEF Load
  <2>2. CallsOK' /\ SavedOK'
    BY <1>1, <1>9 DEF CallsOK, SavedOK, Load, waits
  <2>3. Len(Contents) \in 0 .. Size /\ Size \in Nat
    BY <1>1, ContentsOf DEF RingOK
  <2>4. CASE saved.closed
    <3>1. RingOK' /\ Contents' = Contents /\ Size' = Size
      BY <1>1, <1>9, <2>4, SameRing DEF Load
    <3>2. Abstract!Load
      BY <2>1, <2>3, <2>4, <3>1 DEF Abstract!Load
    <3> QED BY <2>2, <3>1, <3>2 DEF IInv, Abstract!Next
  <2>5. CASE ~saved.closed
    <3>1. /\ RingOK' /\ Contents' = saved.items
          /\ Size' = IF Len(saved.items) > Size THEN Len(saved.items) ELSE Size
      BY <1>1, <1>9, <2>5, LoadRing
    <3>2. Abstract!Load
      BY <2>1, <2>5, <3>1 DEF Abstract!Load
    <3> QED BY <2>2, <3>1, <3>2 DEF IInv, Abstract!Next
  <2> QED BY <2>4, <2>5
<1>10. CASE UNCHANGED vars
  <2>1. UNCHANGED <<ring, modes, ret>>
    BY <1>10 DEF vars
  <2>2. CallsOK'
    BY <1>1, <1>10 DEF CallsOK, vars, waits
  <2> QED BY <2>1, <2>2, Unseen
<1> QED BY <1>2, <1>3, <1>4, <1>5, <1>6, <1>7, <1>8, <1>9, <1>10, ProceedRefines DEF Next

\* The empty ring is the empty queue.
LEMMA InitRefines == Init => IInv /\ Abstract!Init
<1> SUFFICES ASSUME Init PROVE IInv /\ Abstract!Init
  OBVIOUS
<1>1. mBuffers \in Seq(Item \union {Nothing}) /\ Size = Capacity
  <2>1. mBuffers \in [1 .. Capacity -> Item \union {Nothing}] /\ Capacity \in Nat
    BY CapacityAssumption DEF Init
  <2> QED BY <2>1, FunctionIsSeq DEF Size
<1>2. RingOK
  BY <1>1, CapacityAssumption DEF Init, RingOK
<1>3. SavedOK /\ CallsOK
  BY EmptySeq DEF Init, SavedOK, CallsOK
<1>4. Contents = <<>>
  BY <1>2, ContentsOf, EmptySeq DEF Init
<1>5. Abstract!Init
  BY <1>1, <1>4, CapacityAssumption DEF Init, Abstract!Init, Result, Abstract!Result
<1> QED BY <1>2, <1>3, <1>5 DEF IInv

\* Whatever the threads and the initial capacity, growing, wrapping, saving and loading
\* neither lose, repeat nor reorder an item (BufferQueue.h:114, 219).
THEOREM QueueImplemented == Spec => ImplementsQueue
BY InitRefines, StepRefines, PTL DEF Spec, ImplementsQueue, Abstract!Spec

-----------------------------------------------------------------------------
(* Nobody is stranded.                                                        *)

\* A signal reaches the one pusher, or the one popper, that can wait.
LEMMA SignalReaches ==
    ASSUME OneEach, WaitersOK
    PROVE  /\ Signal(mCanPush) => mCanPush' = {}
           /\ Signal(mCanPop) => mCanPop' = {}
<1>1. \A s, t \in mCanPush : s = t
  BY DEF OneEach, WaitersOK, PushCalls
<1>2. \A s, t \in mCanPop : s = t
  BY DEF OneEach, WaitersOK, PopCalls
<1>3. ASSUME Signal(mCanPush) PROVE mCanPush' = {}
  <2>1. CASE mCanPush = {}
    BY <1>3, <2>1 DEF Signal
  <2>2. CASE mCanPush # {}
    <3>1. PICK t \in mCanPush : mCanPush' = mCanPush \ {t}
      BY <1>3, <2>2 DEF Signal
    <3> QED BY <1>1, <3>1
  <2> QED BY <2>1, <2>2
<1>4. ASSUME Signal(mCanPop) PROVE mCanPop' = {}
  <2>1. CASE mCanPop = {}
    BY <1>4, <2>1 DEF Signal
  <2>2. CASE mCanPop # {}
    <3>1. PICK t \in mCanPop : mCanPop' = mCanPop \ {t}
      BY <1>4, <2>2 DEF Signal
    <3> QED BY <1>2, <3>1
  <2> QED BY <2>1, <2>2
<1> QED BY <1>3, <1>4

\* A push, or an attempt of one, leaves no waiter that it should have woken.
LEMMA PushWakes ==
    ASSUME OneEach, IInv, SInv, NEW m, NEW r, TryPushLocked(m, r)
    PROVE  /\ mCanPush' \subseteq mCanPush /\ mCanPop' \subseteq mCanPop
           /\ UNCHANGED <<mCount, Size, mClosed, mSnapshotMode>>
              \/ /\ \A t \in mCanPop' : op[t] \notin {"pop", "popBefore"}
                 /\ \A t \in mCanPush' : op[t] # "push"
<1>1. CASE r # "Ok"
  <2>1. UNCHANGED <<ring, modes, mCanPush, mCanPop>>
    BY <1>1 DEF TryPushLocked
  <2> QED BY <2>1, SameRing DEF ring, modes
<1>2. CASE r = "Ok"
  <2>1. /\ ~Full \/ mSnapshotMode
        /\ IF mCount = 0 THEN Signal(mCanPop) ELSE mCanPop' = mCanPop
        /\ mCanPush' = mCanPush
    BY <1>2 DEF TryPushLocked, Store
  <2>2. \A t \in mCanPush : op[t] # "push"
    BY <2>1 DEF SInv, NobodyStranded, Full, IInv, RingOK
  <2>3. CASE mCount = 0
    <3>1. mCanPop' = {}
      BY <2>1, <2>3, SignalReaches DEF SInv
    <3> QED BY <2>1, <2>2, <3>1
  <2>4. CASE mCount # 0
    <3>1. \A t \in mCanPop : op[t] \notin {"pop", "popBefore"}
      BY <2>4 DEF SInv, NobodyStranded
    <3> QED BY <2>1, <2>2, <2>4, <3>1
  <2> QED BY <2>3, <2>4
<1> QED BY <1>1, <1>2

\* A pop, or an attempt of one, leaves no waiter that it should have woken.
LEMMA PopWakes ==
    ASSUME OneEach, IInv, SInv, NEW m, NEW r, TryPopLocked(m, r)
    PROVE  /\ mCanPush' \subseteq mCanPush /\ mCanPop' \subseteq mCanPop
           /\ UNCHANGED <<mCount, Size, mClosed, mSnapshotMode>>
              \/ /\ \A t \in mCanPop' : op[t] \notin {"pop", "popBefore"}
                 /\ \A t \in mCanPush' : op[t] # "push"
<1>1. CASE mCount = 0
  <2>1. UNCHANGED <<ring, modes, mCanPush, mCanPop>>
    BY <1>1 DEF TryPopLocked
  <2> QED BY <2>1, SameRing DEF ring, modes
<1>2. CASE mCount # 0
  <2>1. /\ IF mCount = Size THEN Signal(mCanPush) ELSE mCanPush' = mCanPush
        /\ mCanPop' = mCanPop
    BY <1>2 DEF TryPopLocked
  <2>2. \A t \in mCanPop : op[t] \notin {"pop", "popBefore"}
    BY <1>2 DEF SInv, NobodyStranded
  <2>3. CASE mCount = Size
    <3>1. mCanPush' = {}
      BY <2>1, <2>3, SignalReaches DEF SInv
    <3> QED BY <2>1, <2>2, <3>1
  <2>4. CASE mCount # Size
    <3>1. \A t \in mCanPush : op[t] # "push"
      BY <2>4 DEF SInv, NobodyStranded
    <3> QED BY <2>1, <2>2, <2>4, <3>1
  <2> QED BY <2>3, <2>4
<1> QED BY <1>1, <1>2

\* A thread that returns waits nowhere, and the others are as they were.
LEMMA ReturnWaits ==
    ASSUME IInv, SInv, NEW t \in Thread, NEW r, NEW m, Return(t, r, m),
           t \notin mCanPush' \union mCanPop',
           mCanPush' \subseteq mCanPush, mCanPop' \subseteq mCanPop,
           UNCHANGED <<mCount, Size, mClosed, mSnapshotMode>>
              \/ /\ \A s \in mCanPop' : op[s] \notin {"pop", "popBefore"}
                 /\ \A s \in mCanPush' : op[s] # "push"
    PROVE  SInv'
<1>1. /\ op \in [Thread -> PushCalls \union PopCalls \union {"none"}]
      /\ op' = [op EXCEPT ![t] = "none"] /\ timedOut' = timedOut \ {t}
  BY DEF IInv, CallsOK, Return
<1>2. \A s \in Thread : op'[s] = IF s = t THEN "none" ELSE op[s]
  BY <1>1
<1>3. WaitersOK'
  BY <1>1, <1>2 DEF SInv, WaitersOK, PushCalls, PopCalls
<1>4. \A s \in mCanPush' \union mCanPop' : op'[s] = op[s]
  BY <1>2 DEF SInv, WaitersOK
<1>5. NobodyStranded'
  BY <1>4 DEF SInv, NobodyStranded, Size
<1> QED BY <1>3, <1>5 DEF SInv

\* Steps that leave the calls and the queue alone, and put nobody to sleep.
LEMMA QuietWaits ==
    ASSUME IInv, SInv, op' = op,
           \A s \in mCanPop' : s \notin timedOut',
           mCanPush' \subseteq mCanPush, mCanPop' \subseteq mCanPop,
           UNCHANGED <<mCount, Size, mClosed, mSnapshotMode>>
              \/ /\ \A s \in mCanPop' : op[s] \notin {"pop", "popBefore"}
                 /\ \A s \in mCanPush' : op[s] # "push"
    PROVE  SInv'
<1>1. WaitersOK'
  BY DEF SInv, WaitersOK
<1>2. NobodyStranded'
  BY DEF SInv, NobodyStranded, Size
<1> QED BY <1>1, <1>2 DEF SInv

\* Each step of a thread inside its call leaves nobody stranded.
LEMMA ProceedWaits ==
    ASSUME OneEach, IInv, SInv, NEW t \in Thread, Proceed(t)
    PROVE  SInv'
<1>1. /\ op \in [Thread -> PushCalls \union PopCalls \union {"none"}]
      /\ \A s \in timedOut : op[s] = "popBefore"
  BY DEF IInv, CallsOK
<1>2. CASE PushWaits(t)
  <2>1. /\ op[t] = "push" /\ mCanPush' = mCanPush \union {t} /\ op' = op
        /\ UNCHANGED <<mCanPop, timedOut>>
        /\ mCount = Size /\ ~mSnapshotMode /\ ~mClosed
        /\ UNCHANGED <<ring, mClosed, mSnapshotMode>>
    BY <1>2 DEF PushWaits, Runs, modes
  <2>2. UNCHANGED <<mCount, Size>>
    BY <2>1, SameRing DEF ring
  <2>3. WaitersOK'
    BY <2>1 DEF SInv, WaitersOK
  <2>4. NobodyStranded'
    BY <2>1, <2>2 DEF SInv, NobodyStranded, Size
  <2> QED BY <2>3, <2>4 DEF SInv
<1>3. CASE Push(t)
  <2>1. PICK r \in {"Ok", "Error", "TryAgain"} : TryPushLocked(arg[t], r) /\ Return(t, r, Nothing)
    BY <1>3 DEF Push
  <2>2. t \notin mCanPush \union mCanPop
    BY <1>3 DEF Push, Runs
  <2> QED BY <2>1, <2>2, PushWakes, ReturnWaits
<1>4. ASSUME NEW o \in {"pop", "popBefore"}, PopWaits(t, o) PROVE SInv'
  <2>1. /\ op[t] = o /\ op' = op /\ UNCHANGED mCanPush
        /\ mCount = 0 /\ ~mSnapshotMode /\ ~mClosed
        /\ UNCHANGED <<ring, mClosed, mSnapshotMode>>
        /\ t \notin mCanPop /\ t \notin timedOut
    BY <1>4 DEF PopWaits, Runs, modes
  <2>2. UNCHANGED <<mCount, Size>>
    BY <2>1, SameRing DEF ring
  <2>3. \/ timedOut' = timedOut \union {t} /\ mCanPop' = mCanPop
        \/ timedOut' = timedOut /\ mCanPop' = mCanPop \union {t}
    BY <1>4 DEF PopWaits
  <2>4. WaitersOK'
    BY <2>1, <2>3 DEF SInv, WaitersOK
  <2>5. NobodyStranded'
    BY <2>1, <2>2, <2>3 DEF SInv, NobodyStranded, Size
  <2> QED BY <2>4, <2>5 DEF SInv
<1>5. ASSUME NEW o \in {"pop", "popBefore"}, Pop(t, o) PROVE SInv'
  <2>1. PICK m \in Item \union {Nothing}, r \in {"Ok", "Error", "TryAgain"} :
            TryPopLocked(m, r) /\ Return(t, r, m)
    BY <1>5 DEF Pop
  <2>2. t \notin mCanPush \union mCanPop
    BY <1>5 DEF Pop, Runs
  <2> QED BY <2>1, <2>2, PopWakes, ReturnWaits
<1>6. CASE PopExpires(t)
  <2>1. /\ t \in timedOut /\ Return(t, "Timeout", Nothing)
        /\ UNCHANGED <<ring, mClosed, mSnapshotMode, mCanPush, mCanPop>>
    BY <1>6 DEF PopExpires, modes
  <2>2. UNCHANGED <<mCount, Size>>
    BY <2>1, SameRing DEF ring
  <2>3. t \notin mCanPush \union mCanPop
    BY <1>1, <2>1 DEF SInv, WaitersOK
  <2> QED BY <2>1, <2>2, <2>3, ReturnWaits
<1>7. ASSUME NEW o, NEW r, Runs(t, o), Return(t, r, Nothing),
             UNCHANGED <<ring, modes, mCanPush, mCanPop>>
      PROVE  SInv'
  <2>1. UNCHANGED <<mCount, Size, mClosed, mSnapshotMode>>
    BY <1>7, SameRing DEF ring, modes
  <2>2. t \notin mCanPush \union mCanPop
    BY <1>7 DEF Runs
  <2> QED BY <1>7, <2>1, <2>2, ReturnWaits
<1>8. CASE WaitUntil(t, "waitPushable", CanPush, mCanPush, mCanPop)
  <2>1. CASE CanPush
    BY <1>7, <1>8, <2>1 DEF WaitUntil
  <2>2. CASE ~CanPush
    <3>1. /\ op[t] = "waitPushable" /\ op' = [op EXCEPT ![t] = "wokenPushable"]
          /\ mCanPush' = mCanPush \union {t} /\ UNCHANGED <<mCanPop, timedOut>>
          /\ UNCHANGED <<ring, modes>>
      BY <1>8, <2>2 DEF WaitUntil, Runs
    <3>2. UNCHANGED <<mCount, Size, mClosed, mSnapshotMode>>
      BY <3>1, SameRing DEF ring, modes
    <3>3. \A s \in Thread : op'[s] = IF s = t THEN "wokenPushable" ELSE op[s]
      BY <1>1, <3>1
    <3>4. WaitersOK'
      BY <3>1, <3>3 DEF SInv, WaitersOK, PushCalls, PopCalls
    <3>5. NobodyStranded'
      BY <3>1, <3>2, <3>3 DEF SInv, WaitersOK, NobodyStranded, Size
    <3> QED BY <3>4, <3>5 DEF SInv
  <2> QED BY <2>1, <2>2
<1>9. CASE WaitUntil(t, "waitPopable", CanPop, mCanPop, mCanPush)
  <2>1. CASE CanPop
    BY <1>7, <1>9, <2>1 DEF WaitUntil
  <2>2. CASE ~CanPop
    <3>1. /\ op[t] = "waitPopable" /\ op' = [op EXCEPT ![t] = "wokenPopable"]
          /\ mCanPop' = mCanPop \union {t} /\ UNCHANGED <<mCanPush, timedOut>>
          /\ UNCHANGED <<ring, modes>> /\ t \notin timedOut
      BY <1>9, <2>2 DEF WaitUntil, Runs
    <3>2. UNCHANGED <<mCount, Size, mClosed, mSnapshotMode>>
      BY <3>1, SameRing DEF ring, modes
    <3>3. \A s \in Thread : op'[s] = IF s = t THEN "wokenPopable" ELSE op[s]
      BY <1>1, <3>1
    <3>4. WaitersOK'
      BY <3>1, <3>3 DEF SInv, WaitersOK, PushCalls, PopCalls
    <3>5. NobodyStranded'
      BY <3>1, <3>2, <3>3 DEF SInv, WaitersOK, NobodyStranded, Size
    <3> QED BY <3>4, <3>5 DEF SInv
  <2> QED BY <2>1, <2>2
<1>10. ASSUME NEW o \in {"wokenPushable", "wokenPopable"}, NEW can, Woken(t, o, can) PROVE SInv'
  BY <1>7, <1>10 DEF Woken
<1> QED BY <1>2, <1>3, <1>4, <1>5, <1>6, <1>8, <1>9, <1>10 DEF Proceed

\* No step strands anybody.
LEMMA StepWaits ==
    ASSUME OneEach, IInv, SInv, [Next]_vars
    PROVE  SInv'
<1>1. CASE Invoke
  <2>1. PICK t \in Thread, o \in PushCalls \union PopCalls, m \in Item \union {Nothing} :
            /\ Call(t, o, m)
            /\ o \in PushCalls => t \in Pusher
            /\ o \in PopCalls => t \in Popper
    BY <1>1, CallsAssumption DEF Invoke, Thread, PushCalls, PopCalls
  <2>a. op \in [Thread -> PushCalls \union PopCalls \union {"none"}]
    BY DEF IInv, CallsOK
  <2>b. op[t] = "none" /\ op' = [op EXCEPT ![t] = o] /\ UNCHANGED <<ring, modes, waits>>
    BY <2>1 DEF Call
  <2>c. UNCHANGED <<mCanPush, mCanPop, timedOut>>
    BY <2>b DEF waits
  <2>2. t \notin mCanPush \union mCanPop
    BY <2>b DEF SInv, WaitersOK
  <2>3. UNCHANGED <<mCount, Size, mClosed, mSnapshotMode>>
    BY <2>b, SameRing DEF ring, modes
  <2>4. \A s \in Thread : op'[s] = IF s = t THEN o ELSE op[s]
    BY <2>a, <2>b
  <2>5. WaitersOK'
    BY <2>1, <2>2, <2>c, <2>4 DEF SInv, WaitersOK
  <2>6. NobodyStranded'
    BY <2>2, <2>3, <2>c, <2>4 DEF SInv, WaitersOK, NobodyStranded, Size
  <2> QED BY <2>5, <2>6 DEF SInv
<1>2. ASSUME NEW t \in Thread, DeadlinePasses(t) \/ Timeout(t) \/ SpuriousWakeup(t)
      PROVE  SInv'
  <2>1. /\ op' = op /\ UNCHANGED <<ring, modes>>
        /\ mCanPush' \subseteq mCanPush /\ mCanPop' \subseteq mCanPop
        /\ \A s \in timedOut' : s \in timedOut \/ s \notin mCanPop'
    BY <1>2 DEF DeadlinePasses, Timeout, SpuriousWakeup
  <2>2. \A s \in mCanPop' : s \notin timedOut'
    BY <2>1 DEF SInv, WaitersOK
  <2>3. UNCHANGED <<mCount, Size, mClosed, mSnapshotMode>>
    BY <2>1, SameRing DEF ring, modes
  <2> QED BY <2>1, <2>2, <2>3, QuietWaits
<1>3. ASSUME NEW m \in Item, TryPush(m) PROVE SInv'
  <2>1. PICK r \in {"Ok", "Error", "TryAgain"} :
            TryPushLocked(m, r) /\ Immediate("tryPush", r, Nothing)
    BY <1>3 DEF TryPush
  <2>2. op' = op /\ timedOut' = timedOut
    BY <2>1 DEF Immediate
  <2>3. /\ mCanPush' \subseteq mCanPush /\ mCanPop' \subseteq mCanPop
        /\ UNCHANGED <<mCount, Size, mClosed, mSnapshotMode>>
              \/ /\ \A t \in mCanPop' : op[t] \notin {"pop", "popBefore"}
                 /\ \A t \in mCanPush' : op[t] # "push"
    BY <2>1, PushWakes
  <2>4. \A s \in mCanPop' : s \notin timedOut'
    BY <2>2, <2>3 DEF SInv, WaitersOK
  <2> QED BY <2>2, <2>3, <2>4, QuietWaits
<1>4. CASE TryPop
  <2>1. PICK m \in Item \union {Nothing}, r \in {"Ok", "Error", "TryAgain"} :
            TryPopLocked(m, r) /\ Immediate("tryPop", r, m)
    BY <1>4 DEF TryPop
  <2>2. op' = op /\ timedOut' = timedOut
    BY <2>1 DEF Immediate
  <2>3. /\ mCanPush' \subseteq mCanPush /\ mCanPop' \subseteq mCanPop
        /\ UNCHANGED <<mCount, Size, mClosed, mSnapshotMode>>
              \/ /\ \A t \in mCanPop' : op[t] \notin {"pop", "popBefore"}
                 /\ \A t \in mCanPush' : op[t] # "push"
    BY <2>1, PopWakes
  <2>4. \A s \in mCanPop' : s \notin timedOut'
    BY <2>2, <2>3 DEF SInv, WaitersOK
  <2> QED BY <2>2, <2>3, <2>4, QuietWaits
<1>5. ASSUME op' = op, timedOut' = timedOut, WakeAllWaiters PROVE SInv'
  <2>1. /\ mCanPush' = (IF mCount = Size THEN {} ELSE mCanPush)
        /\ mCanPop' = (IF mCount = 0 THEN {} ELSE mCanPop)
    BY <1>5 DEF WakeAllWaiters
  <2>2. /\ \A s \in mCanPop' : op[s] \notin {"pop", "popBefore"}
        /\ \A s \in mCanPush' : op[s] # "push"
    BY <2>1 DEF SInv, NobodyStranded
  <2>3. \A s \in mCanPop' : s \notin timedOut'
    BY <1>5, <2>1 DEF SInv, WaitersOK
  <2> QED BY <1>5, <2>1, <2>2, <2>3, QuietWaits
<1>6. CASE Close
  BY <1>5, <1>6 DEF Close
<1>7. ASSUME NEW on \in BOOLEAN, SetSnapshotMode(on) PROVE SInv'
  <2>1. CASE on /\ ~mClosed
    BY <1>5, <1>7, <2>1 DEF SetSnapshotMode
  <2>2. CASE mClosed
    <3>1. /\ op' = op /\ timedOut' = timedOut /\ mCanPush' = mCanPush /\ mCanPop' = mCanPop
      BY <1>7, <2>2 DEF SetSnapshotMode
    <3>2. /\ \A s \in mCanPop' : op[s] \notin {"pop", "popBefore"}
          /\ \A s \in mCanPush' : op[s] # "push"
      BY <2>2, <3>1 DEF SInv, NobodyStranded
    <3>3. \A s \in mCanPop' : s \notin timedOut'
      BY <3>1 DEF SInv, WaitersOK
    <3> QED BY <3>1, <3>2, <3>3, QuietWaits
  <2>3. CASE ~on /\ ~mClosed
    <3>1. /\ op' = op /\ timedOut' = timedOut /\ mCanPush' = mCanPush /\ mCanPop' = mCanPop
          /\ UNCHANGED <<ring, mClosed>> /\ mSnapshotMode' = FALSE
      BY <1>7, <2>3 DEF SetSnapshotMode
    <3>2. UNCHANGED <<mCount, Size>>
      BY <3>1, SameRing DEF ring
    <3>3. WaitersOK'
      BY <3>1 DEF SInv, WaitersOK
    <3>4. NobodyStranded'
      BY <3>1, <3>2 DEF SInv, NobodyStranded, Size
    <3> QED BY <3>3, <3>4 DEF SInv
  <2> QED BY <2>1, <2>2, <2>3
<1>8. CASE Save
  <2>1. op' = op /\ UNCHANGED <<waits, ring, mClosed, mSnapshotMode>>
    BY <1>8 DEF Save
  <2>2. UNCHANGED <<mCount, Size>>
    BY <2>1, SameRing DEF ring
  <2>3. \A s \in mCanPop' : s \notin timedOut'
    BY <2>1 DEF waits, SInv, WaitersOK
  <2> QED BY <2>1, <2>2, <2>3, QuietWaits DEF waits
<1>9. CASE Load
  <2>1. op' = op /\ UNCHANGED waits /\ mCanPush = {} /\ mCanPop = {}
    BY <1>9 DEF Load
  <2> QED BY <2>1, QuietWaits DEF waits
<1>10. CASE UNCHANGED vars
  <2>1. op' = op /\ UNCHANGED <<waits, ring, mClosed, mSnapshotMode>>
    BY <1>10 DEF vars, modes
  <2>2. UNCHANGED <<mCount, Size>>
    BY <2>1, SameRing DEF ring
  <2>3. \A s \in mCanPop' : s \notin timedOut'
    BY <2>1 DEF waits, SInv, WaitersOK
  <2> QED BY <2>1, <2>2, <2>3, QuietWaits DEF waits
<1> QED BY <1>1, <1>2, <1>3, <1>4, <1>6, <1>7, <1>8, <1>9, <1>10, ProceedWaits DEF Next

\* With one thread at each end nobody sleeps on a queue that could serve him, for every
\* capacity, through growth, snapshots, closing and deadlines (BufferQueue.h:125, 159).
THEOREM NoneStranded == ASSUME OneEach PROVE Spec => []NobodyStranded
<1>1. Init => SInv
  BY DEF Init, SInv, WaitersOK, NobodyStranded, PushCalls, PopCalls
<1>2. IInv /\ SInv /\ [Next]_vars => SInv'
  BY StepWaits
<1>3. SInv => NobodyStranded
  BY DEF SInv
<1> QED BY <1>1, <1>2, <1>3, InitRefines, StepRefines, PTL DEF Spec

=============================================================================
