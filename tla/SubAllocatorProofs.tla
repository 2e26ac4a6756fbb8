----------------------- MODULE SubAllocatorProofs -------------------------
(***************************************************************************)
(* The block list tiles the buffer and stays merged, its used bytes are    *)
(* those of the ranges that are out, and what the calls answer is what a   *)
(* pool of bytes would answer (AllocatorPool): for every size of buffer,   *)
(* of page and of request, as long as a fixed request ends in the block it *)
(* starts in.                                                              *)
(***************************************************************************)
EXTENDS SubAllocator, SequenceTheorems, FiniteSetTheorems, WellFoundedInduction, TLAPS

\* s is a merged list of blocks that tiles the bytes from lo to hi.  That each block lies in
\* between follows from the rest by induction on its index; stated for each, it is preserved
\* without one.
Lists(s, lo, hi) ==
    /\ s \in Seq(BlockType) /\ s # <<>>
    /\ s[1].offset = lo /\ End(s[Len(s)]) = hi
    /\ \A i \in 1 .. Len(s) : s[i].size > 0 /\ lo <= s[i].offset /\ End(s[i]) <= hi
    /\ \A i \in 1 .. Len(s) - 1 : s[i + 1].offset = End(s[i])
    /\ \A i \in 1 .. Len(s) - 1 : ~(s[i].available /\ s[i + 1].available)

BlocksListed == Lists(blocks, 0, TotalSize)
SnapshotListed == Lists(snapshot.blocks, 0, TotalSize)
IInv == BlocksListed /\ SnapshotListed

----------------------------------------------------------------------------
(* Splicing.                                                                *)

\* Where the blocks are after a splice.
LEMMA SpliceIndex ==
    ASSUME blocks \in Seq(BlockType),
           NEW i \in 1 .. Len(blocks), NEW j \in i .. Len(blocks), NEW new \in Seq(BlockType)
    PROVE  /\ Splice(i, j, new) \in Seq(BlockType)
           /\ Len(Splice(i, j, new)) = Len(blocks) - (j - i + 1) + Len(new)
           /\ \A k \in 1 .. i - 1 : Splice(i, j, new)[k] = blocks[k]
           /\ \A k \in 1 .. Len(new) : Splice(i, j, new)[i - 1 + k] = new[k]
           /\ \A k \in 1 .. Len(blocks) - j : Splice(i, j, new)[i - 1 + Len(new) + k] = blocks[j + k]
  <1> DEFINE before == SubSeq(blocks, 1, i - 1)
             behind == SubSeq(blocks, j + 1, Len(blocks))
  <1>0. Len(blocks) \in Nat /\ Len(new) \in Nat
    BY LenProperties
  <1>1. \A k \in 1 .. Len(blocks) : blocks[k] \in BlockType
    BY ElementOfSeq
  <1>2. /\ before \in Seq(BlockType) /\ Len(before) = i - 1
        /\ \A k \in 1 .. i - 1 : before[k] = blocks[k]
    <2>1. /\ SubSeq(blocks, 1, i - 1) \in Seq(BlockType)
          /\ Len(SubSeq(blocks, 1, i - 1)) = IF 1 <= i - 1 THEN (i - 1) - 1 + 1 ELSE 0
          /\ \A k \in 1 .. (i - 1) - 1 + 1 : SubSeq(blocks, 1, i - 1)[k] = blocks[1 + k - 1]
      BY <1>0, <1>1, SubSeqProperties, 1 \in Int, i - 1 \in Int
    <2> QED BY <2>1, <1>0
  <1>3. /\ behind \in Seq(BlockType) /\ Len(behind) = Len(blocks) - j
        /\ \A k \in 1 .. Len(blocks) - j : behind[k] = blocks[j + k]
    <2>1. /\ SubSeq(blocks, j + 1, Len(blocks)) \in Seq(BlockType)
          /\ Len(SubSeq(blocks, j + 1, Len(blocks))) =
                IF j + 1 <= Len(blocks) THEN Len(blocks) - (j + 1) + 1 ELSE 0
          /\ \A k \in 1 .. Len(blocks) - (j + 1) + 1 :
                SubSeq(blocks, j + 1, Len(blocks))[k] = blocks[j + 1 + k - 1]
      BY <1>0, <1>1, SubSeqProperties, j + 1 \in Int, Len(blocks) \in Int
    <2> QED BY <2>1, <1>0
  <1> HIDE DEF before, behind
  <1>4. /\ before \o new \in Seq(BlockType)
        /\ Len(before \o new) = i - 1 + Len(new)
        /\ \A k \in 1 .. i - 1 + Len(new) :
              (before \o new)[k] = IF k <= i - 1 THEN before[k] ELSE new[k - (i - 1)]
    <2>1. /\ before \o new \in Seq(BlockType)
          /\ Len(before \o new) = Len(before) + Len(new)
          /\ \A k \in 1 .. Len(before) + Len(new) :
                (before \o new)[k] = IF k <= Len(before) THEN before[k] ELSE new[k - Len(before)]
      BY <1>2, ConcatProperties
    <2> QED BY <2>1, <1>2
  <1>5. /\ (before \o new) \o behind \in Seq(BlockType)
        /\ Len((before \o new) \o behind) = i - 1 + Len(new) + (Len(blocks) - j)
        /\ \A k \in 1 .. i - 1 + Len(new) + (Len(blocks) - j) :
              ((before \o new) \o behind)[k] =
                  IF k <= i - 1 + Len(new) THEN (before \o new)[k]
                  ELSE behind[k - (i - 1 + Len(new))]
    <2> DEFINE first == before \o new
    <2>1. first \in Seq(BlockType) /\ Len(first) = i - 1 + Len(new)
      BY <1>4
    <2> HIDE DEF first
    <2>a. first \in Seq(BlockType) /\ behind \in Seq(BlockType)
      BY <1>3, <2>1
    <2>2. /\ first \o behind \in Seq(BlockType)
          /\ Len(first \o behind) = Len(first) + Len(behind)
          /\ \A k \in 1 .. Len(first) + Len(behind) :
                (first \o behind)[k] = IF k <= Len(first) THEN first[k] ELSE behind[k - Len(first)]
      BY <2>a, ConcatProperties
    <2>3. /\ first \o behind \in Seq(BlockType)
          /\ Len(first \o behind) = i - 1 + Len(new) + (Len(blocks) - j)
          /\ \A k \in 1 .. i - 1 + Len(new) + (Len(blocks) - j) :
                (first \o behind)[k] = IF k <= i - 1 + Len(new) THEN first[k]
                                       ELSE behind[k - (i - 1 + Len(new))]
      BY <2>1, <2>2, <1>3
    <2> QED BY <2>3 DEF first
  <1>6. Splice(i, j, new) = (before \o new) \o behind
    BY DEF Splice, before, behind
  <1>7. \A k \in 1 .. i - 1 : Splice(i, j, new)[k] = blocks[k]
    BY <1>0, <1>2, <1>4, <1>5, <1>6
  <1>8. \A k \in 1 .. Len(new) : Splice(i, j, new)[i - 1 + k] = new[k]
    <2> TAKE k \in 1 .. Len(new)
    <2>1. i - 1 + k \in 1 .. i - 1 + Len(new) /\ ~(i - 1 + k <= i - 1) /\ i - 1 + k - (i - 1) = k
      BY <1>0
    <2>2. (before \o new)[i - 1 + k] = new[k]
      BY <2>1, <1>4
    <2>3. i - 1 + k \in 1 .. i - 1 + Len(new) + (Len(blocks) - j) /\ i - 1 + k <= i - 1 + Len(new)
      BY <1>0
    <2> QED BY <2>2, <2>3, <1>5, <1>6
  <1>9. \A k \in 1 .. Len(blocks) - j : Splice(i, j, new)[i - 1 + Len(new) + k] = blocks[j + k]
    <2> TAKE k \in 1 .. Len(blocks) - j
    <2>1. /\ i - 1 + Len(new) + k \in 1 .. i - 1 + Len(new) + (Len(blocks) - j)
          /\ ~(i - 1 + Len(new) + k <= i - 1 + Len(new))
          /\ i - 1 + Len(new) + k - (i - 1 + Len(new)) = k
      BY <1>0
    <2> DEFINE at == i - 1 + Len(new) + k
    <2>2. at \in 1 .. i - 1 + Len(new) + (Len(blocks) - j) /\ ~(at <= i - 1 + Len(new))
      BY <2>1
    <2>3. at - (i - 1 + Len(new)) = k
      BY <2>1
    <2> HIDE DEF at
    <2>4. ((before \o new) \o behind)[at] = behind[at - (i - 1 + Len(new))]
      BY <2>2, <1>5
    <2>5. ((before \o new) \o behind)[at] = blocks[j + k]
      BY <2>3, <2>4, <1>3
    <2> QED BY <2>5, <1>6 DEF at
  <1>10. Len(Splice(i, j, new)) = Len(blocks) - (j - i + 1) + Len(new)
    BY <1>0, <1>5, <1>6
  <1> QED BY <1>5, <1>6, <1>7, <1>8, <1>9, <1>10

\* Replacing blocks i to j by a list of the same bytes leaves a list of the whole buffer,
\* if the edges of the new list are not available beside an available block.
LEMMA SpliceLists ==
    ASSUME Lists(blocks, 0, TotalSize),
           NEW i \in 1 .. Len(blocks), NEW j \in i .. Len(blocks), NEW new,
           Lists(new, blocks[i].offset, End(blocks[j])),
           i > 1 => ~(blocks[i - 1].available /\ new[1].available),
           j < Len(blocks) => ~(new[Len(new)].available /\ blocks[j + 1].available)
    PROVE  Lists(Splice(i, j, new), 0, TotalSize)
  <1> DEFINE s == Splice(i, j, new)
             n == Len(new)
             m == Len(blocks)
  <1>1. blocks \in Seq(BlockType) /\ new \in Seq(BlockType)
    BY DEF Lists
  <1>2. m \in Nat /\ n \in Nat /\ n > 0 /\ TotalSize \in Nat
    BY <1>1, LenProperties, EmptySeq, SubAllocatorAssumption DEF Lists
  <1>3. /\ s \in Seq(BlockType) /\ Len(s) = m - (j - i + 1) + n
        /\ \A k \in 1 .. i - 1 : s[k] = blocks[k]
        /\ \A k \in 1 .. n : s[i - 1 + k] = new[k]
        /\ \A k \in 1 .. m - j : s[i - 1 + n + k] = blocks[j + k]
    BY <1>1, SpliceIndex
  <1>4. \A k \in 1 .. m : blocks[k] \in BlockType
    BY <1>1, ElementOfSeq
  <1>5. \A k \in 1 .. n : new[k] \in BlockType
    BY <1>1, ElementOfSeq
  <1>6. /\ blocks[1].offset = 0 /\ End(blocks[m]) = TotalSize
        /\ \A k \in 1 .. m : blocks[k].size > 0 /\ 0 <= blocks[k].offset /\ End(blocks[k]) <= TotalSize
        /\ \A k \in 1 .. m - 1 : blocks[k + 1].offset = End(blocks[k])
        /\ \A k \in 1 .. m - 1 : ~(blocks[k].available /\ blocks[k + 1].available)
    BY DEF Lists
  <1>7. /\ new[1].offset = blocks[i].offset /\ End(new[n]) = End(blocks[j])
        /\ \A k \in 1 .. n : /\ new[k].size > 0 /\ blocks[i].offset <= new[k].offset
                            /\ End(new[k]) <= End(blocks[j])
        /\ \A k \in 1 .. n - 1 : new[k + 1].offset = End(new[k])
        /\ \A k \in 1 .. n - 1 : ~(new[k].available /\ new[k + 1].available)
    BY DEF Lists
  <1>a. i \in Int /\ j \in Int /\ 1 <= i /\ i <= j /\ j <= m
    BY <1>2
  <1> HIDE DEF s, n, m
  <1> DEFINE Before(k) == k \in 1 .. i - 1 /\ s[k] = blocks[k]
             Within(k) == \E l \in 1 .. n : k = i - 1 + l /\ s[k] = new[l]
             Behind(k) == \E l \in 1 .. m - j : k = i - 1 + n + l /\ s[k] = blocks[j + l]
  <1>8. \A k \in 1 .. Len(s) : Before(k) \/ Within(k) \/ Behind(k)
    <2> TAKE k \in 1 .. Len(s)
    <2>0. Len(s) = m - (j - i + 1) + n
      BY <1>3
    <2>1. i \in 1 .. m /\ j \in i .. m
      BY DEF m
    <2>2. CASE k <= i - 1
      BY <2>1, <2>2, <1>2, <1>3
    <2>3. CASE k > i - 1 /\ k <= i - 1 + n
      <3>1. k - (i - 1) \in 1 .. n /\ k = i - 1 + (k - (i - 1))
        BY <2>1, <2>3, <1>2
      <3> QED BY <3>1, <1>3
    <2>4. CASE k > i - 1 + n
      <3>1. k - (i - 1 + n) \in 1 .. m - j /\ k = i - 1 + n + (k - (i - 1 + n))
        BY <2>0, <2>1, <2>4, <1>2
      <3> QED BY <3>1, <1>3
    <2> QED BY <2>0, <2>1, <2>2, <2>3, <2>4, <1>2
  <1>9. \A k \in 1 .. Len(s) : s[k].size > 0 /\ 0 <= s[k].offset /\ End(s[k]) <= TotalSize
    <2>1. i \in 1 .. m /\ j \in i .. m /\ j \in 1 .. m
      BY <1>2 DEF m
    <2>2. 0 <= blocks[i].offset /\ End(blocks[j]) <= TotalSize
      BY <2>1, <1>6
    <2>3. blocks[i].offset \in Nat /\ End(blocks[j]) \in Nat
      BY <2>1, <1>4 DEF BlockType, End
    <2>4. \A l \in 1 .. n : new[l].offset \in Nat /\ new[l].size \in Nat /\ End(new[l]) \in Nat
      BY <1>5 DEF BlockType, End
    <2>5. \A l \in 1 .. n : new[l].size > 0 /\ 0 <= new[l].offset /\ End(new[l]) <= TotalSize
      <3> TAKE l \in 1 .. n
      <3>1. new[l].size > 0 /\ End(new[l]) <= End(blocks[j])
        BY <1>7
      <3> QED BY <3>1, <2>2, <2>3, <2>4, <1>2, SMTT(30)
    <2>6. \A l \in 1 .. m - j : j + l \in 1 .. m
      BY <2>1, <1>2
    <2>7. \A l \in 1 .. i - 1 : l \in 1 .. m
      BY <2>1, <1>2
    <2> QED BY <2>5, <2>6, <2>7, <1>6, <1>8
  <1>10. s # <<>> /\ s[1].offset = 0 /\ End(s[Len(s)]) = TotalSize
    <2>0. Len(s) = m - (j - i + 1) + n /\ i \in 1 .. m /\ j \in i .. m
      BY <1>3 DEF m
    <2>1. Len(s) \in Nat /\ Len(s) > 0
      BY <2>0, <1>2
    <2>2. s # <<>>
      BY <2>1, EmptySeq
    <2>3. s[1].offset = 0
      <3>1. CASE i = 1
        <4>1. s[i - 1 + 1] = new[1]
          BY <1>2, <1>3
        <4> QED BY <4>1, <3>1, <1>6, <1>7
      <3>2. CASE i > 1
        <4>1. s[1] = blocks[1]
          BY <2>0, <3>2, <1>2, <1>3
        <4> QED BY <4>1, <1>6
      <3> QED BY <2>0, <3>1, <3>2, <1>2
    <2>4. End(s[Len(s)]) = TotalSize
      <3>1. CASE j = m
        <4>1. s[i - 1 + n] = new[n] /\ i - 1 + n = Len(s)
          BY <2>0, <3>1, <1>2, <1>3
        <4> QED BY <4>1, <3>1, <1>6, <1>7
      <3>2. CASE j < m
        <4>1. m - j \in Int /\ m - j >= 1
          BY <3>2, <1>2, <1>a
        <4>a. i - 1 + n + (m - j) = Len(s)
          BY <2>0, <1>2
        <4>b. j + (m - j) = m
          BY <2>0, <1>2
        <4>c. m - j \in 1 .. m - j
          BY <4>1
        <4>2. s[Len(s)] = blocks[m]
          BY <4>a, <4>b, <4>c, <1>3
        <4> QED BY <4>2, <1>6
      <3> QED BY <2>0, <3>1, <3>2, <1>2
    <2> QED BY <2>2, <2>3, <2>4
  <1>11. \A k \in 1 .. Len(s) - 1 : s[k + 1].offset = End(s[k]) /\ ~(s[k].available /\ s[k + 1].available)
    <2> SUFFICES ASSUME NEW k \in 1 .. Len(s) - 1
                 PROVE  s[k + 1].offset = End(s[k]) /\ ~(s[k].available /\ s[k + 1].available)
      OBVIOUS
    <2>0. Len(s) = m - (j - i + 1) + n /\ i \in 1 .. m /\ j \in i .. m
      BY <1>3 DEF m
    <2>1. CASE k < i - 1
      <3>a. k \in Int /\ 1 <= k
        OBVIOUS
      <3>b. m \in Int /\ i \in Int /\ i <= m
        BY <1>a, <1>2
      <3>0. k \in 1 .. i - 1 /\ k + 1 \in 1 .. i - 1 /\ k \in 1 .. m - 1
        BY <3>a, <3>b, <2>1
      <3>1. s[k] = blocks[k] /\ s[k + 1] = blocks[k + 1] /\ k \in 1 .. m - 1
        BY <3>0, <1>3
      <3> QED BY <3>1, <1>6
    <2>2. CASE k = i - 1
      <3>a. k \in Int /\ 1 <= k /\ k + 1 = i
        BY <2>2, <1>a
      <3>0. k \in 1 .. i - 1 /\ k \in 1 .. m - 1 /\ k + 1 = i /\ i > 1
        BY <3>a, <1>2, <1>a
      <3>1. s[k] = blocks[i - 1]
        BY <3>0, <2>2, <1>3
      <3>2. s[i - 1 + 1] = new[1] /\ i - 1 + 1 = k + 1
        BY <2>0, <2>2, <1>2, <1>3
      <3> QED BY <2>2, <3>0, <3>1, <3>2, <1>6, <1>7
    <2>3. CASE k > i - 1 /\ k < i - 1 + n
      <3> DEFINE l == k - (i - 1)
      <3>1. l \in 1 .. n - 1 /\ l \in 1 .. n /\ l + 1 \in 1 .. n /\ k = i - 1 + l /\ k + 1 = i - 1 + (l + 1)
        BY <2>0, <2>3, <1>2
      <3> HIDE DEF l
      <3>2. s[k] = new[l] /\ s[k + 1] = new[l + 1]
        BY <3>1, <1>3
      <3> QED BY <3>1, <3>2, <1>7
    <2>4. CASE k = i - 1 + n
      <3>0. n \in 1 .. n
        BY <1>2
      <3>1. s[k] = new[n]
        BY <3>0, <2>4, <1>3
      <3>a. k + 1 = i - 1 + n + 1
        BY <2>4
      <3>b. i - 1 + n <= m - (j - i + 1) + n - 1
        BY <2>0, <2>4, <1>2
      <3>c. j < m
        BY <3>b, <2>0, <1>2
      <3>2. 1 \in 1 .. m - j /\ k + 1 = i - 1 + n + 1 /\ j \in 1 .. m - 1 /\ j < m
        BY <3>a, <3>c, <2>0, <1>2
      <3>d. s[i - 1 + n + 1] = blocks[j + 1]
        BY <3>2, <1>3
      <3>3. s[k + 1] = blocks[j + 1]
        BY <3>2, <3>d
      <3> QED BY <3>1, <3>2, <3>3, <1>6, <1>7 DEF m, n
    <2>5. CASE k > i - 1 + n
      <3> DEFINE l == k - (i - 1 + n)
      <3>1. /\ l \in 1 .. m - j /\ l + 1 \in 1 .. m - j /\ k = i - 1 + n + l /\ k + 1 = i - 1 + n + (l + 1)
            /\ j + l \in 1 .. m - 1 /\ j + (l + 1) = (j + l) + 1
        BY <2>0, <2>5, <1>2
      <3> HIDE DEF l
      <3>2. s[k] = blocks[j + l] /\ s[k + 1] = blocks[(j + l) + 1]
        BY <3>1, <1>3
      <3> QED BY <3>1, <3>2, <1>6
    <2> QED BY <2>0, <2>1, <2>2, <2>3, <2>4, <2>5, <1>2
  <1> QED BY <1>3, <1>9, <1>10, <1>11 DEF Lists, s

----------------------------------------------------------------------------
(* What the operations put in place of a block.                             *)

\* A request that is not empty takes at least a byte after rounding.
LEMMA PageRoundedPositive ==
    ASSUME NEW size \in Nat, size > 0
    PROVE  PageRounded(size) \in Nat /\ PageRounded(size) > 0
  <1> DEFINE P == PageSize
             d == (size + P - 1) \div P
  <1>1. P \in Nat /\ P > 0
    BY SubAllocatorAssumption
  <1>2. d \in Nat /\ d > 0
    BY <1>1
  <1>3. PageRounded(size) = P * d
    BY DEF PageRounded
  <1> HIDE DEF P, d
  <1> QED BY <1>1, <1>2, <1>3

\* What a block built from an offset, a size and a flag holds.
LEMMA BlockFields ==
    ASSUME NEW offset \in Nat, NEW size \in Nat, NEW available \in BOOLEAN
    PROVE  /\ Block(offset, size, available) \in BlockType
           /\ Block(offset, size, available).offset = offset
           /\ Block(offset, size, available).size = size
           /\ Block(offset, size, available).available = available
           /\ End(Block(offset, size, available)) = offset + size
  BY DEF Block, BlockType, End

\* split_block: the last of the two is taken.
LEMMA TakeEndLists ==
    ASSUME NEW b \in BlockType, NEW size \in Nat, 0 < size, size <= b.size
    PROVE  /\ Lists(TakeEnd(b, size), b.offset, End(b))
           /\ ~TakeEnd(b, size)[Len(TakeEnd(b, size))].available
           /\ TakeEnd(b, size)[1].available => b.available
  <1>0. b.offset \in Nat /\ b.size \in Nat /\ b.available \in BOOLEAN
    BY DEF BlockType
  <1>1. CASE b.size = size
    <2> DEFINE c == [b EXCEPT !.available = FALSE]
    <2>1. c \in BlockType /\ c.offset = b.offset /\ c.size = b.size /\ ~c.available
      BY DEF BlockType
    <2>2. TakeEnd(b, size) = <<c>>
      BY <1>1 DEF TakeEnd
    <2> HIDE DEF c
    <2>3. <<c>> \in Seq(BlockType) /\ Len(<<c>>) = 1 /\ <<c>>[1] = c /\ <<c>> # <<>>
      BY <2>1
    <2> QED BY <1>0, <1>1, <2>1, <2>2, <2>3 DEF Lists, End
  <1>2. CASE b.size # size
    <2> DEFINE c == [b EXCEPT !.size = @ - size]
               e == Block(End(b) - size, size, FALSE)
    <2>1. b.size - size \in Nat /\ b.size - size > 0 /\ End(b) - size \in Nat
      BY <1>0, <1>2 DEF End
    <2>2. c \in BlockType /\ c.offset = b.offset /\ c.size = b.size - size /\ c.available = b.available
      BY <2>1 DEF BlockType
    <2>3. e \in BlockType /\ e.offset = End(b) - size /\ e.size = size /\ ~e.available
      <3>1. PICK o \in Nat : o = End(b) - size
        BY <2>1
      <3>2. e = Block(o, size, FALSE)
        BY <3>1
      <3> HIDE DEF e
      <3> QED BY <3>1, <3>2, BlockFields
    <2>4. TakeEnd(b, size) = <<c, e>>
      BY <1>2 DEF TakeEnd
    <2> HIDE DEF c, e
    <2>5. /\ <<c, e>> \in Seq(BlockType) /\ Len(<<c, e>>) = 2
          /\ <<c, e>>[1] = c /\ <<c, e>>[2] = e /\ <<c, e>> # <<>>
      BY <2>2, <2>3
    <2>6. \A k \in 1 .. 2 : k = 1 \/ k = 2
      OBVIOUS
    <2>7. \A k \in 1 .. 2 - 1 : k = 1
      OBVIOUS
    <2>8. End(c) = End(b) - size /\ End(e) = End(b)
      BY <1>0, <2>1, <2>2, <2>3 DEF End
    <2> QED BY <1>0, <2>1, <2>2, <2>3, <2>4, <2>5, <2>6, <2>7, <2>8 DEF Lists, End
  <1> QED BY <1>1, <1>2

\* A block is a list of its own bytes.
LEMMA OneLists ==
    ASSUME NEW lo \in Nat, NEW hi \in Nat, lo < hi, NEW available \in BOOLEAN
    PROVE  /\ Lists(<<Block(lo, hi - lo, available)>>, lo, hi)
           /\ Len(<<Block(lo, hi - lo, available)>>) = 1
           /\ <<Block(lo, hi - lo, available)>>[1].available = available
  <1> DEFINE c == Block(lo, hi - lo, available)
  <1>1. hi - lo \in Nat /\ hi - lo > 0
    OBVIOUS
  <1>2. c \in BlockType /\ c.offset = lo /\ c.size = hi - lo /\ c.available = available
    BY <1>1, BlockFields
  <1> HIDE DEF c
  <1>3. End(c) = hi
    BY <1>2 DEF End
  <1>4. <<c>> \in Seq(BlockType) /\ Len(<<c>>) = 1 /\ <<c>>[1] = c /\ <<c>> # <<>>
    BY <1>2
  <1>5. Lists(<<c>>, lo, hi) /\ Len(<<c>>) = 1 /\ <<c>>[1].available = available
    BY <1>1, <1>2, <1>3, <1>4 DEF Lists
  <1> QED BY <1>5 DEF c

\* Two lists that meet make one, if they do not meet in two available blocks.
LEMMA ConcatLists ==
    ASSUME NEW lo \in Nat, NEW mid \in Nat, NEW hi \in Nat, lo <= mid, mid <= hi,
           NEW s, NEW t, Lists(s, lo, mid), Lists(t, mid, hi),
           ~(s[Len(s)].available /\ t[1].available)
    PROVE  Lists(s \o t, lo, hi)
  <1> DEFINE u == s \o t
             m == Len(s)
             n == Len(t)
  <1>1. s \in Seq(BlockType) /\ t \in Seq(BlockType)
    BY DEF Lists
  <1>2. m \in Nat /\ m > 0 /\ n \in Nat /\ n > 0
    BY <1>1, EmptySeq DEF Lists
  <1>3. /\ u \in Seq(BlockType) /\ Len(u) = m + n
        /\ \A k \in 1 .. m : u[k] = s[k]
        /\ \A k \in 1 .. n : u[m + k] = t[k]
    <2>1. /\ u \in Seq(BlockType) /\ Len(u) = m + n
          /\ \A k \in 1 .. m + n : u[k] = IF k <= m THEN s[k] ELSE t[k - m]
      BY <1>1, ConcatProperties
    <2> HIDE DEF u, m, n
    <2>2. \A k \in 1 .. m : u[k] = s[k]
      BY <2>1, <1>2
    <2>3. \A k \in 1 .. n : u[m + k] = t[k]
      <3> TAKE k \in 1 .. n
      <3> DEFINE at == m + k
      <3>1. at \in 1 .. m + n /\ ~(at <= m) /\ at - m = k
        BY <1>2
      <3> HIDE DEF at
      <3>2. u[at] = t[k]
        BY <3>1, <2>1
      <3> QED BY <3>2 DEF at
    <2> QED BY <2>1, <2>2, <2>3
  <1>4. /\ s[1].offset = lo /\ End(s[m]) = mid
        /\ \A k \in 1 .. m : s[k].size > 0 /\ lo <= s[k].offset /\ End(s[k]) <= mid
        /\ \A k \in 1 .. m - 1 : s[k + 1].offset = End(s[k])
        /\ \A k \in 1 .. m - 1 : ~(s[k].available /\ s[k + 1].available)
    BY DEF Lists
  <1>5. /\ t[1].offset = mid /\ End(t[n]) = hi
        /\ \A k \in 1 .. n : t[k].size > 0 /\ mid <= t[k].offset /\ End(t[k]) <= hi
        /\ \A k \in 1 .. n - 1 : t[k + 1].offset = End(t[k])
        /\ \A k \in 1 .. n - 1 : ~(t[k].available /\ t[k + 1].available)
    BY DEF Lists
  <1>6. \A k \in 1 .. m : s[k].offset \in Nat /\ End(s[k]) \in Nat
    <2>1. \A k \in 1 .. m : s[k] \in BlockType
      BY <1>1, ElementOfSeq
    <2> QED BY <2>1 DEF BlockType, End
  <1>7. \A k \in 1 .. n : t[k].offset \in Nat /\ End(t[k]) \in Nat
    <2>1. \A k \in 1 .. n : t[k] \in BlockType
      BY <1>1, ElementOfSeq
    <2> QED BY <2>1 DEF BlockType, End
  <1>8. ~(s[m].available /\ t[1].available)
    OBVIOUS
  <1> HIDE DEF u, m, n
  <1>9. u # <<>> /\ u[1] = s[1] /\ u[Len(u)] = t[n]
    <2>1. u # <<>>
      BY <1>2, <1>3, EmptySeq
    <2>2. u[1] = s[1]
      BY <1>2, <1>3
    <2>3. u[m + n] = t[n]
      BY <1>2, <1>3
    <2> QED BY <2>1, <2>2, <2>3, <1>3
  <1>10. \A k \in 1 .. m + n : u[k].size > 0 /\ lo <= u[k].offset /\ End(u[k]) <= hi
    <2> SUFFICES ASSUME NEW k \in 1 .. m + n
                 PROVE  u[k].size > 0 /\ lo <= u[k].offset /\ End(u[k]) <= hi
      OBVIOUS
    <2>1. CASE k <= m
      <3>1. k \in 1 .. m /\ u[k] = s[k]
        BY <2>1, <1>2, <1>3
      <3> QED BY <3>1, <1>4, <1>6
    <2>2. CASE k > m
      <3> DEFINE l == k - m
      <3>1. l \in 1 .. n /\ k = m + l
        BY <2>2, <1>2
      <3> HIDE DEF l
      <3> QED BY <3>1, <1>3, <1>5, <1>7
    <2> QED BY <2>1, <2>2, <1>2
  <1>11. \A k \in 1 .. m + n - 1 : u[k + 1].offset = End(u[k]) /\ ~(u[k].available /\ u[k + 1].available)
    <2> SUFFICES ASSUME NEW k \in 1 .. m + n - 1
                 PROVE  u[k + 1].offset = End(u[k]) /\ ~(u[k].available /\ u[k + 1].available)
      OBVIOUS
    <2>1. CASE k < m
      <3>1. k \in 1 .. m - 1 /\ u[k] = s[k] /\ u[k + 1] = s[k + 1]
        BY <2>1, <1>2, <1>3
      <3> QED BY <3>1, <1>4
    <2>2. CASE k = m
      <3>1. u[k] = s[m]
        BY <2>2, <1>2, <1>3
      <3>2. 1 \in 1 .. n
        BY <1>2
      <3>3. u[k + 1] = t[1]
        BY <3>2, <2>2, <1>3
      <3> QED BY <3>1, <3>3, <1>4, <1>5, <1>8
    <2>3. CASE k > m
      <3> DEFINE l == k - m
      <3>1. l \in 1 .. n - 1 /\ l \in 1 .. n /\ l + 1 \in 1 .. n /\ k = m + l /\ k + 1 = m + (l + 1)
        BY <2>3, <1>2
      <3> HIDE DEF l
      <3>2. u[k] = t[l] /\ u[k + 1] = t[l + 1]
        BY <3>1, <1>3
      <3> QED BY <3>1, <3>2, <1>5
    <2> QED BY <2>1, <2>2, <2>3, <1>2
  <1>12. Lists(u, lo, hi)
    <2>1. u[1].offset = lo /\ End(u[Len(u)]) = hi
      BY <1>4, <1>5, <1>9
    <2>2. \A k \in 1 .. Len(u) : u[k].size > 0 /\ lo <= u[k].offset /\ End(u[k]) <= hi
      BY <1>3, <1>10
    <2>b. Len(u) = m + n
      BY <1>3
    <2>a. Len(u) - 1 = m + n - 1
      BY <2>b, <1>2
    <2>3. \A k \in 1 .. Len(u) - 1 : u[k + 1].offset = End(u[k])
      BY <2>a, <1>11
    <2>4. \A k \in 1 .. Len(u) - 1 : ~(u[k].available /\ u[k + 1].available)
      BY <2>a, <1>11
    <2>5. u \in Seq(BlockType) /\ u # <<>>
      BY <1>3, <1>9
    <2> QED BY <2>1, <2>2, <2>3, <2>4, <2>5 DEF Lists
  <1> QED BY <1>12 DEF u

\* split_block_at_offset, for a request that ends in the block.
LEMMA TakeAtLists ==
    ASSUME NEW b \in BlockType, b.available, End(b) <= TotalSize,
           NEW size \in Nat, 0 < size, size <= b.size,
           NEW offset \in Nat, b.offset <= offset, offset + size <= End(b)
    PROVE  Lists(TakeAt(b, size, offset), b.offset, End(b))
  <1>0. b.offset \in Nat /\ b.size \in Nat /\ End(b) = b.offset + b.size /\ End(b) \in Nat
    BY DEF BlockType, End
  <1>1. CASE b.size = size
    <2> DEFINE c == [b EXCEPT !.available = FALSE]
    <2>1. c \in BlockType /\ c.offset = b.offset /\ c.size = b.size
      BY DEF BlockType
    <2>2. TakeAt(b, size, offset) = <<c>>
      BY <1>1 DEF TakeAt
    <2> HIDE DEF c
    <2>3. <<c>> \in Seq(BlockType) /\ Len(<<c>>) = 1 /\ <<c>>[1] = c /\ <<c>> # <<>>
      BY <2>1
    <2>4. End(c) = End(b) /\ c.size > 0 /\ b.offset <= c.offset /\ End(c) <= End(b)
      BY <1>0, <1>1, <2>1 DEF End
    <2> QED BY <2>1, <2>2, <2>3, <2>4 DEF Lists
  <1>2. CASE b.size # size
    <2> DEFINE head == IF offset = b.offset THEN <<>> ELSE <<Block(b.offset, offset - b.offset, TRUE)>>
               taken == <<Block(offset, size, FALSE)>>
               mid == offset + size
    <2>0. mid \in Nat /\ mid - offset = size /\ offset < mid /\ b.offset < mid /\ mid <= End(b)
      BY <1>0
    <2>1. TakeAt(b, size, offset) = (head \o taken) \o Slop(b, size, offset)
      BY <1>2 DEF TakeAt
    <2>2. Lists(taken, offset, mid) /\ Len(taken) = 1 /\ ~taken[1].available
      <3>1. /\ Lists(<<Block(offset, mid - offset, FALSE)>>, offset, mid)
            /\ Len(<<Block(offset, mid - offset, FALSE)>>) = 1
            /\ <<Block(offset, mid - offset, FALSE)>>[1].available = FALSE
        BY <2>0, OneLists
      <3> QED BY <3>1, <2>0
    <2>3. /\ Lists(head \o taken, b.offset, mid)
          /\ ~(head \o taken)[Len(head \o taken)].available
      <3>1. CASE offset = b.offset
        <4>1. head \o taken = taken
          BY <3>1, <2>2, ConcatEmptySeq DEF Lists
        <4> QED BY <4>1, <3>1, <2>2
      <3>2. CASE offset # b.offset
        <4>1. b.offset < offset
          BY <1>0, <3>2
        <4>2. Lists(head, b.offset, offset) /\ Len(head) = 1
          BY <1>0, <3>2, <4>1, OneLists
        <4> DEFINE lo == b.offset
        <4>3. lo \in Nat /\ offset \in Nat /\ mid \in Nat /\ lo <= offset /\ offset <= mid
          BY <2>0, <1>0
        <4>4. /\ Lists(head, lo, offset) /\ Lists(taken, offset, mid)
              /\ ~(head[Len(head)].available /\ taken[1].available)
          BY <4>2, <2>2
        <4> HIDE DEF head, taken, mid, lo
        <4>5. Lists(head \o taken, lo, mid)
          BY <4>3, <4>4, ConcatLists
        <4>6. head \in Seq(BlockType) /\ taken \in Seq(BlockType) /\ Len(head) = 1 /\ Len(taken) = 1
          BY <4>2, <4>4, <2>2 DEF Lists
        <4>7. (head \o taken)[Len(head \o taken)] = taken[1]
          <5>1. /\ Len(head \o taken) = Len(head) + Len(taken)
                /\ \A k \in 1 .. Len(head) + Len(taken) :
                      (head \o taken)[k] = IF k <= Len(head) THEN head[k] ELSE taken[k - Len(head)]
            BY <4>6, ConcatProperties
          <5>2. Len(head \o taken) = 2 /\ (head \o taken)[2] = taken[2 - 1]
            BY <4>6, <5>1
          <5> QED BY <5>2
        <4> QED BY <4>5, <4>7, <2>2 DEF lo
      <3> QED BY <3>1, <3>2
    <2> HIDE DEF head, taken
    <2>4. CASE mid = End(b)
      <3>1. Slop(b, size, offset) = <<>>
        BY <2>4 DEF Slop
      <3>2. (head \o taken) \o <<>> = head \o taken
        BY <2>3, ConcatEmptySeq DEF Lists
      <3> QED BY <3>1, <3>2, <2>1, <2>3, <2>4
    <2>5. CASE mid # End(b)
      <3>1. mid < End(b) /\ End(b) - mid \in Nat
        BY <2>0, <2>5, <1>0
      <3>2. (End(b) - mid) % Word = End(b) - mid
        <4> DEFINE d == End(b) - mid
        <4>1. d \in Nat /\ d < Word /\ Word \in Nat
          BY <3>1, <2>0, <1>0, SubAllocatorAssumption
        <4> HIDE DEF d
        <4>2. d % Word = d
          BY <4>1
        <4> QED BY <4>2 DEF d
      <3>3. Slop(b, size, offset) = <<Block(mid, End(b) - mid, TRUE)>>
        BY <2>5, <3>2 DEF Slop
      <3>4. Lists(Slop(b, size, offset), mid, End(b))
        <4>1. mid \in Nat /\ End(b) \in Nat /\ mid < End(b)
          BY <2>0, <3>1, <1>0
        <4> HIDE DEF mid
        <4>2. Lists(<<Block(mid, End(b) - mid, TRUE)>>, mid, End(b))
          BY <4>1, OneLists
        <4> QED BY <4>2, <3>3
      <3>5. Lists((head \o taken) \o Slop(b, size, offset), b.offset, End(b))
        <4> DEFINE S == head \o taken
                   T == Slop(b, size, offset)
                   lo == b.offset
                   hi == End(b)
        <4>1. lo \in Nat /\ mid \in Nat /\ hi \in Nat /\ lo <= mid /\ mid <= hi
          BY <2>0, <1>0
        <4>2. Lists(S, lo, mid) /\ Lists(T, mid, hi) /\ ~(S[Len(S)].available /\ T[1].available)
          BY <2>3, <3>4
        <4> HIDE DEF S, T, lo, hi, mid
        <4>3. Lists(S \o T, lo, hi)
          BY <4>1, <4>2, ConcatLists
        <4> QED BY <4>3 DEF S, T, lo, hi
      <3> QED BY <2>1, <3>5
    <2> QED BY <2>4, <2>5
  <1> QED BY <1>1, <1>2

----------------------------------------------------------------------------
(* The steps.                                                               *)

\* Every block of a list lies in the buffer and is typed.
LEMMA BlocksTyped ==
    ASSUME BlocksListed, NEW i \in DOMAIN blocks
    PROVE  /\ i \in 1 .. Len(blocks) /\ Len(blocks) \in Nat
           /\ blocks[i] \in BlockType /\ blocks[i].size > 0 /\ End(blocks[i]) <= TotalSize
           /\ blocks[i].offset \in Nat /\ blocks[i].size \in Nat
  <1>1. blocks \in Seq(BlockType)
    BY DEF BlocksListed, Lists
  <1>2. i \in 1 .. Len(blocks) /\ Len(blocks) \in Nat
    BY <1>1
  <1>3. blocks[i] \in BlockType
    BY <1>1, <1>2, ElementOfSeq
  <1>4. blocks[i].size > 0 /\ End(blocks[i]) <= TotalSize
    BY <1>2 DEF BlocksListed, Lists
  <1> QED BY <1>2, <1>3, <1>4 DEF BlockType

\* A block that was available may give way to any list of its bytes.
LEMMA SplitListed ==
    ASSUME BlocksListed, NEW i \in DOMAIN blocks, blocks[i].available,
           NEW new, Lists(new, blocks[i].offset, End(blocks[i]))
    PROVE  Lists(Splice(i, i, new), 0, TotalSize)
  <1>1. i \in 1 .. Len(blocks) /\ Len(blocks) \in Nat /\ i \in i .. Len(blocks)
    BY BlocksTyped
  <1>2. \A k \in 1 .. Len(blocks) - 1 : ~(blocks[k].available /\ blocks[k + 1].available)
    BY DEF BlocksListed, Lists
  <1>3. i > 1 => ~blocks[i - 1].available
    <2> HAVE i > 1
    <2>1. i - 1 \in 1 .. Len(blocks) - 1 /\ i - 1 + 1 = i
      BY <1>1
    <2> QED BY <2>1, <1>2
  <1>4. i < Len(blocks) => ~blocks[i + 1].available
    <2> HAVE i < Len(blocks)
    <2>1. i \in 1 .. Len(blocks) - 1
      BY <1>1
    <2> QED BY <2>1, <1>2
  <1> QED BY <1>1, <1>3, <1>4, SpliceLists DEF BlocksListed

\* alloc keeps the list: it takes the end of a block that was available.
LEMMA AllocListed ==
    ASSUME BlocksListed, NEW wantedSize \in Nat, Alloc(wantedSize)
    PROVE  BlocksListed'
  <1> DEFINE size == PageRounded(wantedSize)
  <1>1. CASE UNCHANGED blocks
    BY <1>1 DEF BlocksListed, Lists
  <1>2. ASSUME wantedSize > 0, NEW i \in DOMAIN blocks, BestFit(i, size),
               blocks' = Splice(i, i, TakeEnd(blocks[i], size))
        PROVE  BlocksListed'
    <2>1. size \in Nat /\ 0 < size
      BY <1>2, PageRoundedPositive
    <2>2. blocks[i].available /\ size <= blocks[i].size
      BY <1>2, <2>1, BlocksTyped DEF BestFit, Fitting
    <2>3. blocks[i] \in BlockType
      BY BlocksTyped
    <2> HIDE DEF size
    <2>4. Lists(TakeEnd(blocks[i], size), blocks[i].offset, End(blocks[i]))
      BY <2>1, <2>2, <2>3, TakeEndLists
    <2>5. Lists(Splice(i, i, TakeEnd(blocks[i], size)), 0, TotalSize)
      BY <2>2, <2>4, SplitListed
    <2> QED BY <1>2, <2>5 DEF BlocksListed
  <1> QED BY <1>1, <1>2 DEF Alloc, Refuse

\* allocFixed keeps the list when the request ends in the block it starts in.
LEMMA AllocFixedListed ==
    ASSUME BlocksListed, MayOverrun = FALSE,
           NEW wantedSize \in Nat, NEW offset \in Nat, AllocFixed(wantedSize, offset)
    PROVE  BlocksListed'
  <1> DEFINE size == PageRounded(wantedSize)
  <1>1. CASE UNCHANGED blocks
    BY <1>1 DEF BlocksListed, Lists
  <1>2. ASSUME wantedSize > 0, ~Overruns(size, offset), NEW i \in Holding(size, offset),
               blocks' = Splice(i, i, TakeAt(blocks[i], size, offset))
        PROVE  BlocksListed'
    <2>1. size \in Nat /\ 0 < size
      BY <1>2, PageRoundedPositive
    <2>2. i \in DOMAIN blocks /\ blocks[i].available /\ blocks[i].offset <= offset
      BY <1>2 DEF Holding, Fitting
    <2>3. /\ blocks[i] \in BlockType /\ End(blocks[i]) <= TotalSize
          /\ blocks[i].size \in Nat /\ blocks[i].offset \in Nat
      BY <2>2, BlocksTyped
    <2>4. size <= blocks[i].size
      BY <1>2, <2>1, <2>3 DEF Holding, Fitting
    <2>5. offset + size <= End(blocks[i])
      BY <1>2, <2>1, <2>3 DEF Overruns, End
    <2> HIDE DEF size
    <2>6. Lists(TakeAt(blocks[i], size, offset), blocks[i].offset, End(blocks[i]))
      BY <2>1, <2>2, <2>3, <2>4, <2>5, TakeAtLists
    <2>7. Lists(Splice(i, i, TakeAt(blocks[i], size, offset)), 0, TotalSize)
      BY <2>2, <2>6, SplitListed
    <2> QED BY <1>2, <2>7 DEF BlocksListed
  <1> QED BY <1>1, <1>2 DEF AllocFixed, Refuse

\* A block given back is merged with the neighbours that are available; those beyond them
\* are not, since two neighbours never both are.
LEMMA FreeListed ==
    ASSUME BlocksListed, NEW i \in DOMAIN blocks, ReleaseBlock(i)
    PROVE  BlocksListed'
  <1> DEFINE f == FirstMerged(i)
             l == LastMerged(i)
             m == Len(blocks)
             lo == blocks[f].offset
             hi == End(blocks[l])
             new == <<Block(lo, hi - lo, TRUE)>>
  <1>1. blocks \in Seq(BlockType) /\ m \in Nat /\ i \in 1 .. m /\ DOMAIN blocks = 1 .. m
    BY BlocksTyped DEF BlocksListed, Lists
  <1>2. /\ \A k \in 1 .. m - 1 : blocks[k + 1].offset = End(blocks[k])
        /\ \A k \in 1 .. m - 1 : ~(blocks[k].available /\ blocks[k + 1].available)
    BY DEF BlocksListed, Lists
  <1>3. \A k \in 1 .. m : /\ blocks[k].offset \in Nat /\ End(blocks[k]) \in Nat
                          /\ blocks[k].offset < End(blocks[k])
    BY <1>1, BlocksTyped DEF End
  <1> HIDE DEF m
  <1>4. /\ f \in 1 .. i /\ (f = i \/ f = i - 1) /\ (f = i - 1 => blocks[f].available)
        /\ (f > 1 => ~blocks[f - 1].available)
    <2>1. CASE AvailableAt(i - 1)
      <3>1. f = i - 1 /\ f \in 1 .. i /\ blocks[f].available
        BY <2>1, <1>1 DEF FirstMerged, AvailableAt
      <3>2. ASSUME f > 1 PROVE ~blocks[f - 1].available
        <4>1. i - 2 \in 1 .. m - 1 /\ i - 2 + 1 = i - 1 /\ f - 1 = i - 2
          BY <3>1, <3>2, <1>1
        <4>2. ~(blocks[i - 2].available /\ blocks[i - 1].available)
          BY <4>1, <1>2
        <4> QED BY <3>1, <4>1, <4>2
      <3> QED BY <3>1, <3>2
    <2>2. CASE ~AvailableAt(i - 1)
      <3>1. f = i
        BY <2>2 DEF FirstMerged
      <3>2. ASSUME i > 1 PROVE ~blocks[i - 1].available
        <4>1. i - 1 \in 1 .. m
          BY <3>2, <1>1
        <4> QED BY <4>1, <2>2, <1>1 DEF AvailableAt
      <3> HIDE DEF f
      <3> QED BY <3>1, <3>2, <1>1
    <2> QED BY <2>1, <2>2
  <1>5. /\ l \in i .. m /\ (l = i \/ l = i + 1)
        /\ (l < m => ~blocks[l + 1].available)
    <2>1. CASE AvailableAt(i + 1)
      <3>1. l = i + 1 /\ l \in i .. m /\ blocks[l].available
        BY <2>1, <1>1 DEF LastMerged, AvailableAt
      <3>2. ASSUME l < m PROVE ~blocks[l + 1].available
        <4>1. l \in 1 .. m - 1
          BY <3>1, <3>2, <1>1
        <4> QED BY <4>1, <3>1, <1>2
      <3> QED BY <3>1, <3>2
    <2>2. CASE ~AvailableAt(i + 1)
      <3>1. l = i
        BY <2>2 DEF LastMerged
      <3>2. ASSUME i < m PROVE ~blocks[i + 1].available
        <4>1. i + 1 \in 1 .. m
          BY <3>2, <1>1
        <4> QED BY <4>1, <2>2, <1>1 DEF AvailableAt
      <3> HIDE DEF l
      <3> QED BY <3>1, <3>2, <1>1
    <2> QED BY <2>1, <2>2
  <1>6. blocks' = Splice(f, l, new)
    BY DEF ReleaseBlock
  <1> HIDE DEF f, l
  <1>7. lo \in Nat /\ hi \in Nat /\ lo < hi
    <2>1. f \in 1 .. m /\ l \in 1 .. m
      BY <1>1, <1>4, <1>5
    <2>2. lo \in Nat /\ hi \in Nat
      BY <2>1, <1>3
    <2>3. lo <= blocks[i].offset
      <3>1. CASE f = i
        BY <3>1, <1>1, <1>3
      <3>2. CASE f = i - 1
        <4>1. f \in 1 .. m - 1 /\ f + 1 = i
          BY <3>2, <1>1, <1>4
        <4>2. blocks[i].offset = End(blocks[f])
          BY <4>1, <1>2
        <4> QED BY <4>2, <2>1, <1>3
      <3> QED BY <3>1, <3>2, <1>4
    <2>4. End(blocks[i]) <= hi
      <3>1. CASE l = i
        BY <3>1, <1>1, <1>3
      <3>2. CASE l = i + 1
        <4>1. i \in 1 .. m - 1
          BY <3>2, <1>1, <1>5
        <4>2. blocks[l].offset = End(blocks[i])
          BY <4>1, <3>2, <1>2
        <4> QED BY <4>2, <2>1, <1>1, <1>3
      <3> QED BY <3>1, <3>2, <1>5
    <2>5. blocks[i].offset \in Nat /\ End(blocks[i]) \in Nat /\ blocks[i].offset < End(blocks[i])
      BY <1>1, <1>3
    <2> HIDE DEF lo, hi
    <2> QED BY <2>2, <2>3, <2>4, <2>5
  <1>8. Lists(new, lo, hi)
    <2> HIDE DEF lo, hi
    <2> QED BY <1>7, OneLists
  <1>9. /\ f \in 1 .. Len(blocks) /\ l \in f .. Len(blocks)
        /\ (f > 1 => ~(blocks[f - 1].available /\ new[1].available))
        /\ (l < Len(blocks) => ~(new[Len(new)].available /\ blocks[l + 1].available))
    <2>1. f \in 1 .. m /\ l \in f .. m
      BY <1>1, <1>4, <1>5
    <2> QED BY <2>1, <1>4, <1>5 DEF m
  <1> HIDE DEF new
  <1>10. Lists(Splice(f, l, new), 0, TotalSize)
    BY <1>8, <1>9, SpliceLists DEF BlocksListed
  <1> QED BY <1>6, <1>10 DEF BlocksListed

\* The list the allocator starts with, and that freeAll puts back.
LEMMA SeedLists == Lists(Seed, 0, TotalSize)
  <1>1. 0 \in Nat /\ TotalSize \in Nat /\ 0 < TotalSize /\ TotalSize - 0 = TotalSize
    BY SubAllocatorAssumption
  <1>2. Lists(<<Block(0, TotalSize - 0, TRUE)>>, 0, TotalSize)
    BY <1>1, OneLists
  <1> QED BY <1>1, <1>2 DEF Seed

\* Every call keeps both lists.
LEMMA StepListed ==
    ASSUME IInv, MayOverrun = FALSE, [Next]_vars
    PROVE  IInv'
  <1> USE DEF IInv
  <1>0. TotalSize \in Nat
    BY SubAllocatorAssumption
  <1>1. ASSUME UNCHANGED snapshot PROVE SnapshotListed'
    BY <1>1 DEF SnapshotListed, Lists
  <1>2. ASSUME UNCHANGED blocks PROVE BlocksListed'
    BY <1>2 DEF BlocksListed, Lists
  <1>3. ASSUME NEW size \in 0 .. TotalSize + 1, Alloc(size) PROVE IInv'
    <2>1. size \in Nat
      BY <1>0
    <2>2. UNCHANGED snapshot
      BY <1>3 DEF Alloc
    <2> QED BY <1>1, <1>3, <2>1, <2>2, AllocListed
  <1>4. ASSUME NEW size \in 0 .. TotalSize + 1, NEW offset \in 0 .. TotalSize, AllocFixed(size, offset)
        PROVE  IInv'
    <2>1. size \in Nat /\ offset \in Nat
      BY <1>0
    <2>2. UNCHANGED snapshot
      BY <1>4 DEF AllocFixed
    <2> QED BY <1>1, <1>4, <2>1, <2>2, AllocFixedListed
  <1>5. ASSUME NEW offset \in 0 .. TotalSize, Free(offset) PROVE IInv'
    <2>1. UNCHANGED snapshot
      BY <1>5 DEF Free
    <2>2. CASE UNCHANGED blocks
      BY <2>1, <2>2, <1>1, <1>2
    <2>3. CASE \E i \in Freed(offset) : ReleaseBlock(i)
      <3>1. PICK i \in Freed(offset) : ReleaseBlock(i)
        BY <2>3
      <3>2. i \in DOMAIN blocks
        BY DEF Freed
      <3> QED BY <3>1, <3>2, <2>1, <1>1, FreeListed
    <2> QED BY <1>5, <2>2, <2>3 DEF Free, Refuse
  <1>6. CASE FreeAll
    BY <1>6, <1>1, SeedLists DEF FreeAll, BlocksListed
  <1>7. CASE Save
    <2>1. UNCHANGED blocks /\ snapshot'.blocks = blocks
      BY <1>7 DEF Save
    <2> QED BY <2>1, <1>2 DEF BlocksListed, SnapshotListed
  <1>8. CASE Load
    <2>1. UNCHANGED snapshot /\ blocks' = snapshot.blocks
      BY <1>8 DEF Load
    <2> QED BY <2>1, <1>1 DEF BlocksListed, SnapshotListed
  <1>9. CASE UNCHANGED vars
    BY <1>9, <1>1, <1>2 DEF vars
  <1> QED BY <1>3, <1>4, <1>5, <1>6, <1>7, <1>8, <1>9 DEF Next

----------------------------------------------------------------------------
(* Results.                                                                 *)

\* The lists are as they should be in every reachable state.
THEOREM Listed ==
    ASSUME MayOverrun = FALSE
    PROVE  Spec => []IInv
  <1>1. Init => IInv
    BY SeedLists DEF Init, IInv, BlocksListed, SnapshotListed
  <1>2. IInv /\ [Next]_vars => IInv'
    BY StepListed
  <1> QED BY <1>1, <1>2, PTL DEF Spec

\* The invariant stated at address_space.h:51 holds, in the allocator and in a snapshot.
THEOREM BlocksTile ==
    ASSUME MayOverrun = FALSE
    PROVE  Spec => []Tiling
  <1>1. IInv => Tiling
    BY DEF IInv, BlocksListed, SnapshotListed, Lists, Tiling, Tiles
  <1> QED BY <1>1, Listed, PTL

\* Two neighbours are never both available.
THEOREM BlocksMerged ==
    ASSUME MayOverrun = FALSE
    PROVE  Spec => []Coalesced
  <1>1. IInv => Coalesced
    BY DEF IInv, BlocksListed, SnapshotListed, Lists, Coalesced, Merged
  <1> QED BY <1>1, Listed, PTL

----------------------------------------------------------------------------
(* The bytes of a list: each is in one block.                               *)

\* The well-ordering of the naturals, which stands for induction on an index.
LEMMA LeastNatural ==
    ASSUME NEW T \in SUBSET Nat, T # {}
    PROVE  \E m \in T : \A k \in T : m <= k
  <1> DEFINE R == OpToRel(<, Nat)
  <1>1. IsWellFoundedOn(R, Nat)
    BY NatLessThanWellFounded
  <1>2. \A x, y \in Nat : x < y => <<x, y>> \in R
    BY DEF OpToRel
  <1> HIDE DEF R
  <1>3. PICK m \in T : \A k \in T : ~(<<k, m>> \in R)
    BY <1>1, WFMin, Zenon
  <1>4. ASSUME NEW k \in T PROVE m <= k
    <2>1. k \in Nat /\ m \in Nat
      OBVIOUS
    <2>2. ~(k < m)
      BY <1>2, <1>3, <2>1
    <2> QED BY <2>1, <2>2
  <1> QED BY <1>4

\* The blocks of a list as numbers.
LEMMA ListNumbers ==
    ASSUME NEW s, NEW lo, NEW hi, Lists(s, lo, hi)
    PROVE  /\ Len(s) \in Nat /\ Len(s) >= 1 /\ DOMAIN s = 1 .. Len(s)
           /\ \A k \in 1 .. Len(s) : /\ s[k] \in BlockType
                                     /\ s[k].offset \in Nat /\ s[k].size \in Nat
                                     /\ End(s[k]) \in Nat /\ s[k].offset < End(s[k])
           /\ \A k \in 1 .. Len(s) - 1 : /\ s[k + 1].offset = End(s[k])
                                         /\ ~(s[k].available /\ s[k + 1].available)
  <1>1. s \in Seq(BlockType) /\ s # <<>>
    BY DEF Lists
  <1>2. Len(s) \in Nat /\ Len(s) >= 1 /\ DOMAIN s = 1 .. Len(s)
    BY <1>1, EmptySeq
  <1>3. ASSUME NEW k \in 1 .. Len(s)
        PROVE  /\ s[k] \in BlockType
               /\ s[k].offset \in Nat /\ s[k].size \in Nat
               /\ End(s[k]) \in Nat /\ s[k].offset < End(s[k])
    <2>1. s[k] \in BlockType
      BY <1>1, <1>2, ElementOfSeq
    <2>2. s[k].size > 0
      BY DEF Lists
    <2> QED BY <2>1, <2>2 DEF BlockType, End
  <1> QED BY <1>2, <1>3 DEF Lists

\* A block ends before the ones behind it begin.
LEMMA ListOrdered ==
    ASSUME NEW s, NEW lo, NEW hi, Lists(s, lo, hi),
           NEW i \in 1 .. Len(s), NEW j \in 1 .. Len(s), i < j
    PROVE  End(s[i]) <= s[j].offset
  <1> DEFINE T == {n \in 1 .. Len(s) : i < n /\ ~(End(s[i]) <= s[n].offset)}
  <1>1. /\ Len(s) \in Nat
        /\ \A k \in 1 .. Len(s) : /\ s[k].offset \in Nat /\ End(s[k]) \in Nat
                                  /\ s[k].offset < End(s[k])
        /\ \A k \in 1 .. Len(s) - 1 : s[k + 1].offset = End(s[k])
    BY ListNumbers
  <1>2. SUFFICES ASSUME T # {} PROVE FALSE
    BY <1>1
  <1>3. PICK n \in T : \A k \in T : n <= k
    <2>1. T \in SUBSET Nat
      BY <1>1
    <2> QED BY <1>2, <2>1, LeastNatural
  <1>4. n \in 2 .. Len(s) /\ i < n /\ ~(End(s[i]) <= s[n].offset)
    BY <1>1, <1>3
  <1>5. n - 1 \in 1 .. Len(s) - 1 /\ n - 1 \in 1 .. Len(s) /\ (n - 1) + 1 = n
    BY <1>1, <1>4
  <1>6. s[n].offset = End(s[n - 1])
    BY <1>1, <1>5
  <1>7. i # n - 1
    BY <1>1, <1>4, <1>6
  <1>8. n - 1 \in T
    BY <1>1, <1>4, <1>5, <1>6, <1>7, SMTT(30)
  <1> QED BY <1>3, <1>4, <1>8

\* Every byte is in a block.
LEMMA ByteListed ==
    ASSUME NEW s, NEW lo, NEW hi \in Nat, Lists(s, lo, hi),
           NEW o \in Nat, lo <= o, o < hi
    PROVE  \E i \in 1 .. Len(s) : s[i].offset <= o /\ o < End(s[i])
  <1> DEFINE T == {n \in 1 .. Len(s) : o < End(s[n])}
  <1>1. /\ Len(s) \in Nat /\ Len(s) >= 1
        /\ \A k \in 1 .. Len(s) : s[k].offset \in Nat /\ End(s[k]) \in Nat
        /\ \A k \in 1 .. Len(s) - 1 : s[k + 1].offset = End(s[k])
    BY ListNumbers
  <1>2. s[1].offset = lo /\ End(s[Len(s)]) = hi
    BY DEF Lists
  <1>3. PICK n \in T : \A k \in T : n <= k
    <2>1. T \in SUBSET Nat /\ Len(s) \in T
      BY <1>1, <1>2
    <2> QED BY <2>1, LeastNatural
  <1>4. CASE n = 1
    BY <1>1, <1>2, <1>3, <1>4
  <1>5. CASE n # 1
    <2>1. n - 1 \in 1 .. Len(s) - 1 /\ n - 1 \in 1 .. Len(s) /\ (n - 1) + 1 = n
      BY <1>1, <1>3, <1>5
    <2>2. n - 1 \notin T
      BY <1>1, <1>3, <2>1
    <2>a. ~(o < End(s[n - 1]))
      BY <2>1, <2>2
    <2>b. End(s[n - 1]) \in Nat
      BY <1>1, <2>1
    <2>3. End(s[n - 1]) <= o
      BY <2>a, <2>b
    <2> QED BY <1>1, <1>3, <2>1, <2>3
  <1> QED BY <1>4, <1>5

----------------------------------------------------------------------------
(* The ranges that are out.                                                 *)

Bytes(b) == [offset |-> b.offset, size |-> b.size]

\* A range is out when a block that is not available holds it.
LEMMA UsedIs ==
    ASSUME NEW s \in Seq(BlockType), NEW r
    PROVE  r \in Used(s) <=> \E k \in 1 .. Len(s) : ~s[k].available /\ r = Bytes(s[k])
  <1>1. DOMAIN s = 1 .. Len(s)
    OBVIOUS
  <1> QED BY <1>1 DEF Used, Bytes

\* A splice gives up the ranges of the blocks it replaces for those of the new ones.
LEMMA SpliceUsed ==
    ASSUME blocks \in Seq(BlockType),
           NEW i \in 1 .. Len(blocks), NEW j \in i .. Len(blocks), NEW new \in Seq(BlockType),
           NEW r
    PROVE  r \in Used(Splice(i, j, new)) <=>
               \/ r \in Used(new)
               \/ \E k \in 1 .. Len(blocks) :
                      (k < i \/ j < k) /\ ~blocks[k].available /\ r = Bytes(blocks[k])
  <1> DEFINE s == Splice(i, j, new)
             m == Len(blocks)
             n == Len(new)
             Out(b) == ~b.available /\ r = Bytes(b)
  <1>1. /\ s \in Seq(BlockType) /\ Len(s) = m - (j - i + 1) + n
        /\ \A k \in 1 .. i - 1 : s[k] = blocks[k]
        /\ \A k \in 1 .. n : s[i - 1 + k] = new[k]
        /\ \A k \in 1 .. m - j : s[i - 1 + n + k] = blocks[j + k]
    BY SpliceIndex
  <1>2. m \in Nat /\ n \in Nat /\ i \in Int /\ 1 <= i /\ i <= j /\ j \in Int /\ j <= m
    BY LenProperties
  <1>3. r \in Used(s) <=> \E k \in 1 .. Len(s) : Out(s[k])
    BY <1>1, UsedIs
  <1>4. r \in Used(new) <=> \E k \in 1 .. n : Out(new[k])
    BY UsedIs
  <1> HIDE DEF s, m, n, Out
  <1>5. ASSUME NEW k \in 1 .. Len(s), Out(s[k])
        PROVE  \/ \E h \in 1 .. n : Out(new[h])
               \/ \E h \in 1 .. m : (h < i \/ j < h) /\ Out(blocks[h])
    <2>1. CASE k < i
      <3>1. k \in 1 .. i - 1 /\ k \in 1 .. m
        BY <1>1, <1>2, <2>1
      <3> QED BY <1>1, <1>5, <2>1, <3>1
    <2>2. CASE i <= k /\ k <= i - 1 + n
      <3>1. k - i + 1 \in 1 .. n /\ i - 1 + (k - i + 1) = k
        BY <1>1, <1>2, <2>2
      <3> QED BY <1>1, <1>5, <3>1
    <2>3. CASE i - 1 + n < k
      <3>1. /\ k - (i - 1 + n) \in 1 .. m - j /\ i - 1 + n + (k - (i - 1 + n)) = k
            /\ j + (k - (i - 1 + n)) \in 1 .. m /\ j < j + (k - (i - 1 + n))
        BY <1>1, <1>2, <2>3
      <3> QED BY <1>1, <1>5, <3>1
    <2> QED BY <1>1, <1>2, <2>1, <2>2, <2>3
  <1>6. ASSUME NEW h \in 1 .. n, Out(new[h]) PROVE \E k \in 1 .. Len(s) : Out(s[k])
    <2>1. i - 1 + h \in 1 .. Len(s)
      BY <1>1, <1>2
    <2> QED BY <1>1, <1>6, <2>1
  <1>7. ASSUME NEW h \in 1 .. m, h < i \/ j < h, Out(blocks[h])
        PROVE  \E k \in 1 .. Len(s) : Out(s[k])
    <2>1. CASE h < i
      <3>1. h \in 1 .. i - 1 /\ h \in 1 .. Len(s)
        BY <1>1, <1>2, <2>1
      <3> QED BY <1>1, <1>7, <3>1
    <2>2. CASE j < h
      <3>1. /\ h - j \in 1 .. m - j /\ j + (h - j) = h
            /\ i - 1 + n + (h - j) \in 1 .. Len(s)
        BY <1>1, <1>2, <2>2
      <3> QED BY <1>1, <1>7, <3>1
    <2> QED BY <1>7, <2>1, <2>2
  <1>8. r \in Used(s) <=> \/ r \in Used(new)
                          \/ \E h \in 1 .. m : (h < i \/ j < h) /\ Out(blocks[h])
    BY <1>3, <1>4, <1>5, <1>6, <1>7
  <1> QED BY <1>8 DEF s, m, Out

\* A grant: an available block gives way to blocks of which one is out.
LEMMA GrantUsed ==
    ASSUME BlocksListed, NEW i \in DOMAIN blocks, blocks[i].available,
           NEW new \in Seq(BlockType), NEW range, \A r : r \in Used(new) <=> r = range
    PROVE  Used(Splice(i, i, new)) = Used(blocks) \cup {range}
  <1>1. blocks \in Seq(BlockType) /\ i \in 1 .. Len(blocks) /\ Len(blocks) \in Nat
    BY BlocksTyped DEF BlocksListed, Lists
  <1>2. i \in i .. Len(blocks)
    BY <1>1
  <1>3. ASSUME NEW r
        PROVE  r \in Used(Splice(i, i, new)) <=> r \in Used(blocks) \/ r = range
    <2>1. r \in Used(Splice(i, i, new)) <=>
              \/ r = range
              \/ \E k \in 1 .. Len(blocks) :
                     (k < i \/ i < k) /\ ~blocks[k].available /\ r = Bytes(blocks[k])
      BY <1>1, <1>2, SpliceUsed
    <2>2. \A k \in 1 .. Len(blocks) : ~blocks[k].available => k < i \/ i < k
      <3>1. \A k \in 1 .. Len(blocks) : k = i \/ k < i \/ i < k
        BY <1>1
      <3> QED BY <3>1
    <2>3. r \in Used(blocks) <=>
              \E k \in 1 .. Len(blocks) : ~blocks[k].available /\ r = Bytes(blocks[k])
      BY <1>1, UsedIs
    <2> QED BY <2>1, <2>2, <2>3
  <1> QED BY <1>3

\* The ranges that are out in a list of one block.
LEMMA OneUsed ==
    ASSUME NEW b \in BlockType, NEW r
    PROVE  <<b>> \in Seq(BlockType) /\ (r \in Used(<<b>>) <=> ~b.available /\ r = Bytes(b))
  <1> DEFINE s == <<b>>
  <1>1. s \in Seq(BlockType) /\ 1 .. Len(s) = {1} /\ s[1] = b
    OBVIOUS
  <1> HIDE DEF s
  <1>2. r \in Used(s) <=> \E k \in {1} : ~s[k].available /\ r = Bytes(s[k])
    BY <1>1, UsedIs
  <1>3. s \in Seq(BlockType) /\ (r \in Used(s) <=> ~b.available /\ r = Bytes(b))
    BY <1>1, <1>2
  <1> QED BY <1>3 DEF s

\* split_block takes the end of the block.
LEMMA TakeEndUsed ==
    ASSUME NEW b \in BlockType, b.available, NEW size \in Nat, 0 < size, size <= b.size, NEW r
    PROVE  /\ TakeEnd(b, size) \in Seq(BlockType)
           /\ r \in Used(TakeEnd(b, size)) <=> r = [offset |-> End(b) - size, size |-> size]
  <1>0. b.offset \in Nat /\ b.size \in Nat
    BY DEF BlockType
  <1>1. CASE b.size = size
    <2> DEFINE c == [b EXCEPT !.available = FALSE]
    <2>1. c \in BlockType /\ c.offset = b.offset /\ c.size = b.size /\ ~c.available
      BY DEF BlockType
    <2>2. TakeEnd(b, size) = <<c>> /\ End(b) - size = b.offset
      BY <1>0, <1>1 DEF TakeEnd, End
    <2> HIDE DEF c
    <2>3. c.available = FALSE
      BY <2>1
    <2>4. <<c>> \in Seq(BlockType) /\ (r \in Used(<<c>>) <=> r = Bytes(c))
      BY <2>1, <2>3, OneUsed
    <2>5. Bytes(c) = [offset |-> End(b) - size, size |-> size]
      BY <1>1, <2>1, <2>2 DEF Bytes
    <2> QED BY <2>2, <2>4, <2>5
  <1>2. CASE b.size # size
    <2> DEFINE c == [b EXCEPT !.size = @ - size]
               e == Block(End(b) - size, size, FALSE)
    <2>1. b.size - size \in Nat /\ End(b) - size \in Nat
      BY <1>0, <1>2 DEF End
    <2>2. c \in BlockType /\ c.available
      BY <2>1 DEF BlockType
    <2>3. e \in BlockType /\ e.offset = End(b) - size /\ e.size = size /\ ~e.available
      <3>1. PICK o \in Nat : o = End(b) - size
        BY <2>1
      <3>2. e = Block(o, size, FALSE)
        BY <3>1
      <3> HIDE DEF e
      <3> QED BY <3>1, <3>2, BlockFields
    <2>4. TakeEnd(b, size) = <<c, e>>
      BY <1>2 DEF TakeEnd
    <2> HIDE DEF c, e
    <2>5. <<c, e>> \in Seq(BlockType) /\ 1 .. Len(<<c, e>>) = {1, 2}
          /\ <<c, e>>[1] = c /\ <<c, e>>[2] = e
      BY <2>2, <2>3
    <2>6. r \in Used(<<c, e>>) <=> r = Bytes(e)
      <3> DEFINE s == <<c, e>>
      <3>1. s \in Seq(BlockType) /\ 1 .. Len(s) = {1, 2} /\ s[1].available /\ s[2] = e
        BY <2>2, <2>5
      <3> HIDE DEF s
      <3>2. r \in Used(s) <=> \E k \in 1 .. Len(s) : ~s[k].available /\ r = Bytes(s[k])
        BY <3>1, UsedIs
      <3>3. r \in Used(s) <=> \E k \in {1, 2} : ~s[k].available /\ r = Bytes(s[k])
        BY <3>1, <3>2
      <3>4. r \in Used(s) <=> r = Bytes(e)
        BY <2>3, <3>1, <3>3
      <3> QED BY <3>4 DEF s
    <2> QED BY <2>3, <2>4, <2>5, <2>6 DEF Bytes
  <1> QED BY <1>1, <1>2

\* Two lists one behind the other.
LEMMA ConcatUsed ==
    ASSUME NEW s \in Seq(BlockType), NEW t \in Seq(BlockType), NEW r
    PROVE  /\ s \o t \in Seq(BlockType)
           /\ r \in Used(s \o t) <=> r \in Used(s) \/ r \in Used(t)
  <1> DEFINE u == s \o t
             m == Len(s)
             n == Len(t)
             Out(b) == ~b.available /\ r = Bytes(b)
  <1>1. /\ u \in Seq(BlockType) /\ Len(u) = m + n
        /\ \A k \in 1 .. m + n : u[k] = IF k <= m THEN s[k] ELSE t[k - m]
    BY ConcatProperties
  <1>2. m \in Nat /\ n \in Nat
    BY LenProperties
  <1>3. /\ r \in Used(u) <=> \E k \in 1 .. m + n : Out(u[k])
        /\ r \in Used(s) <=> \E k \in 1 .. m : Out(s[k])
        /\ r \in Used(t) <=> \E k \in 1 .. n : Out(t[k])
    <2>1. r \in Used(s) <=> \E k \in 1 .. m : Out(s[k])
      BY UsedIs
    <2>2. r \in Used(t) <=> \E k \in 1 .. n : Out(t[k])
      BY UsedIs
    <2>3. r \in Used(u) <=> \E k \in 1 .. Len(u) : Out(u[k])
      <3> HIDE DEF u
      <3> QED BY <1>1, UsedIs
    <2> QED BY <1>1, <2>1, <2>2, <2>3
  <1> HIDE DEF u, m, n, Out
  <1>4. ASSUME NEW k \in 1 .. m + n, Out(u[k])
        PROVE  (\E h \in 1 .. m : Out(s[h])) \/ (\E h \in 1 .. n : Out(t[h]))
    <2>1. CASE k <= m
      BY <1>1, <1>2, <1>4, <2>1
    <2>2. CASE ~(k <= m)
      <3>1. k - m \in 1 .. n
        BY <1>2, <2>2
      <3> QED BY <1>1, <1>4, <2>2, <3>1
    <2> QED BY <2>1, <2>2
  <1>5. ASSUME NEW h \in 1 .. m, Out(s[h]) PROVE \E k \in 1 .. m + n : Out(u[k])
    <2>1. h \in 1 .. m + n /\ h <= m
      BY <1>2
    <2> QED BY <1>1, <1>5, <2>1
  <1>6. ASSUME NEW h \in 1 .. n, Out(t[h]) PROVE \E k \in 1 .. m + n : Out(u[k])
    <2>1. m + h \in 1 .. m + n /\ ~(m + h <= m) /\ (m + h) - m = h
      BY <1>2
    <2>2. u[m + h] = t[(m + h) - m]
      BY <1>1, <2>1
    <2>3. Out(u[m + h])
      BY <1>6, <2>1, <2>2
    <2> QED BY <2>1, <2>3
  <1>7. u \in Seq(BlockType) /\ (r \in Used(u) <=> r \in Used(s) \/ r \in Used(t))
    BY <1>1, <1>3, <1>4, <1>5, <1>6
  <1> QED BY <1>7 DEF u

\* No block, no range.
LEMMA NoneUsed == <<>> \in Seq(BlockType) /\ Used(<<>>) = {}
  BY DEF Used

\* split_block_at_offset: what is before and behind the request stays available.
LEMMA TakeAtUsed ==
    ASSUME NEW b \in BlockType, b.available,
           NEW size \in Nat, 0 < size, size <= b.size,
           NEW offset \in Nat, b.offset <= offset, offset + size <= End(b), NEW r
    PROVE  /\ TakeAt(b, size, offset) \in Seq(BlockType)
           /\ r \in Used(TakeAt(b, size, offset)) <=> r = [offset |-> offset, size |-> size]
  <1>0. b.offset \in Nat /\ b.size \in Nat /\ End(b) = b.offset + b.size
    BY DEF BlockType, End
  <1>1. CASE b.size = size
    <2> DEFINE c == [b EXCEPT !.available = FALSE]
    <2>1. c \in BlockType /\ c.offset = b.offset /\ c.size = b.size /\ ~c.available
      BY DEF BlockType
    <2>2. TakeAt(b, size, offset) = <<c>> /\ offset = b.offset
      BY <1>0, <1>1 DEF TakeAt
    <2> HIDE DEF c
    <2> QED BY <1>1, <2>1, <2>2, OneUsed DEF Bytes
  <1>2. CASE b.size # size
    <2> DEFINE head == IF offset = b.offset THEN <<>> ELSE <<Block(b.offset, offset - b.offset, TRUE)>>
               taken == <<Block(offset, size, FALSE)>>
               slop == Slop(b, size, offset)
    <2>1. TakeAt(b, size, offset) = (head \o taken) \o slop
      BY <1>2 DEF TakeAt
    <2>2. head \in Seq(BlockType) /\ r \notin Used(head)
      <3>1. CASE offset = b.offset
        BY <3>1, NoneUsed
      <3>2. CASE offset # b.offset
        <4> DEFINE c == Block(b.offset, offset - b.offset, TRUE)
        <4>1. PICK o \in Nat, k \in Nat : o = b.offset /\ k = offset - b.offset
          BY <1>0
        <4>2. c = Block(o, k, TRUE)
          BY <4>1
        <4> HIDE DEF c
        <4>3. c \in BlockType /\ c.available = TRUE
          BY <4>2, BlockFields
        <4>4. <<c>> \in Seq(BlockType) /\ r \notin Used(<<c>>)
          BY <4>3, OneUsed
        <4> QED BY <3>2, <4>4 DEF c
      <3> QED BY <3>1, <3>2
    <2>3. taken \in Seq(BlockType) /\ (r \in Used(taken) <=> r = [offset |-> offset, size |-> size])
      <3> DEFINE c == Block(offset, size, FALSE)
      <3>0. FALSE \in BOOLEAN /\ offset \in Nat /\ size \in Nat
        OBVIOUS
      <3>a. c \in BlockType
        BY <3>0 DEF Block, BlockType
      <3>b. c.available = FALSE /\ c.offset = offset /\ c.size = size
        BY <3>0 DEF Block
      <3>1. c \in BlockType /\ c.available = FALSE /\ c.offset = offset /\ c.size = size
        BY <3>a, <3>b
      <3> HIDE DEF c
      <3>2. <<c>> \in Seq(BlockType) /\ (r \in Used(<<c>>) <=> r = Bytes(c))
        BY <3>1, OneUsed
      <3> QED BY <3>1, <3>2 DEF c, Bytes
    <2>4. slop \in Seq(BlockType) /\ r \notin Used(slop)
      <3>1. CASE offset + size = End(b)
        BY <3>1, NoneUsed DEF Slop
      <3>2. CASE offset + size # End(b)
        <4> DEFINE w == (End(b) - (offset + size)) % Word
                   c == Block(offset + size, w, TRUE)
        <4>1. w \in Nat
          <5> DEFINE d == End(b) - (offset + size)
          <5>1. d \in Int /\ Word \in Nat /\ Word > 0
            BY <1>0, SubAllocatorAssumption
          <5> HIDE DEF d
          <5>2. d % Word \in Nat
            BY <5>1
          <5> QED BY <5>2 DEF d
        <4>2. slop = <<c>>
          BY <3>2 DEF Slop
        <4> HIDE DEF w
        <4>3. c \in BlockType /\ c.available = TRUE
          <5>1. offset + size \in Nat
            OBVIOUS
          <5> QED BY <4>1, <5>1, BlockFields
        <4> HIDE DEF c
        <4>4. <<c>> \in Seq(BlockType) /\ r \notin Used(<<c>>)
          BY <4>3, OneUsed
        <4> QED BY <4>2, <4>4
      <3> QED BY <3>1, <3>2
    <2> HIDE DEF head, taken, slop
    <2>5. head \o taken \in Seq(BlockType)
          /\ (r \in Used(head \o taken) <=> r = [offset |-> offset, size |-> size])
      BY <2>2, <2>3, ConcatUsed
    <2>6. (head \o taken) \o slop \in Seq(BlockType)
          /\ (r \in Used((head \o taken) \o slop) <=> r = [offset |-> offset, size |-> size])
      BY <2>4, <2>5, ConcatUsed
    <2> QED BY <2>1, <2>6
  <1> QED BY <1>1, <1>2

\* A block that is given back is merged with available ones only.
LEMMA MergedNeighbours ==
    ASSUME BlocksListed, NEW i \in DOMAIN blocks
    PROVE  /\ FirstMerged(i) \in 1 .. i /\ LastMerged(i) \in i .. Len(blocks)
           /\ \A k \in FirstMerged(i) .. LastMerged(i) : k = i \/ blocks[k].available
  <1>1. i \in 1 .. Len(blocks) /\ Len(blocks) \in Nat /\ DOMAIN blocks = 1 .. Len(blocks)
    BY BlocksTyped DEF BlocksListed, Lists
  <1>2. /\ FirstMerged(i) \in 1 .. i
        /\ FirstMerged(i) = i \/ (FirstMerged(i) = i - 1 /\ blocks[i - 1].available)
    BY <1>1 DEF FirstMerged, AvailableAt
  <1>3. /\ LastMerged(i) \in i .. Len(blocks)
        /\ LastMerged(i) = i \/ (LastMerged(i) = i + 1 /\ blocks[i + 1].available)
    BY <1>1 DEF LastMerged, AvailableAt
  <1>4. ASSUME NEW k \in FirstMerged(i) .. LastMerged(i) PROVE k = i \/ blocks[k].available
    <2>1. k \in Int /\ FirstMerged(i) <= k /\ k <= LastMerged(i)
      BY <1>2, <1>3
    <2> HIDE DEF FirstMerged, LastMerged
    <2>2. \/ k = i
          \/ k = i - 1 /\ blocks[i - 1].available
          \/ k = i + 1 /\ blocks[i + 1].available
      BY <1>1, <1>2, <1>3, <2>1
    <2> QED BY <2>2
  <1> QED BY <1>2, <1>3, <1>4

\* Two blocks never begin at the same byte.
LEMMA OffsetsDiffer ==
    ASSUME BlocksListed, NEW i \in 1 .. Len(blocks), NEW k \in 1 .. Len(blocks), i # k
    PROVE  blocks[i].offset # blocks[k].offset
  <1>1. /\ Lists(blocks, 0, TotalSize) /\ Len(blocks) \in Nat
        /\ blocks[i].offset \in Nat /\ End(blocks[i]) \in Nat /\ blocks[i].offset < End(blocks[i])
        /\ blocks[k].offset \in Nat /\ End(blocks[k]) \in Nat /\ blocks[k].offset < End(blocks[k])
    BY ListNumbers DEF BlocksListed
  <1>2. i < k \/ k < i
    BY <1>1
  <1>3. CASE i < k
    <2>1. End(blocks[i]) <= blocks[k].offset
      BY <1>1, <1>3, ListOrdered
    <2> QED BY <1>1, <2>1
  <1>4. CASE k < i
    <2>1. End(blocks[k]) <= blocks[i].offset
      BY <1>1, <1>4, ListOrdered
    <2> QED BY <1>1, <2>1
  <1> QED BY <1>2, <1>3, <1>4

\* A block that is given back takes its range with it, and no other.
LEMMA ReleaseUsed ==
    ASSUME BlocksListed, NEW i \in DOMAIN blocks, ~blocks[i].available, ReleaseBlock(i)
    PROVE  /\ Used(blocks)' = {r \in Used(blocks) : r.offset # blocks[i].offset}
           /\ Used(blocks)' = Used(blocks) \ {Bytes(blocks[i])}
           /\ Bytes(blocks[i]) \in Used(blocks)
  <1> DEFINE f == FirstMerged(i)
             l == LastMerged(i)
             lo == blocks[f].offset
             hi == End(blocks[l])
             c == Block(lo, hi - lo, TRUE)
  <1>1. /\ Lists(blocks, 0, TotalSize) /\ blocks \in Seq(BlockType) /\ Len(blocks) \in Nat
        /\ i \in 1 .. Len(blocks)
    BY BlocksTyped DEF BlocksListed, Lists
  <1>2. /\ f \in 1 .. i /\ l \in i .. Len(blocks)
        /\ \A k \in f .. l : k = i \/ blocks[k].available
    BY MergedNeighbours
  <1>3. blocks' = Splice(f, l, <<c>>)
    BY DEF ReleaseBlock
  <1> HIDE DEF f, l
  <1>4. f \in 1 .. Len(blocks) /\ l \in f .. Len(blocks) /\ l \in 1 .. Len(blocks)
    BY <1>1, <1>2
  <1>5. lo \in Nat /\ hi \in Nat /\ hi - lo \in Nat
    <2>1. /\ lo \in Nat /\ End(blocks[f]) \in Nat /\ lo < End(blocks[f])
          /\ blocks[l].offset \in Nat /\ hi \in Nat /\ blocks[l].offset < hi
      BY <1>1, <1>4, ListNumbers
    <2>2. CASE f = l
      BY <2>1, <2>2
    <2>3. CASE f # l
      <3>1. f < l
        BY <1>1, <1>4, <2>3
      <3>2. End(blocks[f]) <= blocks[l].offset
        BY <1>1, <1>4, <3>1, ListOrdered
      <3> HIDE DEF lo, hi
      <3> QED BY <2>1, <3>2
    <2> QED BY <2>2, <2>3
  <1> HIDE DEF lo, hi
  <1>6. c \in BlockType /\ c.available = TRUE
    BY <1>5, BlockFields
  <1> HIDE DEF c
  <1>7. ASSUME NEW r
        PROVE  r \in Used(blocks') <=>
                   \E k \in 1 .. Len(blocks) : k # i /\ ~blocks[k].available /\ r = Bytes(blocks[k])
    <2>1. <<c>> \in Seq(BlockType) /\ r \notin Used(<<c>>)
      BY <1>6, OneUsed
    <2>2. r \in Used(blocks') <=>
              \/ r \in Used(<<c>>)
              \/ \E k \in 1 .. Len(blocks) :
                     (k < f \/ l < k) /\ ~blocks[k].available /\ r = Bytes(blocks[k])
      <3> DEFINE new == <<c>>
      <3>1. new \in Seq(BlockType) /\ blocks' = Splice(f, l, new)
        BY <1>3, <2>1
      <3> HIDE DEF new
      <3>2. r \in Used(Splice(f, l, new)) <=>
                \/ r \in Used(new)
                \/ \E k \in 1 .. Len(blocks) :
                       (k < f \/ l < k) /\ ~blocks[k].available /\ r = Bytes(blocks[k])
        BY <1>1, <1>4, <3>1, SpliceUsed
      <3>3. r \in Used(blocks') <=>
                \/ r \in Used(new)
                \/ \E k \in 1 .. Len(blocks) :
                       (k < f \/ l < k) /\ ~blocks[k].available /\ r = Bytes(blocks[k])
        BY <3>1, <3>2
      <3> QED BY <3>3 DEF new
    <2>3. ASSUME NEW k \in 1 .. Len(blocks), ~blocks[k].available
          PROVE  k < f \/ l < k <=> k # i
      <3>1. k \in f .. l \/ k < f \/ l < k
        BY <1>1, <1>4
      <3>2. k \in f .. l => k = i
        BY <1>2, <2>3
      <3>3. k < f \/ l < k => k # i
        BY <1>1, <1>2
      <3> QED BY <1>2, <3>1, <3>2, <3>3
    <2> QED BY <2>1, <2>2, <2>3
  <1>8. \A r : r \in Used(blocks) <=>
                   \E k \in 1 .. Len(blocks) : ~blocks[k].available /\ r = Bytes(blocks[k])
    BY <1>1, UsedIs
  <1>9. \A k \in 1 .. Len(blocks) : k # i <=> blocks[k].offset # blocks[i].offset
    BY <1>1, OffsetsDiffer
  <1>10. \A k \in 1 .. Len(blocks) : Bytes(blocks[k]).offset = blocks[k].offset
    BY DEF Bytes
  <1>11. \A r : r \in Used(blocks') <=> r \in Used(blocks) /\ r.offset # blocks[i].offset
    BY <1>7, <1>8, <1>9, <1>10
  <1>12. \A r : r \in Used(blocks') <=> r \in Used(blocks) /\ r # Bytes(blocks[i])
    BY <1>1, <1>7, <1>8, <1>9, <1>10
  <1>13. Bytes(blocks[i]) \in Used(blocks)
    BY <1>1, <1>8
  <1>14. Used(blocks)' = Used(blocks')
    BY DEF Used
  <1> QED BY <1>11, <1>12, <1>13, <1>14

----------------------------------------------------------------------------
(* Room.                                                                    *)

\* What an available block holds overlaps no range that is out.
LEMMA RoomIsFree ==
    ASSUME BlocksListed, NEW i \in DOMAIN blocks, blocks[i].available,
           NEW offset \in Nat, NEW size \in Nat, 0 < size,
           blocks[i].offset <= offset, offset + size <= End(blocks[i])
    PROVE  Pool!Free(offset, size)
  <1>1. /\ Lists(blocks, 0, TotalSize) /\ blocks \in Seq(BlockType) /\ Len(blocks) \in Nat
        /\ i \in 1 .. Len(blocks) /\ End(blocks[i]) <= TotalSize
        /\ blocks[i].offset \in Nat /\ End(blocks[i]) \in Nat /\ TotalSize \in Nat
    BY BlocksTyped, SubAllocatorAssumption, SMTT(30) DEF BlocksListed, Lists, End
  <1>2. ASSUME NEW r \in Used(blocks)
        PROVE  offset + size <= r.offset \/ r.offset + r.size <= offset
    <2>1. PICK k \in 1 .. Len(blocks) : ~blocks[k].available /\ r = Bytes(blocks[k])
      BY <1>1, UsedIs
    <2>2. /\ r.offset = blocks[k].offset /\ r.offset + r.size = End(blocks[k])
          /\ blocks[k].offset \in Nat /\ End(blocks[k]) \in Nat
      BY <1>1, <2>1, ListNumbers DEF Bytes, End
    <2>3. i < k \/ k < i
      BY <1>1, <2>1
    <2>4. CASE i < k
      <3>1. End(blocks[i]) <= blocks[k].offset
        BY <1>1, <2>4, ListOrdered
      <3> QED BY <1>1, <2>2, <3>1
    <2>5. CASE k < i
      <3>1. End(blocks[k]) <= blocks[i].offset
        BY <1>1, <2>5, ListOrdered
      <3> QED BY <1>1, <2>2, <3>1
    <2> QED BY <2>3, <2>4, <2>5
  <1>3. offset + size <= TotalSize
    BY <1>1
  <1> QED BY <1>2, <1>3 DEF Pool!Free

\* Bytes that overlap no range that is out lie in one available block: two
\* neighbours are never both available.
LEMMA FreeHasRoom ==
    ASSUME BlocksListed, NEW offset \in Nat, NEW size \in Nat, 0 < size, Pool!Free(offset, size)
    PROVE  \E i \in DOMAIN blocks :
               /\ blocks[i].available /\ blocks[i].offset <= offset
               /\ offset < End(blocks[i]) /\ offset + size <= End(blocks[i])
               /\ size <= blocks[i].size
  <1>1. /\ Lists(blocks, 0, TotalSize) /\ blocks \in Seq(BlockType) /\ TotalSize \in Nat
        /\ End(blocks[Len(blocks)]) = TotalSize
    BY SubAllocatorAssumption DEF BlocksListed, Lists
  <1>2. /\ Len(blocks) \in Nat /\ DOMAIN blocks = 1 .. Len(blocks)
        /\ \A k \in 1 .. Len(blocks) : /\ blocks[k].offset \in Nat /\ blocks[k].size \in Nat
                                       /\ End(blocks[k]) \in Nat
                                       /\ blocks[k].offset < End(blocks[k])
        /\ \A k \in 1 .. Len(blocks) - 1 :
               /\ blocks[k + 1].offset = End(blocks[k])
               /\ ~(blocks[k].available /\ blocks[k + 1].available)
    BY <1>1, ListNumbers
  <1>3. /\ offset + size <= TotalSize /\ 0 <= offset /\ offset < TotalSize
        /\ \A r \in Used(blocks) : offset + size <= r.offset \/ r.offset + r.size <= offset
    BY <1>1 DEF Pool!Free
  <1>4. ASSUME NEW k \in 1 .. Len(blocks), ~blocks[k].available
        PROVE  offset + size <= blocks[k].offset \/ End(blocks[k]) <= offset
    <2>1. Bytes(blocks[k]) \in Used(blocks)
      BY <1>1, <1>4, UsedIs
    <2> QED BY <1>3, <2>1 DEF Bytes, End
  <1>5. PICK i \in 1 .. Len(blocks) : blocks[i].offset <= offset /\ offset < End(blocks[i])
    BY <1>1, <1>3, ByteListed
  <1>6. blocks[i].available
    BY <1>2, <1>4, <1>5
  <1>7. offset + size <= End(blocks[i])
    <2>1. SUFFICES ASSUME End(blocks[i]) < offset + size PROVE FALSE
      BY <1>2
    <2>2. i # Len(blocks)
      BY <1>1, <1>3, <2>1
    <2>3. i \in 1 .. Len(blocks) - 1 /\ i + 1 \in 1 .. Len(blocks)
      <3>1. Len(blocks) \in Nat
        BY <1>2
      <3> QED BY <2>2, <3>1
    <2>4. blocks[i + 1].offset = End(blocks[i]) /\ ~blocks[i + 1].available
      BY <1>2, <1>6, <2>3
    <2>5. offset + size <= blocks[i + 1].offset \/ End(blocks[i + 1]) <= offset
      BY <1>4, <2>3, <2>4
    <2> QED BY <1>2, <1>5, <2>1, <2>3, <2>4, <2>5
  <1>8. size <= blocks[i].size
    BY <1>2, <1>5, <1>7 DEF End
  <1> QED BY <1>2, <1>5, <1>6, <1>7, <1>8


----------------------------------------------------------------------------
(* The steps as steps of the pool.                                          *)

\* The number of ranges that are out, in the allocator and in the snapshot.
Counts(s, count) == IsFiniteSet(Used(s)) /\ count = Cardinality(Used(s))
CountInv == Counts(blocks, allocCount) /\ Counts(snapshot.blocks, snapshot.allocCount)

\* Rounding up to pages adds less than a page.
LEMMA PageRoundedBound ==
    ASSUME NEW size \in 0 .. TotalSize + 1
    PROVE  PageRounded(size) \in 0 .. TotalSize + PageSize
  <1> DEFINE P == PageSize
             x == size + P - 1
             d == x \div P
  <1>1. P \in Nat /\ P > 0 /\ TotalSize \in Nat /\ size \in Nat /\ size <= TotalSize + 1
    BY SubAllocatorAssumption
  <1>2. x \in Nat /\ x <= TotalSize + P
    BY <1>1
  <1>3. PageRounded(size) = P * d
    BY DEF PageRounded
  <1> HIDE DEF P, x
  <1>4. d \in Nat /\ P * d <= x /\ 0 <= P * d /\ P * d \in Int
    BY <1>1, <1>2
  <1> HIDE DEF d
  <1>5. P * d \in 0 .. TotalSize + P
    BY <1>1, <1>2, <1>4
  <1> QED BY <1>3, <1>5 DEF P

\* A block that is split for a request grants it.
LEMMA SplitGrants ==
    ASSUME BlocksListed, Counts(blocks, allocCount),
           NEW i \in DOMAIN blocks, blocks[i].available,
           NEW call, NEW offset \in Nat, NEW size \in Nat, 0 < size,
           blocks[i].offset <= offset, offset + size <= End(blocks[i]),
           NEW new \in Seq(BlockType), blocks' = Splice(i, i, new),
           \A r : r \in Used(new) <=> r = [offset |-> offset, size |-> size],
           allocCount' = allocCount + 1, answer' = Answer(call, size, offset, TRUE)
    PROVE  Pool!Grant(call, size, offset) /\ Counts(blocks, allocCount)'
  <1> DEFINE range == [offset |-> offset, size |-> size]
  <1>1. Pool!Free(offset, size)
    BY RoomIsFree
  <1>2. Used(blocks') = Used(blocks) \cup {range}
    BY GrantUsed
  <1>3. range \notin Used(blocks)
    <2>1. SUFFICES ASSUME range \in Used(blocks) PROVE FALSE
      OBVIOUS
    <2>2. offset + size <= range.offset \/ range.offset + range.size <= offset
      BY <1>1, <2>1 DEF Pool!Free
    <2>3. range.offset = offset /\ range.size = size
      OBVIOUS
    <2> QED BY <2>2, <2>3
  <1> HIDE DEF range
  <1>4. IsFiniteSet(Used(blocks')) /\ Cardinality(Used(blocks')) = allocCount + 1
    BY <1>2, <1>3, FS_AddElement DEF Counts
  <1>5. Used(blocks)' = Used(blocks')
    BY DEF Used
  <1>6. Pool!Grant(call, size, offset)
    BY <1>1, <1>2, <1>5 DEF Pool!Grant, Pool!Answer, Answer, range
  <1> QED BY <1>4, <1>5, <1>6 DEF Counts

\* A call that is refused changes nothing.
LEMMA RefuseCounts ==
    ASSUME Counts(blocks, allocCount), UNCHANGED <<blocks, allocCount>>
    PROVE  Counts(blocks, allocCount)' /\ Used(blocks)' = Used(blocks)
  BY DEF Counts, Used

\* alloc refuses only when no free range is long enough.
LEMMA AllocRefines ==
    ASSUME IInv, CountInv, NEW wantedSize \in 0 .. TotalSize + 1, Alloc(wantedSize)
    PROVE  Pool!Alloc(PageRounded(wantedSize)) /\ CountInv'
  <1> DEFINE size == PageRounded(wantedSize)
  <1>0. /\ UNCHANGED snapshot /\ BlocksListed /\ Counts(blocks, allocCount)
        /\ TotalSize \in Nat /\ wantedSize \in Nat
    BY SubAllocatorAssumption DEF Alloc, IInv, CountInv
  <1>1. UNCHANGED Used(snapshot.blocks) /\ Counts(snapshot.blocks, snapshot.allocCount)'
    BY <1>0 DEF CountInv, Counts, Used
  <1>2. CASE wantedSize = 0 /\ Refuse("alloc", size, 0)
    <2>1. size = 0
      <3>1. (0 + PageSize - 1) \div PageSize = 0
        BY SubAllocatorAssumption
      <3> QED BY <1>2, <3>1, SubAllocatorAssumption DEF PageRounded
    <2>2. Counts(blocks, allocCount)' /\ Used(blocks)' = Used(blocks)
      BY <1>0, <1>2, RefuseCounts DEF Refuse
    <2>3. Pool!Refuse("alloc", size, 0)
      BY <1>2, <2>2 DEF Refuse, Pool!Refuse, Answer, Pool!Answer
    <2> HIDE DEF size
    <2> QED BY <1>1, <2>1, <2>2, <2>3 DEF Pool!Alloc, CountInv, size
  <1>3. CASE wantedSize > 0 /\ Fitting(size) = {} /\ Refuse("alloc", size, 0)
    <2>1. size \in Nat /\ 0 < size
      BY <1>0, <1>3, PageRoundedPositive
    <2>2. Counts(blocks, allocCount)' /\ Used(blocks)' = Used(blocks)
      BY <1>0, <1>3, RefuseCounts DEF Refuse
    <2>3. Pool!Refuse("alloc", size, 0)
      BY <1>3, <2>2 DEF Refuse, Pool!Refuse, Answer, Pool!Answer
    <2> HIDE DEF size
    <2>4. ASSUME NEW offset \in 0 .. TotalSize, Pool!Free(offset, size) PROVE FALSE
      <3>1. offset \in Nat
        BY <1>0
      <3>2. PICK i \in DOMAIN blocks : blocks[i].available /\ size <= blocks[i].size
        BY <1>0, <2>1, <2>4, <3>1, FreeHasRoom
      <3>3. blocks[i].size \in Nat
        BY <1>0, BlocksTyped
      <3>4. i \in Fitting(size)
        BY <2>1, <3>2, <3>3 DEF Fitting
      <3> QED BY <1>3, <3>4
    <2> QED BY <1>1, <2>2, <2>3, <2>4 DEF Pool!Alloc, CountInv, size
  <1>4. ASSUME wantedSize > 0, NEW i \in DOMAIN blocks, BestFit(i, size),
               blocks' = Splice(i, i, TakeEnd(blocks[i], size)),
               answer' = Answer("alloc", size, End(blocks[i]) - size, TRUE),
               allocCount' = allocCount + 1
        PROVE  Pool!Alloc(size) /\ CountInv'
    <2>1. size \in Nat /\ 0 < size
      BY <1>0, <1>4, PageRoundedPositive
    <2> HIDE DEF size
    <2>2. blocks[i] \in BlockType /\ End(blocks[i]) <= TotalSize
          /\ blocks[i].offset \in Nat /\ blocks[i].size \in Nat
      BY <1>0, BlocksTyped
    <2>3. blocks[i].available /\ size <= blocks[i].size
      BY <1>4, <2>1, <2>2 DEF BestFit, Fitting
    <2> DEFINE offset == End(blocks[i]) - size
    <2>4. /\ offset \in Nat /\ offset \in 0 .. TotalSize
          /\ blocks[i].offset <= offset /\ offset + size <= End(blocks[i])
      BY <1>0, <2>1, <2>2, <2>3 DEF End
    <2> DEFINE new == TakeEnd(blocks[i], size)
    <2>5. new \in Seq(BlockType) /\ \A r : r \in Used(new) <=> r = [offset |-> offset, size |-> size]
      BY <2>1, <2>2, <2>3, TakeEndUsed
    <2>6. blocks' = Splice(i, i, new) /\ answer' = Answer("alloc", size, offset, TRUE)
      BY <1>4
    <2> HIDE DEF new, offset
    <2>7. Pool!Grant("alloc", size, offset) /\ Counts(blocks, allocCount)'
      BY <1>0, <1>4, <2>1, <2>3, <2>4, <2>5, <2>6, SplitGrants
    <2> QED BY <1>1, <2>4, <2>7 DEF Pool!Alloc, CountInv
  <1> HIDE DEF size
  <1>5. Pool!Alloc(size) /\ CountInv'
    BY <1>2, <1>3, <1>4 DEF Alloc, size
  <1> QED BY <1>5 DEF size

\* allocFixed grants the range it was asked for, or that range is not free.
LEMMA AllocFixedRefines ==
    ASSUME IInv, CountInv, MayOverrun = FALSE,
           NEW wantedSize \in 0 .. TotalSize + 1, NEW offset \in 0 .. TotalSize,
           AllocFixed(wantedSize, offset)
    PROVE  Pool!AllocFixed(PageRounded(wantedSize), offset) /\ CountInv'
  <1> DEFINE size == PageRounded(wantedSize)
  <1>0. /\ UNCHANGED snapshot /\ BlocksListed /\ Counts(blocks, allocCount)
        /\ TotalSize \in Nat /\ wantedSize \in Nat /\ offset \in Nat
        /\ ~Overruns(size, offset)
    BY SubAllocatorAssumption DEF AllocFixed, IInv, CountInv
  <1>1. UNCHANGED Used(snapshot.blocks) /\ Counts(snapshot.blocks, snapshot.allocCount)'
    BY <1>0 DEF CountInv, Counts, Used
  <1>2. CASE wantedSize = 0 /\ Refuse("allocFixed", size, offset)
    <2>1. size = 0
      <3>1. (0 + PageSize - 1) \div PageSize = 0
        BY SubAllocatorAssumption
      <3> QED BY <1>2, <3>1, SubAllocatorAssumption DEF PageRounded
    <2>2. Counts(blocks, allocCount)' /\ Used(blocks)' = Used(blocks)
      BY <1>0, <1>2, RefuseCounts DEF Refuse
    <2>3. Pool!Refuse("allocFixed", size, offset)
      BY <1>2, <2>2 DEF Refuse, Pool!Refuse, Answer, Pool!Answer
    <2> HIDE DEF size
    <2> QED BY <1>1, <2>1, <2>2, <2>3 DEF Pool!AllocFixed, CountInv, size
  <1>3. CASE wantedSize > 0 /\ Holding(size, offset) = {} /\ Refuse("allocFixed", size, offset)
    <2>1. size \in Nat /\ 0 < size
      BY <1>0, <1>3, PageRoundedPositive
    <2>2. Counts(blocks, allocCount)' /\ Used(blocks)' = Used(blocks)
      BY <1>0, <1>3, RefuseCounts DEF Refuse
    <2>3. Pool!Refuse("allocFixed", size, offset)
      BY <1>3, <2>2 DEF Refuse, Pool!Refuse, Answer, Pool!Answer
    <2> HIDE DEF size
    <2>4. ASSUME Pool!Free(offset, size) PROVE FALSE
      <3>1. PICK i \in DOMAIN blocks : /\ blocks[i].available /\ blocks[i].offset <= offset
                                       /\ offset < End(blocks[i]) /\ size <= blocks[i].size
        BY <1>0, <2>1, <2>4, FreeHasRoom
      <3>2. blocks[i].size \in Nat
        BY <1>0, BlocksTyped
      <3>3. i \in Holding(size, offset)
        BY <2>1, <3>1, <3>2 DEF Fitting, Holding
      <3> QED BY <1>3, <3>3
    <2> QED BY <1>1, <2>2, <2>3, <2>4 DEF Pool!AllocFixed, CountInv, size
  <1>4. ASSUME wantedSize > 0, NEW i \in Holding(size, offset),
               blocks' = Splice(i, i, TakeAt(blocks[i], size, offset)),
               answer' = Answer("allocFixed", size, offset, TRUE),
               allocCount' = allocCount + 1
        PROVE  Pool!AllocFixed(size, offset) /\ CountInv'
    <2>1. size \in Nat /\ 0 < size
      BY <1>0, <1>4, PageRoundedPositive
    <2> HIDE DEF size
    <2>2. i \in DOMAIN blocks /\ blocks[i].available /\ blocks[i].offset <= offset
      BY <1>4 DEF Holding, Fitting
    <2>3. /\ blocks[i] \in BlockType /\ End(blocks[i]) \in Nat
          /\ blocks[i].size \in Nat /\ blocks[i].offset \in Nat
      BY <1>0, <2>2, BlocksTyped DEF End
    <2>4. size <= blocks[i].size
      BY <1>4, <2>1, <2>3 DEF Holding, Fitting
    <2>5. offset + size <= End(blocks[i])
      BY <1>0, <1>4, <2>1, <2>3 DEF Overruns
    <2> DEFINE new == TakeAt(blocks[i], size, offset)
    <2>6. new \in Seq(BlockType) /\ \A r : r \in Used(new) <=> r = [offset |-> offset, size |-> size]
      BY <1>0, <2>1, <2>2, <2>3, <2>4, <2>5, TakeAtUsed
    <2>7. blocks' = Splice(i, i, new)
      BY <1>4
    <2> HIDE DEF new
    <2>8. Pool!Grant("allocFixed", size, offset) /\ Counts(blocks, allocCount)'
      BY <1>0, <1>4, <2>1, <2>2, <2>5, <2>6, <2>7, SplitGrants
    <2> QED BY <1>1, <2>8 DEF Pool!AllocFixed, CountInv
  <1> HIDE DEF size
  <1>5. Pool!AllocFixed(size, offset) /\ CountInv'
    BY <1>2, <1>3, <1>4 DEF AllocFixed, size
  <1> QED BY <1>5 DEF size


\* free takes back the range that begins at the offset, if one does.
LEMMA FreeRefines ==
    ASSUME IInv, CountInv, NEW offset \in 0 .. TotalSize, Free(offset)
    PROVE  Pool!Release(offset) /\ CountInv'
  <1>0. /\ UNCHANGED snapshot /\ BlocksListed /\ Counts(blocks, allocCount)
        /\ blocks \in Seq(BlockType) /\ DOMAIN blocks = 1 .. Len(blocks)
    BY DEF Free, IInv, CountInv, BlocksListed, Lists
  <1>1. UNCHANGED Used(snapshot.blocks) /\ Counts(snapshot.blocks, snapshot.allocCount)'
    BY <1>0 DEF CountInv, Counts, Used
  <1>2. \A r : r \in Used(blocks) <=>
                   \E k \in 1 .. Len(blocks) : ~blocks[k].available /\ r = Bytes(blocks[k])
    BY <1>0, UsedIs
  <1>3. CASE Freed(offset) = {} /\ Refuse("free", 0, offset)
    <2>1. Counts(blocks, allocCount)' /\ Used(blocks)' = Used(blocks)
      BY <1>0, <1>3, RefuseCounts DEF Refuse
    <2>2. \A r \in Used(blocks) : r.offset # offset
      BY <1>0, <1>2, <1>3 DEF Freed, Bytes
    <2>3. Used(blocks)' = {r \in Used(blocks) : r.offset # offset}
      BY <2>1, <2>2
    <2>4. answer' = Answer("free", 0, offset, \E r \in Used(blocks) : r.offset = offset)
      BY <1>3, <2>2 DEF Refuse
    <2> QED BY <1>1, <2>1, <2>3, <2>4 DEF Pool!Release, Pool!Answer, Answer, CountInv
  <1>4. ASSUME NEW i \in Freed(offset), ReleaseBlock(i), allocCount' = allocCount - 1,
               answer' = Answer("free", 0, offset, TRUE)
        PROVE  Pool!Release(offset) /\ CountInv'
    <2>1. i \in DOMAIN blocks /\ ~blocks[i].available /\ blocks[i].offset = offset
      BY DEF Freed
    <2>2. /\ Used(blocks)' = {r \in Used(blocks) : r.offset # offset}
          /\ Used(blocks)' = Used(blocks) \ {Bytes(blocks[i])}
          /\ Bytes(blocks[i]) \in Used(blocks)
      BY <1>0, <1>4, <2>1, ReleaseUsed
    <2>3. \E r \in Used(blocks) : r.offset = offset
      BY <2>1, <2>2 DEF Bytes
    <2>4. Counts(blocks, allocCount)'
      <3> DEFINE U == Used(blocks)
                 b == Bytes(blocks[i])
      <3>1. IsFiniteSet(U) /\ b \in U /\ Used(blocks)' = U \ {b} /\ allocCount = Cardinality(U)
        BY <1>0, <2>2 DEF Counts
      <3> HIDE DEF U, b
      <3>2. IsFiniteSet(U \ {b}) /\ Cardinality(U \ {b}) = Cardinality(U) - 1
        BY <3>1, FS_RemoveElement
      <3> QED BY <1>4, <3>1, <3>2 DEF Counts
    <2>5. answer' = Answer("free", 0, offset, \E r \in Used(blocks) : r.offset = offset)
      BY <1>4, <2>3
    <2> QED BY <1>1, <2>2, <2>4, <2>5 DEF Pool!Release, Pool!Answer, Answer, CountInv
  <1> QED BY <1>3, <1>4 DEF Free

\* The list the allocator starts with has no range that is out.
LEMMA SeedUsed == Used(Seed) = {} /\ Counts(Seed, 0)
  <1> DEFINE b == Block(0, TotalSize, TRUE)
  <1>1. b \in BlockType /\ b.available = TRUE
    BY SubAllocatorAssumption, BlockFields, 0 \in Nat
  <1> HIDE DEF b
  <1>2. \A r : r \notin Used(<<b>>)
    BY <1>1, OneUsed
  <1>3. Used(Seed) = {}
    BY <1>2 DEF Seed, b
  <1> QED BY <1>3, FS_EmptySet DEF Counts

\* Every call of the allocator is the call of the pool with the rounded size.
LEMMA StepRefines ==
    ASSUME IInv, CountInv, MayOverrun = FALSE, [Next]_vars
    PROVE  [Pool!Next]_(Pool!vars) /\ CountInv'
  <1>1. ASSUME NEW size \in 0 .. TotalSize + 1, Alloc(size) PROVE Pool!Next /\ CountInv'
    BY <1>1, AllocRefines, PageRoundedBound DEF Pool!Next
  <1>2. ASSUME NEW size \in 0 .. TotalSize + 1, NEW offset \in 0 .. TotalSize,
               AllocFixed(size, offset)
        PROVE  Pool!Next /\ CountInv'
    BY <1>2, AllocFixedRefines, PageRoundedBound DEF Pool!Next
  <1>3. ASSUME NEW offset \in 0 .. TotalSize, Free(offset) PROVE Pool!Next /\ CountInv'
    BY <1>3, FreeRefines DEF Pool!Next
  <1>4. ASSUME UNCHANGED snapshot
        PROVE  UNCHANGED Used(snapshot.blocks) /\ Counts(snapshot.blocks, snapshot.allocCount)'
    BY <1>4 DEF CountInv, Counts, Used
  <1>5. CASE FreeAll
    <2>1. /\ blocks' = Seed /\ allocCount' = 0 /\ UNCHANGED snapshot
          /\ answer' = Answer("freeAll", 0, 0, TRUE)
      BY <1>5 DEF FreeAll
    <2>2. Used(blocks)' = {} /\ Counts(blocks, allocCount)'
      BY <2>1, SeedUsed DEF Counts, Used
    <2>3. Pool!FreeAll
      BY <1>4, <2>1, <2>2 DEF Pool!FreeAll, Pool!Answer, Answer
    <2> QED BY <1>4, <2>1, <2>2, <2>3 DEF Pool!Next, CountInv
  <1>6. CASE Save
    <2>1. /\ UNCHANGED <<blocks, allocCount>> /\ answer' = Answer("save", 0, 0, TRUE)
          /\ snapshot'.blocks = blocks /\ snapshot'.allocCount = allocCount
      BY <1>6 DEF Save
    <2>2. /\ Used(blocks)' = Used(blocks) /\ Used(snapshot.blocks)' = Used(blocks)
          /\ Counts(blocks, allocCount)' /\ Counts(snapshot.blocks, snapshot.allocCount)'
      BY <2>1 DEF CountInv, Counts, Used
    <2>3. Pool!Save
      BY <2>1, <2>2 DEF Pool!Save, Pool!Answer, Answer
    <2> QED BY <2>2, <2>3 DEF Pool!Next, CountInv
  <1>7. CASE Load
    <2>1. /\ UNCHANGED snapshot /\ answer' = Answer("load", 0, 0, TRUE)
          /\ blocks' = snapshot.blocks /\ allocCount' = snapshot.allocCount
      BY <1>7 DEF Load
    <2>2. Used(blocks)' = Used(snapshot.blocks) /\ Counts(blocks, allocCount)'
      BY <2>1 DEF CountInv, Counts, Used
    <2>3. Pool!Load
      BY <1>4, <2>1, <2>2 DEF Pool!Load, Pool!Answer, Answer
    <2> QED BY <1>4, <2>1, <2>2, <2>3 DEF Pool!Next, CountInv
  <1>8. CASE UNCHANGED vars
    <2>1. UNCHANGED <<blocks, allocCount, snapshot, answer>>
      BY <1>8 DEF vars
    <2>2. UNCHANGED Pool!vars
      BY <2>1 DEF Pool!vars, Used
    <2>3. CountInv'
      BY <2>1 DEF CountInv, Counts, Used
    <2> QED BY <2>2, <2>3
  <1> QED BY <1>1, <1>2, <1>3, <1>5, <1>6, <1>7, <1>8 DEF Next

----------------------------------------------------------------------------
(* Results about the ranges.                                                *)

\* allocCount is the number of ranges that are out (SubAllocator.cpp:147, :171, :188), so that it
\* never passes below zero, and neither does the one of a snapshot.
THEOREM CountExact ==
    ASSUME MayOverrun = FALSE
    PROVE  Spec => [](CountInv /\ allocCount \in Nat /\ snapshot.allocCount \in Nat)
  <1>1. Init => CountInv
    BY SeedUsed DEF Init, CountInv
  <1>2. IInv /\ CountInv /\ [Next]_vars => CountInv'
    BY StepRefines
  <1>3. CountInv => CountInv /\ allocCount \in Nat /\ snapshot.allocCount \in Nat
    BY FS_CardinalityType DEF CountInv, Counts
  <1> QED BY <1>1, <1>2, <1>3, Listed, PTL DEF Spec

\* Ranges that are out never overlap, and a request is refused only when no free range is
\* long enough, or the fixed one is not free (SubAllocator.cpp:156, :175).
THEOREM PoolRefined ==
    ASSUME MayOverrun = FALSE
    PROVE  Spec => ImplementsPool
  <1>1. Init => CountInv
    BY SeedUsed DEF Init, CountInv
  <1>2. IInv /\ CountInv /\ [Next]_vars => CountInv'
    BY StepRefines
  <1>3. Init => Pool!Init
    <2> HAVE Init
    <2>1. /\ blocks = Seed /\ snapshot.blocks = Seed
          /\ answer = Answer("freeAll", 0, 0, TRUE)
      BY DEF Init
    <2> QED BY <2>1, SeedUsed DEF Pool!Init, Pool!Answer, Answer
  <1>4. IInv /\ CountInv /\ [Next]_vars => [Pool!Next]_(Pool!vars)
    BY StepRefines
  <1> QED BY <1>1, <1>2, <1>3, <1>4, Listed, PTL DEF Spec, ImplementsPool, Pool!Spec
=============================================================================
