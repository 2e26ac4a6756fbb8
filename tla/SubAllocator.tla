--------------------------- MODULE SubAllocator ---------------------------
(***************************************************************************)
(* SubAllocator over the block list of address_space.h: an array of blocks *)
(* in the order of their offsets, some available, that is split when a     *)
(* request is granted and merged when it is given back.                    *)
(*                                                                         *)
(* Left out: the capacity of the array, map_size, and the address of the   *)
(* buffer (offsets stand for pointers).  The size of a block has 63 bits;  *)
(* here it has Word values.                                                *)
(***************************************************************************)
EXTENDS Integers, Sequences, FiniteSets

CONSTANTS
    TotalSize,      \* bytes of the buffer
    PageSize,
    Word,           \* number of values a block's size can have
    MayOverrun      \* whether a fixed request may reach past the block it starts in

ASSUME SubAllocatorAssumption ==
    /\ TotalSize \in Nat \ {0} /\ PageSize \in Nat \ {0}
    /\ Word \in Nat /\ Word > TotalSize
    /\ MayOverrun \in BOOLEAN

VARIABLES
    blocks,         \* records with offset, size and available
    allocCount,
    snapshot,       \* what save() wrote
    answer          \* the last call, its size and offset, and whether it succeeded

vars == <<blocks, allocCount, snapshot, answer>>

Block(offset, size, available) == [offset |-> offset, size |-> size, available |-> available]
Answer(call, size, offset, ok) == [call |-> call, size |-> size, offset |-> offset, ok |-> ok]
End(b) == b.offset + b.size
Seed == <<Block(0, TotalSize, TRUE)>>

Init ==
    /\ blocks = Seed /\ allocCount = 0
    /\ snapshot = [blocks |-> Seed, allocCount |-> 0] /\ answer = Answer("freeAll", 0, 0, TRUE)

\* Blocks i to j are replaced by those of new; the blocks behind them are moved.
Splice(i, j, new) == SubSeq(blocks, 1, i - 1) \o new \o SubSeq(blocks, j + 1, Len(blocks))

PageRounded(size) == PageSize * ((size + PageSize - 1) \div PageSize)

----------------------------------------------------------------------------

Fitting(size) == {i \in DOMAIN blocks : blocks[i].available /\ blocks[i].size >= size}

\* find_available_block: the smallest one, and the first of those.
BestFit(i, size) ==
    /\ i \in Fitting(size)
    /\ \A k \in Fitting(size) :
          blocks[i].size < blocks[k].size \/ (blocks[i].size = blocks[k].size /\ i <= k)

\* find_available_block_at_offset
Holding(size, offset) ==
    {i \in Fitting(size) : blocks[i].offset <= offset /\ offset < End(blocks[i])}

\* split_block: the end of the block is taken.
TakeEnd(b, size) ==
    IF b.size = size THEN <<[b EXCEPT !.available = FALSE]>>
    ELSE <<[b EXCEPT !.size = @ - size], Block(End(b) - size, size, FALSE)>>

NoSlop(b, size, offset) == <<>>     \* Mutant: what is behind the request is lost.
\* What split_block_at_offset leaves behind the request; its size wraps around.
Slop(b, size, offset) ==
    IF offset + size = End(b) THEN <<>>
    ELSE <<Block(offset + size, (End(b) - (offset + size)) % Word, TRUE)>>

TakeAt(b, size, offset) ==
    IF b.size = size THEN <<[b EXCEPT !.available = FALSE]>>
    ELSE (IF offset = b.offset THEN <<>> ELSE <<Block(b.offset, offset - b.offset, TRUE)>>)
         \o <<Block(offset, size, FALSE)>> \o Slop(b, size, offset)

Refuse(call, size, offset) ==
    answer' = Answer(call, size, offset, FALSE) /\ UNCHANGED <<blocks, allocCount>>

Alloc(wantedSize) ==
    LET size == PageRounded(wantedSize) IN
    /\ \/ wantedSize = 0 /\ Refuse("alloc", size, 0)
       \/ wantedSize > 0 /\ Fitting(size) = {} /\ Refuse("alloc", size, 0)
       \/ /\ wantedSize > 0
          /\ \E i \in DOMAIN blocks :
                /\ BestFit(i, size)
                /\ blocks' = Splice(i, i, TakeEnd(blocks[i], size))
                /\ answer' = Answer("alloc", size, End(blocks[i]) - size, TRUE)
          /\ allocCount' = allocCount + 1
    /\ UNCHANGED snapshot

Overruns(size, offset) == \E i \in Holding(size, offset) : offset + size > End(blocks[i])

AllocFixed(wantedSize, offset) ==
    LET size == PageRounded(wantedSize) IN
    /\ MayOverrun \/ ~Overruns(size, offset)
    /\ \/ wantedSize = 0 /\ Refuse("allocFixed", size, offset)
       \/ wantedSize > 0 /\ Holding(size, offset) = {} /\ Refuse("allocFixed", size, offset)
       \/ /\ wantedSize > 0
          /\ \E i \in Holding(size, offset) :
                /\ \A k \in Holding(size, offset) : i <= k
                /\ blocks' = Splice(i, i, TakeAt(blocks[i], size, offset))
          /\ answer' = Answer("allocFixed", size, offset, TRUE)
          /\ allocCount' = allocCount + 1
    /\ UNCHANGED snapshot

AvailableAt(i) == i \in DOMAIN blocks /\ blocks[i].available

OnlyItself(i) == i                  \* Mutant: the block behind is not merged.
LastMerged(i) == IF AvailableAt(i + 1) THEN i + 1 ELSE i
FirstMerged(i) == IF AvailableAt(i - 1) THEN i - 1 ELSE i

\* release_block: the block is made available and merged with its neighbours that are.
ReleaseBlock(i) ==
    LET first == blocks[FirstMerged(i)]
        last == blocks[LastMerged(i)]
    IN  blocks' = Splice(FirstMerged(i), LastMerged(i),
                         <<Block(first.offset, End(last) - first.offset, TRUE)>>)

Freed(offset) == {i \in DOMAIN blocks : blocks[i].offset = offset /\ ~blocks[i].available}

Free(offset) ==
    /\ \/ /\ \E i \in Freed(offset) : ReleaseBlock(i)
          /\ allocCount' = allocCount - 1
          /\ answer' = Answer("free", 0, offset, TRUE)
       \/ Freed(offset) = {} /\ Refuse("free", 0, offset)
    /\ UNCHANGED snapshot

FreeAll ==
    /\ blocks' = Seed /\ allocCount' = 0
    /\ answer' = Answer("freeAll", 0, 0, TRUE) /\ UNCHANGED snapshot

Save ==
    /\ snapshot' = [blocks |-> blocks, allocCount |-> allocCount]
    /\ answer' = Answer("save", 0, 0, TRUE) /\ UNCHANGED <<blocks, allocCount>>

Load ==
    /\ blocks' = snapshot.blocks /\ allocCount' = snapshot.allocCount
    /\ answer' = Answer("load", 0, 0, TRUE) /\ UNCHANGED snapshot

Next ==
    \/ \E size \in 0 .. TotalSize + 1 : Alloc(size)
    \/ \E size \in 0 .. TotalSize + 1, offset \in 0 .. TotalSize : AllocFixed(size, offset)
    \/ \E offset \in 0 .. TotalSize : Free(offset)
    \/ FreeAll \/ Save \/ Load

Spec == Init /\ [][Next]_vars

----------------------------------------------------------------------------
(* Properties.                                                              *)

BlockType == [offset : Nat, size : Nat, available : BOOLEAN]

\* Every value has the type of its field; the count does not pass below zero.
TypeOK ==
    /\ blocks \in Seq(BlockType) /\ allocCount \in Nat
    /\ snapshot \in [blocks : Seq(BlockType), allocCount : Nat]
    /\ answer \in [call : STRING, size : Nat, offset : Nat, ok : BOOLEAN]

Tiles(s) ==
    /\ s # <<>> /\ s[1].offset = 0 /\ End(s[Len(s)]) = TotalSize
    /\ \A i \in DOMAIN s : s[i].size > 0
    /\ \A i \in 1 .. Len(s) - 1 : s[i + 1].offset = End(s[i])

\* The invariant stated for the array (address_space.h:51): no block is empty, each begins
\* where the one before it ends, and together they are the whole buffer.
Tiling == Tiles(blocks) /\ Tiles(snapshot.blocks)

Merged(s) == \A i \in 1 .. Len(s) - 1 : ~(s[i].available /\ s[i + 1].available)

\* Two neighbours are never both available, so that a request is not refused for being
\* spread over them (address_space.h:322).
Coalesced == Merged(blocks) /\ Merged(snapshot.blocks)

Used(s) == {[offset |-> s[i].offset, size |-> s[i].size] : i \in {k \in DOMAIN s : ~s[k].available}}

\* What a request comes to when it is rounded up to whole pages.
Pool == INSTANCE AllocatorPool
            WITH live <- Used(blocks), saved <- Used(snapshot.blocks),
                 MaxRequest <- TotalSize + PageSize

\* Ranges that are out never overlap, a request is refused only if no free range is long
\* enough, and only the start of a range that is out can be freed.
ImplementsPool == Pool!Spec
=============================================================================
