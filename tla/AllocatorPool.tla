-------------------------- MODULE AllocatorPool ---------------------------
(***************************************************************************)
(* What a SubAllocator promises: ranges of a buffer are handed out and     *)
(* taken back, two of them never overlap, a request is refused only when   *)
(* no free range is long enough, and a snapshot brings back the ranges     *)
(* that were out when it was saved.                                        *)
(***************************************************************************)
EXTENDS Integers

CONSTANTS
    TotalSize,  \* bytes of the buffer
    MaxRequest  \* bound: the largest request

VARIABLES
    live,       \* the ranges that are out
    saved,      \* the ranges that were out when the snapshot was taken
    answer      \* the last call and its answer: whether it succeeded, and the offset

vars == <<live, saved, answer>>

Answer(call, size, offset, ok) == [call |-> call, size |-> size, offset |-> offset, ok |-> ok]

Init == live = {} /\ saved = {} /\ answer = Answer("freeAll", 0, 0, TRUE)

Free(offset, size) ==
    /\ offset + size <= TotalSize
    /\ \A r \in live : offset + size <= r.offset \/ r.offset + r.size <= offset

Grant(call, size, offset) ==
    /\ answer' = Answer(call, size, offset, TRUE)
    /\ size > 0 /\ Free(offset, size)
    /\ live' = live \cup {[offset |-> offset, size |-> size]}

Refuse(call, size, offset) == answer' = Answer(call, size, offset, FALSE) /\ UNCHANGED live

Alloc(size) ==
    /\ \/ \E offset \in 0 .. TotalSize : Grant("alloc", size, offset)
       \/ /\ Refuse("alloc", size, 0)
          /\ size = 0 \/ \A offset \in 0 .. TotalSize : ~Free(offset, size)
    /\ UNCHANGED saved

AllocFixed(size, offset) ==
    /\ \/ Grant("allocFixed", size, offset)
       \/ Refuse("allocFixed", size, offset) /\ (size = 0 \/ ~Free(offset, size))
    /\ UNCHANGED saved

Release(offset) ==
    /\ answer' = Answer("free", 0, offset, \E r \in live : r.offset = offset)
    /\ live' = {r \in live : r.offset # offset} /\ UNCHANGED saved

FreeAll == answer' = Answer("freeAll", 0, 0, TRUE) /\ live' = {} /\ UNCHANGED saved
Save == answer' = Answer("save", 0, 0, TRUE) /\ saved' = live /\ UNCHANGED live
Load == answer' = Answer("load", 0, 0, TRUE) /\ live' = saved /\ UNCHANGED saved

Next ==
    \/ \E size \in 0 .. MaxRequest : Alloc(size)
    \/ \E size \in 0 .. MaxRequest, offset \in 0 .. TotalSize : AllocFixed(size, offset)
    \/ \E offset \in 0 .. TotalSize : Release(offset)
    \/ FreeAll \/ Save \/ Load

Spec == Init /\ [][Next]_vars
=============================================================================
