--------------------------- MODULE EntityManager ---------------------------
(***************************************************************************)
(* EntityManager: a vector of entries, the free ones linked by index, and  *)
(* handles that carry the index of an entry and its generation, so that    *)
(* the handle of a removed entity does not name the next one there.        *)
(*                                                                         *)
(* A manager is a record, so that HybridEntityManager and ComponentManager *)
(* can each own one: its entries from index 0, the first free index, the   *)
(* number of live entries and 2^indexBits.  An entry has the generation in *)
(* its handle (gen), liveGeneration (live), nextFreeIndex (next) and the   *)
(* item.  Left out: the type in a handle.  Callers are assumed to pass one *)
(* that is not 0, as all callers in the repository do: add and addFixed    *)
(* give back the invalid handle for type 0, on which the hybrid manager    *)
(* aborts the process.  No other operation depends on it.                  *)
(***************************************************************************)
EXTENDS Integers, FiniteSets

CONSTANTS
    Generations,        \* 2^generationBits
    NoItem              \* what an entry holds before its first item

ASSUME GenerationsAssumption == Generations \in Nat /\ Generations >= 3

Handle(index, gen) == [index |-> index, gen |-> gen]
Invalid == Handle(0, 0)
Entry(gen, live, next) == [gen |-> gen, live |-> live, next |-> next, item |-> NoItem]

NextGeneration(g) == IF g + 1 = Generations THEN 1 ELSE g + 1

Manager(n, max) ==
    [entries |-> [i \in 0 .. n - 1 |-> Entry(0, NextGeneration(1), i + 1)],
     first |-> 0, count |-> 0, max |-> max]

Size(em) == Cardinality(DOMAIN em.entries)

\* isLive and get: whether h leads to an item.
Resolves(em, h) == h.index \in DOMAIN em.entries /\ em.entries[h.index].live = h.gen

\* An entry whose own handle is live.
Allocated(em) == {i \in DOMAIN em.entries : em.entries[i].live = em.entries[i].gen}

CanAdd(em, index) == em.count # em.max /\ index < em.max

\* The vector with room for index: twice what is needed, but no more than the maximum.
Grown(em, index) ==
    LET wanted == IF 2 * (index + 1) > em.max THEN em.max ELSE 2 * (index + 1) IN
    IF index < Size(em) THEN em.entries
    ELSE [i \in 0 .. wanted - 1 |->
             IF i < Size(em) THEN em.entries[i] ELSE Entry(0, 1, i + 1)]

NextHandle(em) == Handle(em.first, Grown(em, em.first)[em.first].live)

Added(em, item) ==
    LET entries == Grown(em, em.first)
        i == em.first
    IN  [em EXCEPT !.entries = [entries EXCEPT ![i].gen = entries[i].live, ![i].item = item],
                   !.first = entries[i].next,
                   !.count = @ + 1]

\* The n-th index of the free list; its end is the index behind the last entry.
FreeList(em) ==
    LET walk[n \in 0 .. Size(em)] ==
            IF n = 0 THEN em.first
            ELSE IF walk[n - 1] \in DOMAIN em.entries THEN em.entries[walk[n - 1]].next
            ELSE Size(em)
    IN  walk

FreeIndices(em) == {FreeList(em)[n] : n \in 0 .. Size(em)} \cap DOMAIN em.entries

\* Mutant: an index inside the free list stays there.
HeadOnly(em, i) == em

\* addFixed: the index leaves the free list, wherever it is.
Unlinked(em, i) ==
    IF em.first = i THEN [em EXCEPT !.first = em.entries[i].next, !.count = @ + 1]
    ELSE IF i \in Allocated(em) THEN em
    ELSE LET previous == CHOOSE p \in FreeIndices(em) : em.entries[p].next = i
         IN  [em EXCEPT !.entries[previous].next = em.entries[i].next, !.count = @ + 1]

AddedFixed(em, h, item) ==
    LET unlinked == Unlinked([em EXCEPT !.entries = Grown(em, h.index)], h.index)
    IN  [unlinked EXCEPT !.entries[h.index].gen = h.gen, !.entries[h.index].live = h.gen,
                         !.entries[h.index].item = item]

Removed(em, h) ==
    IF ~Resolves(em, h) THEN em
    ELSE [em EXCEPT !.entries[h.index].live = NextGeneration(@),
                    !.entries[h.index].next = em.first,
                    !.first = h.index,
                    !.count = @ - 1]

KeepsGenerations(em) ==         \* Mutant: clear() leaves the generations as they are.
    [em EXCEPT !.entries = [i \in DOMAIN @ |-> [@[i] EXCEPT !.gen = 0, !.next = i + 1]],
               !.first = 0, !.count = 0]

\* clear: every entry is free and has a new generation.
Cleared(em) ==
    LET Freed(i) ==
            [em.entries[i] EXCEPT !.gen = 0, !.next = i + 1, !.live = NextGeneration(@)]
    IN  [em EXCEPT !.entries = [i \in DOMAIN @ |-> Freed(i)], !.first = 0, !.count = 0]

\* The free list holds the entries that are not live, each once, and ends behind the last
\* entry; the count is that of the others.
FreeListIsExact(em) ==
    /\ FreeIndices(em) = DOMAIN em.entries \ Allocated(em)
    /\ FreeList(em)[Cardinality(FreeIndices(em))] = Size(em)
    /\ em.count = Cardinality(Allocated(em))
=============================================================================
