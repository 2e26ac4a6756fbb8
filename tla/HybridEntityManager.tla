------------------------ MODULE HybridEntityManager ------------------------
(***************************************************************************)
(* HybridEntityManager: entities below maxIndex are in an EntityManager,   *)
(* the others in a map keyed by index, each under its own lock, so that    *)
(* add() and clear() are two critical sections another thread can come     *)
(* between.                                                                *)
(*                                                                         *)
(* The clients keep the handles they were given (held), also those they    *)
(* have removed.  What they are assumed not to do is named in Forgotten,   *)
(* MayFix and ClearMap.                                                    *)
(***************************************************************************)
EXTENDS EntityManager

CONSTANTS
    MaxIndex,
    Threads,
    MaxMapIndex,        \* bound: indices used in the map
    MaxCalls            \* bound: calls made

ASSUME HybridAssumption == MaxIndex \in Nat /\ MaxMapIndex \in Nat

VARIABLES
    em,
    mMap,               \* the indices in the map
    mIndexForMap,
    pc,                 \* "idle", or what the thread's call does next
    held,
    current,            \* the handles whose entity was neither removed nor replaced
    aborted,            \* whether add() found its index taken in the map
    calls

hybridVars == <<em, mMap, mIndexForMap, pc, held, current, aborted, calls>>

HybridInit ==
    /\ em = Manager(MaxIndex + 1, MaxIndex + 2) /\ mMap = {} /\ mIndexForMap = 0
    /\ pc = [t \in Threads |-> "idle"] /\ held = {} /\ current = {}
    /\ aborted = FALSE /\ calls = 0

Inline(h) == h.index < MaxIndex
Gets(h) == IF Inline(h) THEN Resolves(em, h) ELSE h.index \in mMap

At(t, from, to) ==
    /\ pc[t] = from /\ pc' = [pc EXCEPT ![t] = to]
    /\ calls' = IF from = "idle" THEN calls + 1 ELSE calls
    /\ calls' <= MaxCalls

Gives(h) == held' = held \cup {h} /\ current' = {k \in current : k.index # h.index} \cup {h}

\* A generation that wraps around comes back: handles of the index are not kept beyond it.
Forgotten(indices) ==
    {h \in held : h.index \in indices /\ em.entries[h.index].live + 1 = Generations}

AddInline(t) ==
    /\ At(t, "idle", "idle") /\ em.first < MaxIndex
    /\ em' = Added(em, NoItem) /\ Gives(NextHandle(em))
    /\ UNCHANGED <<mMap, mIndexForMap, aborted>>

AddFindsNoRoom(t) ==
    /\ At(t, "idle", "addToMap") /\ em.first >= MaxIndex
    /\ UNCHANGED <<em, mMap, mIndexForMap, held, current, aborted>>

AddToMap(t) ==
    LET nextIndex == IF mIndexForMap = 0 THEN MaxIndex ELSE mIndexForMap IN
    /\ At(t, "addToMap", "idle") /\ nextIndex <= MaxMapIndex
    /\ aborted' = (nextIndex \in mMap)
    /\ Gives(Handle(nextIndex, 1))
    /\ mMap' = mMap \cup {nextIndex} /\ mIndexForMap' = nextIndex + 1
    /\ UNCHANGED em

\* A fixed handle is at least as recent as the others held for its index.
MayFix(h) == \A k \in held : k.index = h.index => k.gen <= h.gen

AddFixedInline(t, h) ==
    /\ At(t, "idle", "idle") /\ Inline(h) /\ MayFix(h)
    /\ em' = AddedFixed(em, h, NoItem) /\ Gives(h)
    /\ UNCHANGED <<mMap, mIndexForMap, aborted>>

CaughtUp(index) == IF index + 1 > mIndexForMap THEN index + 1 ELSE mIndexForMap

\* An index that is in the map is not given again (the code aborts).
AddFixedToMap(t, h) ==
    /\ At(t, "idle", "idle") /\ ~Inline(h) /\ h.index \notin mMap
    /\ mMap' = mMap \cup {h.index} /\ mIndexForMap' = CaughtUp(h.index) /\ Gives(h)
    /\ UNCHANGED <<em, aborted>>

Remove(t, h) ==
    /\ At(t, "idle", "idle") /\ current' = current \ {h}
    /\ \/ /\ Inline(h) /\ em' = Removed(em, h)
          /\ held' = IF Resolves(em, h) THEN held \ Forgotten({h.index}) ELSE held
          /\ UNCHANGED mMap
       \/ /\ ~Inline(h) /\ mMap' = mMap \ {h.index} /\ UNCHANGED <<em, held>>
    /\ UNCHANGED <<mIndexForMap, aborted>>

Clear(t) ==
    /\ At(t, "idle", "clearMap") /\ em' = Cleared(em)
    /\ held' = held \ Forgotten(0 .. MaxIndex - 1)
    /\ current' = {h \in current : ~Inline(h)}
    /\ UNCHANGED <<mMap, mIndexForMap, aborted>>

\* The indices of the map begin again, with the same generation: its handles are not kept.
ClearMap(t) ==
    /\ At(t, "clearMap", "idle") /\ mMap' = {} /\ mIndexForMap' = 0
    /\ held' = {h \in held : Inline(h)} /\ current' = {h \in current : Inline(h)}
    /\ UNCHANGED <<em, aborted>>

FixedHandles ==
    {Handle(i, g) : i \in 0 .. MaxIndex - 1, g \in 0 .. Generations - 1}
        \cup {Handle(i, 1) : i \in MaxIndex .. MaxMapIndex}

HybridNext ==
    \E t \in Threads :
        \/ AddInline(t) \/ AddFindsNoRoom(t) \/ AddToMap(t) \/ Clear(t) \/ ClearMap(t)
        \/ \E h \in FixedHandles \ {Invalid} : AddFixedInline(t, h) \/ AddFixedToMap(t, h)
        \/ \E h \in held : Remove(t, h)

----------------------------------------------------------------------------
(* Properties.                                                              *)

\* A handle leads to an item exactly as long as the entity it was given for is there: not
\* after it was removed, replaced or cleared, and its entry used again, however often.  And
\* add() never takes an index of the map that a fixed entity has, which would abort
\* (HybridEntityManager.h:61).
HandlesResolve == ~aborted /\ \A h \in held : Gets(h) <=> h \in current

=============================================================================
