-------------------------- MODULE ComponentManager --------------------------
(***************************************************************************)
(* ComponentManager: components that belong to entities, kept in an        *)
(* EntityManager of their own, with a map from an entity to the component  *)
(* that was last added as tracked.  The entities are those of the          *)
(* HybridEntityManager; the lookups of getByEntity and getByComponent are  *)
(* Resolves.                                                               *)
(***************************************************************************)
EXTENDS HybridEntityManager, Functions

CONSTANT MaxComponents                  \* 2^indexBits of the components

ASSUME ComponentAssumption == MaxComponents \in Nat

VARIABLES
    mData,
    mEntityToComponentMap,
    components          \* component handles the clients keep

componentVars == <<mData, mEntityToComponentMap, components>>
vars == <<hybridVars, componentVars>>

Init ==
    /\ HybridInit
    /\ mData = Manager(0, MaxComponents) /\ mEntityToComponentMap = <<>> /\ components = {}

Item(entity, tracked) == [entity |-> entity, tracked |-> tracked]

\* Each call is counted; the entities stay as they are.
Call ==
    /\ calls < MaxCalls /\ calls' = calls + 1
    /\ UNCHANGED <<em, mMap, mIndexForMap, pc, held, current, aborted>>

Tracks(entity, tracked, c) ==
    mEntityToComponentMap' =
        IF tracked
        THEN [e \in DOMAIN mEntityToComponentMap \cup {entity} |->
                 IF e = entity THEN c ELSE mEntityToComponentMap[e]]
        ELSE mEntityToComponentMap

AddComponent(entity, tracked) ==
    /\ Call
    /\ \/ /\ CanAdd(mData, mData.first)
          /\ mData' = Added(mData, Item(entity, tracked))
          /\ components' = components \cup {NextHandle(mData)}
          /\ Tracks(entity, tracked, NextHandle(mData))
       \/ /\ ~CanAdd(mData, mData.first) /\ Tracks(entity, tracked, Invalid)
          /\ UNCHANGED <<mData, components>>

\* Mutant: the entity keeps its component.
StaysMapped(c) == mEntityToComponentMap

Unmapped(c) ==
    LET item == mData.entries[c.index].item IN
    IF item.tracked THEN Restrict(mEntityToComponentMap, DOMAIN mEntityToComponentMap \ {item.entity})
    ELSE mEntityToComponentMap

\* As in HybridEntityManager, component handles are not kept beyond a wrap-around.
RemoveByComponent(c) ==
    /\ Call /\ mData' = Removed(mData, c)
    /\ \/ /\ Resolves(mData, c) /\ mEntityToComponentMap' = Unmapped(c)
          /\ components' = {k \in components :
                                k.index = c.index => mData.entries[k.index].live + 1 # Generations}
       \/ ~Resolves(mData, c) /\ UNCHANGED <<mEntityToComponentMap, components>>

RemoveByEntity(entity) ==
    RemoveByComponent(IF entity \in DOMAIN mEntityToComponentMap
                      THEN mEntityToComponentMap[entity] ELSE Invalid)

ClearComponents ==
    /\ Call /\ mData' = Cleared(mData) /\ mEntityToComponentMap' = <<>>
    /\ components' = {k \in components : mData.entries[k.index].live + 1 # Generations}

Next ==
    \/ HybridNext /\ UNCHANGED componentVars
    \/ \E entity \in held, tracked \in BOOLEAN : AddComponent(entity, tracked)
    \/ \E entity \in held : RemoveByEntity(entity)
    \/ \E c \in components : RemoveByComponent(c)
    \/ ClearComponents

Spec == Init /\ [][Next]_vars

----------------------------------------------------------------------------
(* Properties.                                                              *)

\* What the walk of addFixed (EntityManager.h:244) relies on to end: in both managers the
\* free list holds the entries that are not live and no other, each of them once.
FreeListsExact == FreeListIsExact(em) /\ FreeListIsExact(mData)

\* An entity that is mapped leads to a component that is there, that is tracked and that was
\* added for this very entity, unless the components were full (EntityManager.h:414).
TrackedResolves ==
    \A e \in DOMAIN mEntityToComponentMap :
        LET c == mEntityToComponentMap[e] IN
        \/ c = Invalid
        \/ Resolves(mData, c) /\ mData.entries[c.index].item = Item(e, TRUE)
=============================================================================
