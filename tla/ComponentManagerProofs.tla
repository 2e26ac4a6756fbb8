----------------------- MODULE ComponentManagerProofs -----------------------
(***************************************************************************)
(* Free lists, handles and tracked components are exact, for any number of *)
(* threads, of inline entries and of components, any number of calls, and  *)
(* any generation width of at least two bits.                              *)
(***************************************************************************)
EXTENDS ComponentManager, FiniteSetTheorems, FunctionTheorems, WellFoundedInduction, TLAPS

Gens == 0 .. Generations - 1
Handles == [index : Nat, gen : Nat]
Items == {NoItem} \cup [entity : Handles, tracked : BOOLEAN]
Entries == [gen : Gens, live : Gens, next : Nat, item : Items]
Managers ==
    [entries : UNION {[0 .. n - 1 -> Entries] : n \in Nat}, first : Nat, count : Nat, max : Nat]

Free(m) == DOMAIN m.entries \ Allocated(m)

\* d is the distance to the end of the list, an index N behind all entries: from first on the
\* links of the entries e lead through every index of F once, and to the end.
Chain(F, N, first, e, d) ==
    /\ d \in [0 .. N -> Nat] /\ d[N] = 0
    /\ first \in F \cup {N}
    /\ \A x \in F : /\ e[x].next \in F \cup {N}
                    /\ d[x] = d[e[x].next] + 1
                    /\ d[x] <= d[first]
    /\ \A x, y \in F \cup {N} : d[x] = d[y] => x = y

Listed(m) ==
    /\ m \in Managers
    /\ \E d : Chain(Free(m), Size(m), m.first, m.entries, d)
    /\ m.count = Cardinality(Allocated(m))

\* No handle is ahead of its entry; a current one is abreast of it, and the entry is in use.
HeldInv ==
    /\ held \subseteq Handles
    /\ \A h \in held : Inline(h) =>
           /\ h.gen <= em.entries[h.index].live
           /\ h.index \in Free(em) => h.gen # em.entries[h.index].live
           /\ h \in current <=> h.gen = em.entries[h.index].live
    /\ \A h \in held : ~Inline(h) => h.gen = 1 /\ (h \in current <=> h.index \in mMap)

\* The map's indices are behind maxIndex and before the one that is given out next.
MapInv ==
    /\ mIndexForMap \in Nat /\ (mIndexForMap = 0 \/ mIndexForMap > MaxIndex)
    /\ \A i \in mMap : i \in Nat /\ MaxIndex <= i /\ i < mIndexForMap
    /\ ~aborted

\* Neither is a component's handle, and a tracked one's entry is in use for its entity.
CompInv ==
    /\ \A i \in DOMAIN mData.entries : mData.entries[i].live # 0
    /\ \A c \in components :
           /\ c \in Handles /\ c.index \in DOMAIN mData.entries
           /\ c.gen <= mData.entries[c.index].live
           /\ c.index \in Free(mData) => c.gen # mData.entries[c.index].live
    /\ \A e \in DOMAIN mEntityToComponentMap :
           LET c == mEntityToComponentMap[e] IN
           \/ c = Invalid
           \/ /\ c \in Handles /\ c.index \in Allocated(mData)
              /\ mData.entries[c.index].live = c.gen
              /\ mData.entries[c.index].item = Item(e, TRUE)

EntityInv == Listed(em) /\ Size(em) = MaxIndex + 1 /\ HeldInv /\ MapInv
DataInv == Listed(mData) /\ CompInv
IInv == EntityInv /\ DataInv

----------------------------------------------------------------------------
(* Free lists as chains.                                                    *)

\* The well-ordering of the naturals, which stands for induction on an index.
LEMMA LeastNatural ==
    ASSUME NEW T \in SUBSET Nat, T # {}
    PROVE  \E m \in T : \A k \in T : m <= k
  <1> DEFINE R == OpToRel(<, Nat)
  <1>1. IsWellFoundedOn(R, Nat)
    BY NatLessThanWellFounded
  <1>2. \A x, y \in Nat : x < y => <<x, y>> \in R
    BY DEF OpToRel
  <1> HIDE DEF R
  <1>3. PICK m \in T : \A k \in T : ~(<<k, m>> \in R)
    BY <1>1, WFMin, Zenon
  <1>4. ASSUME NEW k \in T PROVE m <= k
    <2>1. k \in Nat /\ m \in Nat
      OBVIOUS
    <2>2. ~(k < m)
      BY <1>2, <1>3, <2>1
    <2> QED BY <2>1, <2>2
  <1> QED BY <1>4

\* What is used of a chain, piece by piece.
Pieces(F, N, first, e, d) ==
    /\ \A x \in F \cup {N} : x \in 0 .. N /\ d[x] \in Nat /\ d[x] <= d[first]
    /\ d[N] = 0 /\ first \in F \cup {N} /\ d[first] \in Nat
    /\ \A x \in F : /\ e[x].next \in F \cup {N} /\ d[e[x].next] \in Nat
                    /\ d[x] = d[e[x].next] + 1 /\ e[x].next # x
    /\ \A x, y \in F \cup {N} : d[x] = d[y] => x = y

\* They follow.
LEMMA ChainPieces ==
    ASSUME NEW N \in Nat, NEW F \in SUBSET (0 .. N - 1), NEW first, NEW e, NEW d,
           Chain(F, N, first, e, d)
    PROVE  Pieces(F, N, first, e, d)
  <1>1. \A x \in F \cup {N} : x \in 0 .. N /\ d[x] \in Nat /\ d[x] <= d[first]
    BY DEF Chain
  <1>2. d[N] = 0 /\ first \in F \cup {N} /\ d[first] \in Nat
    BY <1>1 DEF Chain
  <1>3. ASSUME NEW x \in F
        PROVE  /\ e[x].next \in F \cup {N} /\ d[e[x].next] \in Nat
               /\ d[x] = d[e[x].next] + 1 /\ e[x].next # x
    <2>1. e[x].next \in F \cup {N} /\ d[x] = d[e[x].next] + 1
      BY DEF Chain
    <2> DEFINE y == e[x].next
    <2> HIDE DEF y
    <2>2. y \in F \cup {N} /\ d[x] = d[y] + 1
      BY <2>1 DEF y
    <2>3. d[y] \in Nat /\ y # x
      BY <1>1, <2>2
    <2> QED BY <2>1, <2>3 DEF y
  <1>4. \A x, y \in F \cup {N} : d[x] = d[y] => x = y
    BY DEF Chain
  <1> QED BY <1>1, <1>2, <1>3, <1>4 DEF Pieces

\* Only the links of a chain matter to it.
LEMMA ChainSame ==
    ASSUME NEW N \in Nat, NEW F \in SUBSET (0 .. N - 1), NEW first, NEW e, NEW d,
           Chain(F, N, first, e, d), NEW f, \A x \in F : f[x].next = e[x].next
    PROVE  Chain(F, N, first, f, d)
  BY DEF Chain

\* Entries linked in order are a chain.
LEMMA ChainRange ==
    ASSUME NEW N \in Nat, NEW a \in 0 .. N, NEW e, \A x \in a .. N - 1 : e[x].next = x + 1
    PROVE  \E d : Chain(a .. N - 1, N, a, e, d)
  <1> DEFINE d == [x \in 0 .. N |-> N - x]
  <1>1. d \in [0 .. N -> Nat] /\ \A x \in 0 .. N : d[x] = N - x
    OBVIOUS
  <1> HIDE DEF d
  <1>2. ASSUME NEW x \in a .. N - 1
        PROVE  /\ e[x].next \in (a .. N - 1) \cup {N} /\ d[x] = d[e[x].next] + 1
               /\ d[x] <= d[a]
    <2>1. e[x].next = x + 1 /\ x \in 0 .. N /\ x + 1 \in 0 .. N /\ a \in 0 .. N
      OBVIOUS
    <2>2. d[x] = N - x /\ d[x + 1] = N - (x + 1) /\ d[a] = N - a
      BY <1>1, <2>1
    <2> QED BY <2>1, <2>2
  <1>3. d[N] = 0 /\ a \in (a .. N - 1) \cup {N}
    BY <1>1
  <1>4. ASSUME NEW x \in (a .. N - 1) \cup {N}, NEW y \in (a .. N - 1) \cup {N}, d[x] = d[y]
        PROVE  x = y
    <2>1. x \in 0 .. N /\ y \in 0 .. N
      OBVIOUS
    <2>2. d[x] = N - x /\ d[y] = N - y
      BY <1>1, <2>1
    <2>3. N - x = N - y
      BY <1>4, <2>2
    <2> QED BY <2>1, <2>3
  <1>5. Chain(a .. N - 1, N, a, e, d)
    BY <1>1, <1>2, <1>3, <1>4 DEF Chain
  <1> QED BY <1>5

\* Without its first index the chain begins at the second.
LEMMA ChainPop ==
    ASSUME NEW N \in Nat, NEW F \in SUBSET (0 .. N - 1), NEW first \in F, NEW e, NEW d,
           Chain(F, N, first, e, d)
    PROVE  Chain(F \ {first}, N, e[first].next, e, d)
  <1>0. Pieces(F, N, first, e, d)
    BY ChainPieces
  <1> DEFINE second == e[first].next
  <1>1. second \in F \cup {N} /\ d[second] \in Nat /\ d[first] = d[second] + 1 /\ second # first
    BY <1>0 DEF Pieces
  <1>2. \A x \in F \cup {N} : d[x] \in Nat /\ d[x] <= d[first]
    BY <1>0 DEF Pieces
  <1>3. \A x, y \in F \cup {N} : d[x] = d[y] => x = y
    BY <1>0 DEF Pieces
  <1> HIDE DEF second
  <1>4. ASSUME NEW x \in F \ {first}
        PROVE  /\ e[x].next \in (F \ {first}) \cup {N} /\ d[x] = d[e[x].next] + 1
               /\ d[x] <= d[second]
    <2> DEFINE y == e[x].next
    <2>1. x \in F /\ y \in F \cup {N} /\ d[y] \in Nat /\ d[x] = d[y] + 1
      BY <1>0 DEF Pieces
    <2> HIDE DEF y
    <2>2. d[x] # d[first] /\ y # first /\ d[x] <= d[second]
      BY <1>1, <1>2, <1>3, <2>1
    <2> QED BY <2>1, <2>2 DEF y
  <1> QED BY <1>1, <1>4 DEF Chain, second

\* An index in front of the first one.
LEMMA ChainPush ==
    ASSUME NEW N \in Nat, NEW F \in SUBSET (0 .. N - 1), NEW first, NEW e, NEW d,
           Chain(F, N, first, e, d), NEW i \in (0 .. N - 1) \ F, NEW f,
           f[i].next = first, \A x \in F : f[x].next = e[x].next
    PROVE  \E g : Chain(F \cup {i}, N, i, f, g)
  <1>0. Pieces(F, N, first, e, d)
    BY ChainPieces
  <1> DEFINE D == d[first]
             g == [d EXCEPT ![i] = D + 1]
  <1>1. \A x \in F \cup {N} : x \in 0 .. N /\ d[x] \in Nat /\ d[x] <= D
    BY <1>0 DEF Pieces
  <1>2. first \in F \cup {N} /\ first # i /\ i # N /\ D \in Nat /\ d[N] = 0
    BY <1>0 DEF Pieces
  <1>3. g \in [0 .. N -> Nat] /\ g[i] = D + 1 /\ \A x \in F \cup {N} : g[x] = d[x]
    BY <1>1, <1>2 DEF Chain
  <1>4. g[first] = D
    BY <1>2, <1>3
  <1>5. \A x \in F \cup {N} : g[x] \in Nat /\ g[x] <= D
    BY <1>1, <1>3
  <1> HIDE DEF g, D
  <1>6. ASSUME NEW x \in F \cup {i}
        PROVE  f[x].next \in F \cup {i, N} /\ g[x] = g[f[x].next] + 1 /\ g[x] <= g[i]
    <2>1. CASE x = i
      BY <1>2, <1>3, <1>4, <2>1
    <2>2. CASE x # i
      <3> DEFINE y == e[x].next
      <3>1. x \in F /\ y \in F \cup {N} /\ d[x] = d[y] + 1
        BY <2>2, <1>0 DEF Pieces
      <3>2. f[x].next = y
        BY <3>1
      <3> HIDE DEF y
      <3>3. g[x] = d[x] /\ g[y] = d[y] /\ g[x] \in Nat /\ g[x] <= D /\ g[i] = D + 1 /\ D \in Nat
        BY <1>2, <1>3, <1>5, <3>1
      <3>4. g[x] = g[y] + 1 /\ g[x] <= g[i]
        BY <3>1, <3>3
      <3> QED BY <3>1, <3>2, <3>4
    <2> QED BY <2>1, <2>2
  <1>7. \A x, y \in F \cup {i, N} : g[x] = g[y] => x = y
    <2>1. \A x, y \in F \cup {N} : g[x] = g[y] => x = y
      BY <1>3, <1>0 DEF Pieces
    <2>2. ASSUME NEW x \in F \cup {N} PROVE g[x] # g[i]
      <3>1. g[x] \in Nat /\ g[x] <= D /\ g[i] = D + 1 /\ D \in Nat
        BY <1>2, <1>3, <1>5
      <3> QED BY <3>1
    <2> QED BY <2>1, <2>2
  <1>8. g[N] = 0
    BY <1>2, <1>3
  <1>9. Chain(F \cup {i}, N, i, f, g)
    BY <1>3, <1>6, <1>7, <1>8 DEF Chain
  <1> QED BY <1>9

\* An index of the chain, but not the first one.
Follows(N, F, first, e, d, i) ==
    N \in Nat /\ F \in SUBSET (0 .. N - 1) /\ Chain(F, N, first, e, d) /\ i \in F /\ i # first

\* An index that is not the first one has exactly one before it.
LEMMA ChainPrevious ==
    ASSUME NEW N, NEW F, NEW first, NEW e, NEW d, NEW i, Follows(N, F, first, e, d, i)
    PROVE  /\ \E p \in F : e[p].next = i
           /\ \A p, q \in F : e[p].next = i /\ e[q].next = i => p = q
  <1> USE DEF Follows
  <1>0. Pieces(F, N, first, e, d)
    BY ChainPieces
  <1>1. \A x \in F \cup {N} : d[x] \in Nat /\ d[x] <= d[first]
    BY <1>0 DEF Pieces
  <1>2. first \in F \cup {N} /\ d[i] # d[first] /\ d[i] \in Nat /\ d[N] = 0
    BY <1>0 DEF Pieces
  <1> DEFINE T == {d[x] : x \in {y \in F \cup {N} : d[y] > d[i]}}
  <1>3. T \in SUBSET Nat /\ T # {}
    BY <1>1, <1>2
  <1>4. PICK m \in T : \A k \in T : m <= k
    <2> HIDE DEF T
    <2> QED BY <1>3, LeastNatural
  <1>5. PICK p \in F \cup {N} : d[p] = m /\ d[p] > d[i]
    BY <1>4
  <1>6. p \in F
    BY <1>2, <1>5
  <1> DEFINE y == e[p].next
  <1>7. y \in F \cup {N} /\ d[y] \in Nat /\ d[p] = d[y] + 1
    BY <1>6, <1>0 DEF Pieces
  <1> HIDE DEF y
  <1>8. ~(d[y] > d[i])
    <2>1. d[y] > d[i] => d[y] \in T
      BY <1>7
    <2> HIDE DEF T
    <2>2. d[y] > d[i] => m <= d[y]
      BY <1>4, <2>1
    <2> QED BY <1>5, <1>7, <2>2
  <1>9. d[y] = d[i]
    BY <1>2, <1>5, <1>7, <1>8
  <1>10. y = i
    BY <1>7, <1>9, <1>0 DEF Pieces
  <1>11. ASSUME NEW r \in F, NEW q \in F, e[r].next = i, e[q].next = i PROVE r = q
    <2>1. d[r] = d[i] + 1 /\ d[q] = d[i] + 1
      BY <1>11, <1>0 DEF Pieces
    <2> QED BY <2>1, <1>0 DEF Pieces
  <1> QED BY <1>6, <1>10, <1>11 DEF y

\* The entries f are those of e but for the link of p, which leads past i.
Cuts(N, F, first, e, d, i, p, f) ==
    /\ N \in Nat /\ F \in SUBSET (0 .. N - 1) /\ Chain(F, N, first, e, d)
    /\ i \in F /\ p \in F /\ e[p].next = i
    /\ f[p].next = e[i].next /\ \A x \in F \ {i, p} : f[x].next = e[x].next

\* An index inside the chain is cut out of it.
LEMMA ChainCut ==
    ASSUME NEW N, NEW F, NEW first, NEW e, NEW d, NEW i, NEW p, NEW f,
           Cuts(N, F, first, e, d, i, p, f)
    PROVE  \E g : Chain(F \ {i}, N, first, f, g)
  <1> USE DEF Cuts
  <1>0. Pieces(F, N, first, e, d)
    BY ChainPieces
  <1>1. \A x \in F \cup {N} : x \in 0 .. N /\ d[x] \in Nat /\ d[x] <= d[first]
    BY <1>0 DEF Pieces
  <1> DEFINE c == d[i]
             g == [x \in 0 .. N |-> IF d[x] > c THEN d[x] - 1 ELSE d[x]]
  <1>2. g \in [0 .. N -> Nat]
    BY <1>1 DEF Chain
  <1>3. \A x \in F \cup {N} : g[x] = IF d[x] > c THEN d[x] - 1 ELSE d[x]
    BY <1>1
  <1>4. d[p] = c + 1 /\ p # i /\ c \in Nat /\ first \in F \cup {N} /\ d[N] = 0
    BY <1>0 DEF Pieces
  <1>5. \A x, y \in F \cup {N} : d[x] = d[y] => x = y
    BY <1>0 DEF Pieces
  <1>6. \A x \in (F \cup {N}) \ {i} : d[x] # c
    BY <1>5
  <1> HIDE DEF g, c
  <1>7. first # i /\ g[N] = 0
    <2>1. d[first] # c
      BY <1>1, <1>4
    <2> QED BY <1>3, <1>4, <2>1 DEF c
  <1>8. ASSUME NEW x \in F \ {i}
        PROVE  /\ f[x].next \in (F \ {i}) \cup {N} /\ g[x] = g[f[x].next] + 1
               /\ g[x] <= g[first]
    <2>1. g[x] <= g[first]
      BY <1>1, <1>3, <1>4
    <2>2. CASE x = p
      <3> DEFINE y == e[i].next
      <3>1. f[x].next = y /\ y \in F \cup {N} /\ d[y] \in Nat /\ c = d[y] + 1 /\ y # i
        BY <2>2, <1>0 DEF c, Pieces
      <3> HIDE DEF y
      <3>2. g[y] = d[y] /\ g[x] = c
        BY <1>3, <1>4, <2>2, <3>1
      <3> QED BY <2>1, <3>1, <3>2
    <2>3. CASE x # p
      <3> DEFINE y == e[x].next
      <3>1. f[x].next = y /\ y \in F \cup {N} /\ d[y] \in Nat /\ d[x] = d[y] + 1
        BY <2>3, <1>0 DEF Pieces
      <3> HIDE DEF y
      <3>2. y # i
        BY <1>4, <1>5, <2>3, <3>1 DEF c
      <3>3. d[x] # c /\ d[y] # c
        BY <1>6, <3>1, <3>2
      <3>4. g[x] = g[y] + 1
        BY <1>3, <1>4, <3>1, <3>3
      <3> QED BY <2>1, <3>1, <3>2, <3>4
    <2> QED BY <2>2, <2>3
  <1>9. \A x, y \in (F \ {i}) \cup {N} : g[x] = g[y] => x = y
    <2> TAKE x, y \in (F \ {i}) \cup {N}
    <2>1. d[x] # c /\ d[y] # c
      BY <1>1, <1>4, <1>5 DEF c
    <2>2. g[x] = g[y] => d[x] = d[y]
      BY <1>1, <1>3, <1>4, <2>1
    <2> QED BY <1>5, <2>2
  <1>10. Chain(F \ {i}, N, first, f, g)
    BY <1>2, <1>4, <1>7, <1>8, <1>9 DEF Chain
  <1> QED BY <1>10

\* Every distance up to the first one's is that of an index.
LEMMA ChainOnto ==
    ASSUME NEW N \in Nat, NEW F \in SUBSET (0 .. N - 1), NEW first, NEW e, NEW d,
           Chain(F, N, first, e, d)
    PROVE  \A k \in 0 .. d[first] : \E x \in F \cup {N} : d[x] = k
  <1>0. Pieces(F, N, first, e, d)
    BY ChainPieces
  <1>1. \A x \in F \cup {N} : x \in 0 .. N /\ d[x] \in Nat
    BY DEF Chain
  <1>2. first \in F \cup {N} /\ d[first] \in Nat /\ d[N] = 0
    BY <1>1 DEF Chain
  <1> SUFFICES ASSUME NEW k0 \in 0 .. d[first], ~\E x \in F \cup {N} : d[x] = k0 PROVE FALSE
    OBVIOUS
  <1> DEFINE T == {k \in Nat : k <= d[first] /\ ~\E x \in F \cup {N} : d[x] = d[first] - k}
  <1>3. T \in SUBSET Nat /\ T # {}
    <2>1. d[first] - k0 \in T
      BY <1>2
    <2> QED BY <2>1
  <1>4. PICK m \in T : \A k \in T : m <= k
    <2> HIDE DEF T
    <2> QED BY <1>3, LeastNatural
  <1>5. m \in Nat /\ m <= d[first] /\ m # 0 /\ m - 1 \notin T
    BY <1>2, <1>4
  <1>6. PICK x \in F \cup {N} : d[x] = d[first] - (m - 1)
    BY <1>2, <1>5
  <1>7. x \in F
    BY <1>2, <1>5, <1>6
  <1> DEFINE y == e[x].next
  <1>8. y \in F \cup {N} /\ d[y] \in Nat /\ d[x] = d[y] + 1
    BY <1>7, <1>0 DEF Pieces
  <1>9. d[y] = d[first] - m
    BY <1>2, <1>5, <1>6, <1>8
  <1> QED BY <1>4, <1>8, <1>9

\* The distance of the first index is the length of the chain.
LEMMA ChainLength ==
    ASSUME NEW N \in Nat, NEW F \in SUBSET (0 .. N - 1), NEW first, NEW e, NEW d,
           Chain(F, N, first, e, d)
    PROVE  Cardinality(F) = d[first] /\ d[first] \in 0 .. N /\ (F = {} <=> first = N)
  <1>1. \A x \in F \cup {N} : x \in 0 .. N /\ d[x] \in Nat /\ d[x] <= d[first]
    BY DEF Chain
  <1>2. first \in F \cup {N} /\ d[first] \in Nat /\ d[N] = 0
    BY <1>1 DEF Chain
  <1> DEFINE g == [k \in 1 .. d[first] |-> CHOOSE x \in F \cup {N} : d[x] = k]
  <1>3. \A k \in 1 .. d[first] : g[k] \in F /\ d[g[k]] = k
    <2> TAKE k \in 1 .. d[first]
    <2>1. \E x \in F \cup {N} : d[x] = k
      BY <1>2, ChainOnto
    <2>2. g[k] \in F \cup {N} /\ d[g[k]] = k
      BY <2>1
    <2> HIDE DEF g
    <2> QED BY <1>2, <2>2
  <1>4. \A x \in F : \E k \in 1 .. d[first] : g[k] = x
    <2> TAKE x \in F
    <2>1. d[x] \in 1 .. d[first]
      BY <1>1 DEF Chain
    <2>2. g[d[x]] \in F /\ d[g[d[x]]] = d[x]
      BY <1>3, <2>1
    <2> QED BY <2>1, <2>2 DEF Chain
  <1>5. g \in [1 .. d[first] -> F] /\ \A j, k \in 1 .. d[first] : g[j] = g[k] => j = k
    BY <1>3
  <1>6. g \in Bijection(1 .. d[first], F)
    <2> HIDE DEF g
    <2> QED BY <1>4, <1>5, Fun_IsBij
  <1>7. Cardinality(F) = d[first]
    <2>1. ExistsBijection(1 .. d[first], F)
      BY <1>6 DEF ExistsBijection
    <2> QED BY <1>2, <2>1, FS_CountingElements
  <1>8. d[first] <= N
    <2>1. 0 \in Int /\ N - 1 \in Int
      OBVIOUS
    <2>2. IsFiniteSet(0 .. N - 1) /\ Cardinality(0 .. N - 1) = IF 0 > N - 1 THEN 0 ELSE N - 1 - 0 + 1
      BY <2>1, FS_Interval
    <2>3. Cardinality(0 .. N - 1) = N
      BY <2>2
    <2> QED BY <1>7, <2>2, <2>3, FS_Subset
  <1>9. F = {} <=> first = N
    BY <1>1, <1>2 DEF Chain
  <1> QED BY <1>2, <1>7, <1>8, <1>9

----------------------------------------------------------------------------
(* Managers whose free list is a chain.                                     *)

\* The entries of a manager are those from index 0 to its size.
LEMMA ManagerParts ==
    ASSUME NEW m \in Managers
    PROVE  /\ Size(m) \in Nat /\ DOMAIN m.entries = 0 .. Size(m) - 1
           /\ m.entries \in [0 .. Size(m) - 1 -> Entries]
           /\ m.first \in Nat /\ m.count \in Nat /\ m.max \in Nat
           /\ m = [entries |-> m.entries, first |-> m.first, count |-> m.count, max |-> m.max]
           /\ Free(m) = {i \in 0 .. Size(m) - 1 : m.entries[i].live # m.entries[i].gen}
           /\ Allocated(m) = {i \in 0 .. Size(m) - 1 : m.entries[i].live = m.entries[i].gen}
           /\ IsFiniteSet(Allocated(m))
  <1>1. PICK n \in Nat : m.entries \in [0 .. n - 1 -> Entries]
    BY DEF Managers
  <1>2. DOMAIN m.entries = 0 .. n - 1
    BY <1>1
  <1>3. IsFiniteSet(0 .. n - 1) /\ Cardinality(0 .. n - 1) = n
    <2>1. 0 \in Int /\ n - 1 \in Int
      OBVIOUS
    <2>2. IsFiniteSet(0 .. n - 1)
          /\ Cardinality(0 .. n - 1) = IF 0 > n - 1 THEN 0 ELSE n - 1 - 0 + 1
      BY <2>1, FS_Interval
    <2> QED BY <2>2
  <1>4. Size(m) = n
    BY <1>2, <1>3 DEF Size
  <1>5. m.first \in Nat /\ m.count \in Nat /\ m.max \in Nat
        /\ m = [entries |-> m.entries, first |-> m.first, count |-> m.count, max |-> m.max]
    BY DEF Managers
  <1>6. /\ Allocated(m) = {i \in 0 .. n - 1 : m.entries[i].live = m.entries[i].gen}
        /\ Free(m) = {i \in 0 .. n - 1 : m.entries[i].live # m.entries[i].gen}
    BY <1>2 DEF Allocated, Free
  <1>7. IsFiniteSet(Allocated(m))
    <2>1. Allocated(m) \in SUBSET (0 .. n - 1)
      BY <1>6
    <2> QED BY <1>3, <2>1, FS_Subset
  <1> QED BY <1>1, <1>2, <1>4, <1>5, <1>6, <1>7

\* n entries, of which the free ones are those of F, a chain from first, and count are not.
Made(n, e, first, count, F) ==
    /\ n \in Nat /\ e \in [0 .. n - 1 -> Entries] /\ F \in SUBSET (0 .. n - 1)
    /\ \A i \in 0 .. n - 1 : i \in F <=> e[i].live # e[i].gen
    /\ \E d : Chain(F, n, first, e, d)
    /\ count = Cardinality((0 .. n - 1) \ F)

\* A manager made of them.
LEMMA ListedIs ==
    ASSUME NEW n, NEW e, NEW first, NEW count, NEW max \in Nat, NEW F, Made(n, e, first, count, F)
    PROVE  LET m == [entries |-> e, first |-> first, count |-> count, max |-> max]
           IN  Listed(m) /\ Size(m) = n /\ Free(m) = F
  <1> DEFINE m == [entries |-> e, first |-> first, count |-> count, max |-> max]
  <1>0. /\ n \in Nat /\ e \in [0 .. n - 1 -> Entries] /\ F \in SUBSET (0 .. n - 1)
        /\ \A i \in 0 .. n - 1 : i \in F <=> e[i].live # e[i].gen
        /\ \E d : Chain(F, n, first, e, d)
        /\ count = Cardinality((0 .. n - 1) \ F)
    BY DEF Made
  <1>1. first \in Nat
    BY <1>0 DEF Chain
  <1>2. IsFiniteSet(0 .. n - 1) /\ Cardinality(0 .. n - 1) = n
    <2>1. 0 \in Int /\ n - 1 \in Int
      BY <1>0
    <2>2. IsFiniteSet(0 .. n - 1)
          /\ Cardinality(0 .. n - 1) = IF 0 > n - 1 THEN 0 ELSE n - 1 - 0 + 1
      BY <2>1, FS_Interval
    <2> QED BY <1>0, <2>2
  <1>3. count \in Nat
    <2>1. (0 .. n - 1) \ F \in SUBSET (0 .. n - 1)
      OBVIOUS
    <2>2. IsFiniteSet((0 .. n - 1) \ F)
      BY <1>2, <2>1, FS_Subset
    <2> QED BY <1>0, <2>2, FS_CardinalityType
  <1>4. m \in Managers
    BY <1>0, <1>1, <1>3 DEF Managers
  <1>5. DOMAIN m.entries = 0 .. n - 1 /\ m.entries = e /\ m.first = first /\ m.count = count
    BY <1>0
  <1> HIDE DEF m
  <1>6. Size(m) = n
    BY <1>0, <1>2, <1>5 DEF Size
  <1>7. Free(m) = F /\ Allocated(m) = (0 .. n - 1) \ F
    BY <1>0, <1>5 DEF Free, Allocated
  <1>8. Listed(m)
    BY <1>0, <1>4, <1>5, <1>6, <1>7 DEF Listed
  <1> QED BY <1>6, <1>7, <1>8 DEF m

\* The walk over a free list, which the code makes link by link.
Walk(m, w, n) ==
    IF n = 0 THEN m.first
    ELSE IF w[n - 1] \in DOMAIN m.entries THEN m.entries[w[n - 1]].next
    ELSE Size(m)

\* The walk of a manager's free list follows the chain, and stays at its end.
LEMMA WalkIs ==
    ASSUME NEW m, Listed(m)
    PROVE  \E d : /\ Chain(Free(m), Size(m), m.first, m.entries, d)
                  /\ \A n \in 0 .. Size(m) :
                        IF n <= d[m.first]
                        THEN /\ FreeList(m)[n] \in Free(m) \cup {Size(m)}
                             /\ d[FreeList(m)[n]] = d[m.first] - n
                        ELSE FreeList(m)[n] = Size(m)
  <1> DEFINE N == Size(m)
             F == Free(m)
             e == m.entries
             first == m.first
  <1>1. /\ m \in Managers /\ N \in Nat /\ DOMAIN e = 0 .. N - 1 /\ F \in SUBSET (0 .. N - 1)
    BY ManagerParts DEF Listed
  <1>2. PICK d : Chain(F, N, first, e, d)
    BY DEF Listed
  <1> DEFINE D == d[first]
  <1> HIDE DEF N, F, e, first
  <1>3. Pieces(F, N, first, e, d) /\ D \in Nat
    <2>1. Pieces(F, N, first, e, d)
      BY <1>1, <1>2, ChainPieces
    <2> QED BY <2>1 DEF Pieces
  <1>4. \A k \in 0 .. D : \E x \in F \cup {N} : d[x] = k
    BY <1>1, <1>2, ChainOnto
  <1> HIDE DEF D
  <1> DEFINE at(n) == IF n <= D THEN CHOOSE x \in F \cup {N} : d[x] = D - n ELSE N
             w == [n \in 0 .. N |-> at(n)]
  <1>5. \A n \in 0 .. N : n <= D => at(n) \in F \cup {N} /\ d[at(n)] = D - n
    <2> TAKE n \in 0 .. N
    <2> HAVE n <= D
    <2>1. D - n \in 0 .. D
      BY <1>3
    <2>2. \E x \in F \cup {N} : d[x] = D - n
      BY <1>4, <2>1
    <2> QED BY <2>2
  <1>6. \A n \in 0 .. N : ~(n <= D) => at(n) = N
    OBVIOUS
  <1> HIDE DEF at
  <1>7. \A n \in 0 .. N : w[n] = Walk(m, w, n)
    <2> TAKE n \in 0 .. N
    <2> DEFINE k == n - 1
    <2>1. CASE n = 0
      <3>1. at(0) \in F \cup {N} /\ d[at(0)] = D
        BY <1>1, <1>3, <1>5
      <3>2. at(0) = first
        BY <1>3, <3>1 DEF Pieces, D
      <3> QED BY <1>1, <2>1, <3>2 DEF Walk, first
    <2>2. CASE n # 0
      <3>0. k \in 0 .. N /\ w[k] = at(k) /\ w[n] = at(n) /\ n = k + 1
        BY <1>1, <2>2
      <3> HIDE DEF k, w
      <3>1. CASE n <= D
        <4>1. at(k) \in F \cup {N} /\ d[at(k)] = D - k
          BY <1>3, <1>5, <3>0, <3>1
        <4>2. at(k) \in F
          BY <1>3, <3>0, <3>1, <4>1 DEF Pieces
        <4>3. /\ e[at(k)].next \in F \cup {N} /\ d[e[at(k)].next] \in Nat
              /\ d[at(k)] = d[e[at(k)].next] + 1
          BY <1>3, <4>2 DEF Pieces
        <4>4. d[e[at(k)].next] = D - n
          BY <1>3, <3>0, <4>1, <4>3
        <4>5. at(n) \in F \cup {N} /\ d[at(n)] = D - n
          BY <1>5, <3>1
        <4>6. at(n) = e[at(k)].next
          BY <1>3, <4>3, <4>4, <4>5 DEF Pieces
        <4>7. at(k) \in DOMAIN e
          BY <1>1, <4>2
        <4> QED BY <2>2, <3>0, <4>6, <4>7 DEF Walk, k, e
      <3>2. CASE ~(n <= D)
        <4>1. at(k) = N
          <5>1. CASE k <= D
            <6>1. at(k) \in F \cup {N} /\ d[at(k)] = 0
              BY <1>3, <1>5, <3>0, <3>2, <5>1
            <6> QED BY <1>3, <6>1 DEF Pieces
          <5>2. CASE ~(k <= D)
            BY <1>6, <3>0, <5>2
          <5> QED BY <5>1, <5>2
        <4>2. at(k) \notin DOMAIN e /\ at(n) = N
          BY <1>1, <1>6, <3>2, <4>1
        <4> QED BY <2>2, <3>0, <4>2 DEF Walk, k, e, N
      <3> QED BY <3>1, <3>2
    <2> QED BY <2>1, <2>2
  <1>8. FreeList(m) = CHOOSE f : f = [n \in 0 .. N |-> Walk(m, f, n)]
    BY DEF FreeList, Walk, N
  <1> DEFINE f == FreeList(m)
  <1>9. f = [n \in 0 .. N |-> Walk(m, f, n)]
    <2>1. w = [n \in 0 .. N |-> w[n]]
      OBVIOUS
    <2> HIDE DEF w
    <2>2. w = [n \in 0 .. N |-> Walk(m, w, n)]
      BY <1>7, <2>1
    <2> QED BY <1>8, <2>2
  <1> HIDE DEF f
  <1>10. \A n \in 0 .. N : f[n] = Walk(m, f, n)
    BY <1>9
  <1>11. \A n \in 0 .. N : f[n] = w[n]
    <2> SUFFICES ASSUME NEW n0 \in 0 .. N, f[n0] # w[n0] PROVE FALSE
      OBVIOUS
    <2> DEFINE T == {n \in 0 .. N : f[n] # w[n]}
    <2>1. T \in SUBSET Nat /\ T # {}
      BY <1>1
    <2> HIDE DEF T
    <2>2. PICK n \in T : \A k \in T : n <= k
      BY <2>1, LeastNatural
    <2> HIDE DEF w
    <2>3. n \in 0 .. N /\ n \in Nat /\ f[n] # w[n]
      BY <1>1, <2>2 DEF T
    <2>4. CASE n = 0
      BY <1>7, <1>10, <2>3, <2>4 DEF Walk
    <2>5. CASE n # 0
      <3>1. n - 1 \in 0 .. N /\ n - 1 \notin T
        BY <1>1, <2>2, <2>3, <2>5
      <3>2. f[n - 1] = w[n - 1]
        BY <3>1 DEF T
      <3> QED BY <1>7, <1>10, <2>3, <2>5, <3>2 DEF Walk
    <2> QED BY <2>4, <2>5
  <1>12. \A n \in 0 .. N : w[n] = at(n)
    OBVIOUS
  <1> HIDE DEF w
  <1>13. ASSUME NEW n \in 0 .. N
         PROVE  IF n <= D THEN f[n] \in F \cup {N} /\ d[f[n]] = D - n ELSE f[n] = N
    BY <1>5, <1>6, <1>11, <1>12
  <1> QED BY <1>2, <1>13 DEF f, D, N, F, e, first

\* What the properties of ComponentManager say of the two free lists.
LEMMA ListIsExact ==
    ASSUME NEW m, Listed(m)
    PROVE  FreeIndices(m) = Free(m) /\ FreeListIsExact(m)
  <1> DEFINE N == Size(m)
             F == Free(m)
             e == m.entries
             first == m.first
             f == FreeList(m)
  <1>1. /\ m \in Managers /\ N \in Nat /\ DOMAIN e = 0 .. N - 1 /\ F \in SUBSET (0 .. N - 1)
    BY ManagerParts DEF Listed
  <1>2. PICK d : /\ Chain(F, N, first, e, d)
                 /\ \A n \in 0 .. N :
                        IF n <= d[first]
                        THEN f[n] \in F \cup {N} /\ d[f[n]] = d[first] - n
                        ELSE f[n] = N
    BY WalkIs
  <1> HIDE DEF N, F, e, first, f
  <1>3. Pieces(F, N, first, e, d)
    BY <1>1, <1>2, ChainPieces
  <1>4. Cardinality(F) = d[first] /\ d[first] \in 0 .. N
    BY <1>1, <1>2, ChainLength
  <1>5. {f[n] : n \in 0 .. N} \cap DOMAIN e = F
    <2>1. ASSUME NEW n \in 0 .. N, f[n] \in DOMAIN e PROVE f[n] \in F
      <3>1. f[n] \in F \cup {N}
        BY <1>2
      <3> QED BY <1>1, <2>1, <3>1
    <2>2. ASSUME NEW x \in F PROVE \E n \in 0 .. N : f[n] = x
      <3>1. d[x] \in Nat /\ d[x] <= d[first]
        BY <1>3 DEF Pieces
      <3>2. d[first] - d[x] \in 0 .. N /\ d[first] - d[x] <= d[first]
        BY <1>1, <1>4, <3>1
      <3> DEFINE n == d[first] - d[x]
      <3>3. f[n] \in F \cup {N} /\ d[f[n]] = d[first] - n
        BY <1>2, <3>2
      <3>4. d[f[n]] = d[x]
        BY <1>4, <3>1, <3>3
      <3> HIDE DEF n
      <3>5. f[n] = x
        BY <1>3, <3>3, <3>4 DEF Pieces
      <3> QED BY <3>2, <3>5 DEF n
    <2> QED BY <1>1, <2>1, <2>2
  <1>6. FreeIndices(m) = F
    BY <1>5 DEF FreeIndices, f, N, e
  <1>7. f[d[first]] = N
    <2>1. f[d[first]] \in F \cup {N} /\ d[f[d[first]]] = d[first] - d[first]
      BY <1>2, <1>4
    <2>2. d[f[d[first]]] = d[N]
      BY <1>3, <1>4, <2>1 DEF Pieces
    <2> QED BY <1>3, <2>1, <2>2 DEF Pieces
  <1>8. f[Cardinality(FreeIndices(m))] = N
    BY <1>4, <1>6, <1>7
  <1>9. F = DOMAIN m.entries \ Allocated(m)
    BY DEF F, Free
  <1> QED BY <1>6, <1>8, <1>9 DEF FreeListIsExact, Listed, f, N, F

----------------------------------------------------------------------------
(* The operations keep a manager's free list a chain.                       *)

\* The generation that follows is another one, and is none of handle 0's.
LEMMA NextGenerationIs ==
    ASSUME NEW g \in Gens
    PROVE  /\ NextGeneration(g) \in Gens /\ NextGeneration(g) # 0
           /\ NextGeneration(g) # g
           /\ g + 1 # Generations => NextGeneration(g) = g + 1
           /\ NextGeneration(1) \in Gens /\ NextGeneration(1) # 0
  BY GenerationsAssumption DEF Gens, NextGeneration

\* A new manager: every entry is free.
LEMMA ManagerListed ==
    ASSUME NEW n \in Nat, NEW max \in Nat
    PROVE  Listed(Manager(n, max)) /\ Size(Manager(n, max)) = n /\ Free(Manager(n, max)) = 0 .. n - 1
  <1> DEFINE e == [i \in 0 .. n - 1 |-> Entry(0, NextGeneration(1), i + 1)]
  <1>1. e \in [0 .. n - 1 -> Entries]
    BY NextGenerationIs, GenerationsAssumption DEF Entries, Entry, Gens, Items
  <1>2. \A i \in 0 .. n - 1 : e[i].next = i + 1 /\ e[i].live # e[i].gen
    BY NextGenerationIs, GenerationsAssumption DEF Entry, Gens
  <1> HIDE DEF e
  <1>3. \A i \in 0 .. n - 1 : i \in 0 .. n - 1 <=> e[i].live # e[i].gen
    BY <1>2
  <1>4. \E d : Chain(0 .. n - 1, n, 0, e, d)
    BY <1>2, ChainRange
  <1>5. Cardinality((0 .. n - 1) \ (0 .. n - 1)) = 0
    BY FS_EmptySet
  <1>6. Manager(n, max) = [entries |-> e, first |-> 0, count |-> 0, max |-> max]
    BY DEF Manager, e
  <1> DEFINE F == 0 .. n - 1
  <1> HIDE DEF F
  <1>7. LET m == [entries |-> e, first |-> 0, count |-> 0, max |-> max]
        IN  Listed(m) /\ Size(m) = n /\ Free(m) = F
    <2>1. Made(n, e, 0, 0, F)
      BY <1>1, <1>3, <1>4, <1>5 DEF F, Made
    <2> QED BY <2>1, ListedIs
  <1> QED BY <1>6, <1>7 DEF F

\* clear: every entry is free again and has the next generation.
LEMMA ClearedListed ==
    ASSUME NEW m, Listed(m)
    PROVE  /\ Listed(Cleared(m)) /\ Size(Cleared(m)) = Size(m)
           /\ Free(Cleared(m)) = 0 .. Size(m) - 1 /\ Cleared(m).max = m.max
           /\ \A i \in 0 .. Size(m) - 1 :
                  Cleared(m).entries[i].live = NextGeneration(m.entries[i].live)
  <1> DEFINE n == Size(m)
             e == [i \in 0 .. n - 1 |->
                      [m.entries[i] EXCEPT !.gen = 0, !.next = i + 1,
                                           !.live = NextGeneration(@)]]
  <1>1. /\ m \in Managers /\ n \in Nat /\ DOMAIN m.entries = 0 .. n - 1 /\ m.max \in Nat
        /\ m.entries \in [0 .. n - 1 -> Entries]
        /\ m = [entries |-> m.entries, first |-> m.first, count |-> m.count, max |-> m.max]
    BY ManagerParts DEF Listed
  <1>2. Cleared(m) = [entries |-> e, first |-> 0, count |-> 0, max |-> m.max]
    <2> DEFINE f == [i \in DOMAIN m.entries |->
                        [m.entries[i] EXCEPT !.gen = 0, !.next = i + 1, !.live = NextGeneration(@)]]
    <2>1. Cleared(m) = [m EXCEPT !.entries = f, !.first = 0, !.count = 0]
      BY DEF Cleared
    <2>2. f = e
      BY <1>1
    <2> HIDE DEF e, f
    <2> QED BY <1>1, <2>1, <2>2
  <1> HIDE DEF n
  <1>3. ASSUME NEW i \in 0 .. n - 1
        PROVE  e[i] \in Entries /\ e[i].next = i + 1 /\ e[i].gen = 0 /\ e[i].live # 0
               /\ e[i].live = NextGeneration(m.entries[i].live)
    <2>1. m.entries[i] \in Entries /\ m.entries[i].live \in Gens
      BY <1>1 DEF Entries
    <2>2. NextGeneration(m.entries[i].live) \in Gens /\ NextGeneration(m.entries[i].live) # 0
      BY <2>1, NextGenerationIs
    <2> DEFINE r == m.entries[i]
               g == NextGeneration(m.entries[i].live)
    <2>3. e[i] = [r EXCEPT !.gen = 0, !.next = i + 1, !.live = g]
      OBVIOUS
    <2> HIDE DEF r, g
    <2>4. r \in Entries /\ g \in Gens /\ 0 \in Gens /\ i + 1 \in Nat
      BY <1>1, <2>1, <2>2, GenerationsAssumption DEF r, g, Gens
    <2>5. e[i] = [gen |-> 0, live |-> g, next |-> i + 1, item |-> r.item]
      BY <2>3, <2>4 DEF Entries
    <2>6. e[i] \in Entries /\ e[i].next = i + 1 /\ e[i].gen = 0 /\ e[i].live = g
      BY <2>4, <2>5 DEF Entries
    <2> QED BY <2>2, <2>6 DEF g
  <1>4. e \in [0 .. n - 1 -> Entries]
    BY <1>3
  <1> HIDE DEF e
  <1>5. \A i \in 0 .. n - 1 : i \in 0 .. n - 1 <=> e[i].live # e[i].gen
    BY <1>3
  <1>6. \E d : Chain(0 .. n - 1, n, 0, e, d)
    <2>1. n \in Nat /\ 0 \in 0 .. n /\ \A i \in 0 .. n - 1 : e[i].next = i + 1
      BY <1>1, <1>3
    <2> QED BY <2>1, ChainRange
  <1>7. Cardinality((0 .. n - 1) \ (0 .. n - 1)) = 0
    BY FS_EmptySet
  <1> DEFINE F == 0 .. n - 1
  <1> HIDE DEF F
  <1>8. LET c == [entries |-> e, first |-> 0, count |-> 0, max |-> m.max]
        IN  Listed(c) /\ Size(c) = n /\ Free(c) = F
    <2>1. Made(n, e, 0, 0, F)
      BY <1>1, <1>4, <1>5, <1>6, <1>7 DEF F, Made
    <2> DEFINE max == m.max
    <2>2. max \in Nat
      BY <1>1
    <2> HIDE DEF max
    <2>3. LET c == [entries |-> e, first |-> 0, count |-> 0, max |-> max]
          IN  Listed(c) /\ Size(c) = n /\ Free(c) = F
      BY <2>1, <2>2, ListedIs
    <2> QED BY <2>3 DEF max
  <1> QED BY <1>2, <1>3, <1>8 DEF F, n

\* remove, with the handle of an entry that is in use: the entry is the first free one.
LEMMA RemovedListed ==
    ASSUME NEW m, Listed(m), NEW h, Resolves(m, h), h.index \notin Free(m)
    PROVE  LET r == Removed(m, h)
               i == h.index
           IN  /\ Listed(r) /\ Size(r) = Size(m) /\ Free(r) = Free(m) \cup {i} /\ r.max = m.max
               /\ r.entries[i].live = NextGeneration(m.entries[i].live)
               /\ \A x \in 0 .. Size(m) - 1 : x # i => r.entries[x] = m.entries[x]
  <1> DEFINE n == Size(m)
             i == h.index
             F == Free(m)
             new == [m.entries[i] EXCEPT !.live = NextGeneration(@), !.next = m.first]
             e == [m.entries EXCEPT ![i] = new]
  <1>1. /\ m \in Managers /\ n \in Nat /\ DOMAIN m.entries = 0 .. n - 1 /\ m.max \in Nat
        /\ m.entries \in [0 .. n - 1 -> Entries] /\ m.count \in Nat /\ m.first \in Nat
        /\ m = [entries |-> m.entries, first |-> m.first, count |-> m.count, max |-> m.max]
        /\ F = {x \in 0 .. n - 1 : m.entries[x].live # m.entries[x].gen}
        /\ Allocated(m) = {x \in 0 .. n - 1 : m.entries[x].live = m.entries[x].gen}
        /\ IsFiniteSet(Allocated(m)) /\ m.count = Cardinality(Allocated(m))
    BY ManagerParts DEF Listed
  <1>2. i \in 0 .. n - 1 /\ i \in Allocated(m)
    BY <1>1 DEF Resolves
  <1>3. Removed(m, h) = [entries |-> e, first |-> i, count |-> m.count - 1, max |-> m.max]
    BY <1>1, <1>2 DEF Removed
  <1> HIDE DEF n
  <1>4. new \in Entries /\ new.live = NextGeneration(m.entries[i].live) /\ new.live # new.gen
        /\ new.next = m.first
    <2>1. m.entries[i] \in Entries /\ m.entries[i].live \in Gens
      BY <1>1, <1>2 DEF Entries
    <2> DEFINE r == m.entries[i]
               g == NextGeneration(m.entries[i].live)
    <2>2. g \in Gens /\ g # r.live
      BY <2>1, NextGenerationIs
    <2>3. r.gen = r.live
      BY <1>1, <1>2
    <2>4. new = [r EXCEPT !.live = g, !.next = m.first] /\ r \in Entries
      BY <2>1
    <2> HIDE DEF r, g, new
    <2>5. new \in Entries /\ new.live = g /\ new.gen = r.gen /\ new.next = m.first
      BY <1>1, <2>2, <2>4 DEF Entries
    <2> QED BY <2>2, <2>3, <2>5 DEF g
  <1> HIDE DEF new
  <1>5. e \in [0 .. n - 1 -> Entries] /\ e[i] = new /\ \A x \in 0 .. n - 1 : x # i => e[x] = m.entries[x]
    BY <1>1, <1>2, <1>4
  <1> HIDE DEF e
  <1>6. (\A x \in 0 .. n - 1 : x \in F \cup {i} <=> e[x].live # e[x].gen) /\ i \notin F /\ F \in SUBSET (0 .. n - 1)
    BY <1>1, <1>2, <1>4, <1>5
  <1>7. \E d : Chain(F \cup {i}, n, i, e, d)
    <2>1. PICK d : Chain(F, n, m.first, m.entries, d)
      BY DEF Listed, n
    <2>2. i \in (0 .. n - 1) \ F /\ e[i].next = m.first /\ \A x \in F : e[x].next = m.entries[x].next
      BY <1>2, <1>4, <1>5, <1>6
    <2> DEFINE first == m.first
               old == m.entries
    <2>3. /\ Chain(F, n, first, old, d) /\ i \in (0 .. n - 1) \ F /\ e[i].next = first
          /\ \A x \in F : e[x].next = old[x].next
          /\ n \in Nat /\ F \in SUBSET (0 .. n - 1)
      BY <1>1, <1>6, <2>1, <2>2
    <2> HIDE DEF i, F, first, old
    <2> QED BY <2>3, ChainPush
  <1>8. m.count - 1 = Cardinality((0 .. n - 1) \ (F \cup {i}))
    <2>1. (0 .. n - 1) \ (F \cup {i}) = Allocated(m) \ {i}
      BY <1>1
    <2>2. Cardinality(Allocated(m) \ {i}) = Cardinality(Allocated(m)) - 1
      BY <1>1, <1>2, FS_RemoveElement
    <2> QED BY <1>1, <2>1, <2>2
  <1> DEFINE G == F \cup {i}
             count == m.count - 1
             max == m.max
  <1> HIDE DEF G, count, max, i, F
  <1>a. Made(n, e, i, count, G) /\ max \in Nat
    <2>1. n \in Nat /\ e \in [0 .. n - 1 -> Entries] /\ G \in SUBSET (0 .. n - 1) /\ max \in Nat
      BY <1>1, <1>2, <1>5, <1>6 DEF G, max
    <2>2. \A x \in 0 .. n - 1 : x \in G <=> e[x].live # e[x].gen
      BY <1>6 DEF G
    <2>3. count = Cardinality((0 .. n - 1) \ G)
      BY <1>8 DEF G, count
    <2> QED BY <1>7, <2>1, <2>2, <2>3 DEF Made, G
  <1>9. LET c == [entries |-> e, first |-> i, count |-> count, max |-> max]
        IN  Listed(c) /\ Size(c) = n /\ Free(c) = G
    BY <1>a, ListedIs
  <1> QED BY <1>3, <1>4, <1>5, <1>9 DEF G, count, max, n, i, F

\* The vector grows when its free list is empty, and what it gets is a chain.
LEMMA GrownListed ==
    ASSUME NEW m, Listed(m), m.first < Size(m) \/ CanAdd(m, m.first)
    PROVE  LET g == [m EXCEPT !.entries = Grown(m, m.first)]
           IN  /\ Listed(g) /\ m.first \in Free(g) /\ Size(m) <= Size(g)
               /\ g.first = m.first /\ g.count = m.count /\ g.max = m.max
               /\ \A x \in 0 .. Size(m) - 1 : g.entries[x] = m.entries[x]
               /\ \A x \in Size(m) .. Size(g) - 1 : g.entries[x] = Entry(0, 1, x + 1)
               /\ m.first < Size(m) => g = m
  <1> DEFINE n == Size(m)
             i == m.first
             F == Free(m)
             g == [m EXCEPT !.entries = Grown(m, m.first)]
  <1>1. /\ m \in Managers /\ n \in Nat /\ DOMAIN m.entries = 0 .. n - 1 /\ m.max \in Nat
        /\ m.entries \in [0 .. n - 1 -> Entries] /\ m.count \in Nat /\ i \in Nat
        /\ m = [entries |-> m.entries, first |-> m.first, count |-> m.count, max |-> m.max]
        /\ F = {x \in 0 .. n - 1 : m.entries[x].live # m.entries[x].gen}
        /\ Allocated(m) = {x \in 0 .. n - 1 : m.entries[x].live = m.entries[x].gen}
        /\ m.count = Cardinality(Allocated(m))
    BY ManagerParts DEF Listed
  <1>2. PICK d : Chain(F, n, i, m.entries, d)
    BY DEF Listed
  <1>3. F \in SUBSET (0 .. n - 1) /\ i \in F \cup {n} /\ (F = {} <=> i = n)
    <2>1. F \in SUBSET (0 .. n - 1)
      BY <1>1
    <2> DEFINE e == m.entries
    <2>a. n \in Nat /\ F \in SUBSET (0 .. n - 1) /\ Chain(F, n, i, e, d)
      BY <1>1, <1>2, <2>1
    <2> HIDE DEF n, i, F, e
    <2>2. F = {} <=> i = n
      BY <2>a, ChainLength
    <2> QED BY <1>2, <2>1, <2>2 DEF Chain
  <1> HIDE DEF n
  <1>4. CASE i < n
    <2>1. Grown(m, m.first) = m.entries
      BY <1>4 DEF Grown, n
    <2>2. g = m
      BY <1>1, <2>1
    <2>3. i \in F
      BY <1>1, <1>3, <1>4
    <2> HIDE DEF g, F, i
    <2> QED BY <1>1, <2>2, <2>3 DEF g, F, i, n
  <1>5. CASE ~(i < n)
    <2>1. i = n /\ F = {} /\ i < m.max
      BY <1>1, <1>3, <1>5 DEF CanAdd, n
    <2> DEFINE wanted == IF 2 * (i + 1) > m.max THEN m.max ELSE 2 * (i + 1)
               e == [x \in 0 .. wanted - 1 |-> IF x < n THEN m.entries[x] ELSE Entry(0, 1, x + 1)]
    <2>2. Grown(m, m.first) = e
      BY <1>5 DEF Grown, n
    <2>3. wanted \in Nat /\ wanted > n
      BY <1>1, <2>1
    <2> HIDE DEF wanted
    <2>4. \A x \in 0 .. n - 1 : e[x] = m.entries[x] /\ e[x] \in Entries /\ e[x].live = e[x].gen
      BY <1>1, <2>1, <2>3
    <2>5. \A x \in n .. wanted - 1 : e[x] = Entry(0, 1, x + 1)
      BY <1>1, <2>3
    <2>6. \A x \in n .. wanted - 1 :
              e[x] \in Entries /\ e[x].next = x + 1 /\ e[x].live # e[x].gen
      <3>1. \A x \in n .. wanted - 1 :
                LET r == Entry(0, 1, x + 1) IN r \in Entries /\ r.next = x + 1 /\ r.live # r.gen
        BY <1>1, GenerationsAssumption DEF Entry, Entries, Items, Gens
      <3> QED BY <2>5, <3>1
    <2>7. e \in [0 .. wanted - 1 -> Entries]
      <3> HIDE DEF Entries
      <3> SUFFICES ASSUME NEW x \in 0 .. wanted - 1 PROVE e[x] \in Entries
        OBVIOUS
      <3>1. x \in 0 .. n - 1 \/ x \in n .. wanted - 1
        BY <1>1, <2>3
      <3> QED BY <2>4, <2>6, <3>1
    <2> HIDE DEF e
    <2>8. /\ n .. wanted - 1 \in SUBSET (0 .. wanted - 1)
          /\ \A x \in 0 .. wanted - 1 : x \in n .. wanted - 1 <=> e[x].live # e[x].gen
      <3>1. \A x \in 0 .. wanted - 1 : x \in n .. wanted - 1 <=> ~(x \in 0 .. n - 1)
        BY <1>1, <2>3
      <3>2. n .. wanted - 1 \in SUBSET (0 .. wanted - 1)
        BY <1>1, <2>3
      <3> QED BY <2>4, <2>6, <3>1, <3>2
    <2>9. \E f : Chain(n .. wanted - 1, wanted, n, e, f)
      <3>1. wanted \in Nat /\ n \in 0 .. wanted /\ \A x \in n .. wanted - 1 : e[x].next = x + 1
        BY <1>1, <2>3, <2>6
      <3> QED BY <3>1, ChainRange
    <2>10. m.count = Cardinality((0 .. wanted - 1) \ (n .. wanted - 1))
      <3>1. Allocated(m) = 0 .. n - 1
        BY <1>1, <2>1
      <3>2. (0 .. wanted - 1) \ (n .. wanted - 1) = 0 .. n - 1
        BY <1>1, <2>3
      <3> QED BY <1>1, <3>1, <3>2
    <2> DEFINE G == n .. wanted - 1
               count == m.count
               max == m.max
    <2> HIDE DEF G, count, max, i, F, g
    <2>a. Made(wanted, e, n, count, G) /\ max \in Nat
      BY <1>1, <2>3, <2>7, <2>8, <2>9, <2>10 DEF G, count, max, Made
    <2>11. LET c == [entries |-> e, first |-> n, count |-> count, max |-> max]
           IN  Listed(c) /\ Size(c) = wanted /\ Free(c) = G
      <3> HIDE DEF n
      <3> QED BY <2>a, ListedIs
    <2>12. g = [entries |-> e, first |-> n, count |-> count, max |-> max]
      BY <1>1, <2>1, <2>2 DEF count, max, g, i
    <2>13. n \in G /\ n <= wanted
      BY <1>1, <2>3 DEF G
    <2>14. g.entries = e /\ g.first = n /\ g.count = count /\ g.max = max
      BY <2>12
    <2>15. Listed(g) /\ Size(g) = wanted /\ Free(g) = G
      BY <2>11, <2>12
    <2> HIDE DEF g
    <2> QED BY <1>5, <2>1, <2>4, <2>5, <2>13, <2>14, <2>15 DEF g, n, i, count, max
  <1> QED BY <1>4, <1>5

\* add: the first free entry is taken, and its live generation is in the handle.
LEMMA AddedListed ==
    ASSUME NEW m, Listed(m), m.first < Size(m) \/ CanAdd(m, m.first), NEW item \in Items
    PROVE  LET a == Added(m, item)
               i == m.first
           IN  /\ Listed(a) /\ Size(m) <= Size(a) /\ a.max = m.max
               /\ i \in Allocated(a) /\ i \notin Allocated(m) /\ i \in 0 .. Size(m)
               /\ NextHandle(m) = Handle(i, a.entries[i].live) /\ a.entries[i].item = item
               /\ \A x \in 0 .. Size(m) - 1 :
                      /\ a.entries[x].live = m.entries[x].live
                      /\ x # i => a.entries[x] = m.entries[x]
                      /\ x \in Free(a) <=> x \in Free(m) /\ x # i
               /\ \A x \in Size(m) .. Size(a) - 1 : a.entries[x].live = 1
               /\ i < Size(m) => Size(a) = Size(m)
  <1> DEFINE i == m.first
             g == [m EXCEPT !.entries = Grown(m, m.first)]
             n == Size(g)
             F == Free(g)
             new == [g.entries[i] EXCEPT !.gen = g.entries[i].live, !.item = item]
             e == [g.entries EXCEPT ![i] = new]
             second == g.entries[i].next
  <1>1. /\ Listed(g) /\ i \in F /\ Size(m) <= n
        /\ g.first = m.first /\ g.count = m.count /\ g.max = m.max
        /\ \A x \in 0 .. Size(m) - 1 : g.entries[x] = m.entries[x]
        /\ \A x \in Size(m) .. n - 1 : g.entries[x] = Entry(0, 1, x + 1)
        /\ i < Size(m) => g = m
    BY GrownListed
  <1>2. g.entries = Grown(m, m.first)
    <2>1. m \in [entries : UNION {[0 .. k - 1 -> Entries] : k \in Nat}, first : Nat, count : Nat,
                 max : Nat]
      BY DEF Listed, Managers
    <2> QED BY <2>1
  <1>m. /\ m \in Managers /\ Size(m) \in Nat /\ m.max \in Nat /\ m.count \in Nat
        /\ m = [entries |-> m.entries, first |-> m.first, count |-> m.count, max |-> m.max]
        /\ Free(m) = {x \in 0 .. Size(m) - 1 : m.entries[x].live # m.entries[x].gen}
        /\ Allocated(m) = {x \in 0 .. Size(m) - 1 : m.entries[x].live = m.entries[x].gen}
    BY ManagerParts DEF Listed
  <1> HIDE DEF g
  <1>3. /\ g \in Managers /\ n \in Nat /\ DOMAIN g.entries = 0 .. n - 1
        /\ g.entries \in [0 .. n - 1 -> Entries]
        /\ F = {x \in 0 .. n - 1 : g.entries[x].live # g.entries[x].gen}
        /\ Allocated(g) = {x \in 0 .. n - 1 : g.entries[x].live = g.entries[x].gen}
        /\ IsFiniteSet(Allocated(g)) /\ g.count = Cardinality(Allocated(g))
    BY <1>1, ManagerParts DEF Listed
  <1>4. i \in 0 .. n - 1 /\ g.entries[i] \in Entries
    BY <1>1, <1>3
  <1>5. Added(m, item) = [entries |-> e, first |-> second, count |-> m.count + 1, max |-> m.max]
    <2> DEFINE s == [Grown(m, m.first) EXCEPT ![m.first].gen = Grown(m, m.first)[m.first].live,
                                              ![m.first].item = item]
    <2>1. Added(m, item) = [m EXCEPT !.entries = s, !.first = Grown(m, m.first)[m.first].next,
                                     !.count = m.count + 1]
      BY DEF Added
    <2>2. s = e
      BY <1>2, <1>3, <1>4
    <2> HIDE DEF s, e
    <2> QED BY <1>2, <1>m, <2>1, <2>2
  <1>6. new \in Entries /\ new.live = g.entries[i].live /\ new.gen = new.live /\ new.item = item
        /\ new.next = second
    <2> DEFINE r == g.entries[i]
    <2>1. r \in Entries /\ new = [r EXCEPT !.gen = r.live, !.item = item]
      BY <1>4
    <2> HIDE DEF r, new
    <2>2. new = [gen |-> r.live, live |-> r.live, next |-> r.next, item |-> item]
      BY <2>1 DEF Entries
    <2> QED BY <2>1, <2>2 DEF Entries, r
  <1> HIDE DEF new, n
  <1>7. /\ e \in [0 .. n - 1 -> Entries] /\ e[i] = new
        /\ \A x \in 0 .. n - 1 : x # i => e[x] = g.entries[x]
    BY <1>3, <1>4, <1>6
  <1> HIDE DEF e
  <1>8. \E d : Chain(F \ {i}, n, second, e, d)
    <2> DEFINE old == g.entries
    <2>1. PICK d : Chain(F, n, i, old, d)
      BY <1>1 DEF Listed, n
    <2>2. n \in Nat /\ F \in SUBSET (0 .. n - 1) /\ i \in F /\ F \ {i} \in SUBSET (0 .. n - 1)
          /\ \A x \in F \ {i} : e[x].next = old[x].next
      BY <1>1, <1>3, <1>7
    <2> DEFINE E == F \ {i}
    <2>3. second = old[i].next
      OBVIOUS
    <2> HIDE DEF F, i, old, second
    <2>4. Chain(E, n, second, old, d)
      BY <2>1, <2>2, <2>3, ChainPop
    <2> HIDE DEF E
    <2>5. n \in Nat /\ E \in SUBSET (0 .. n - 1) /\ \A x \in E : e[x].next = old[x].next
      BY <2>2 DEF E
    <2>6. Chain(E, n, second, e, d)
      BY <2>4, <2>5, ChainSame
    <2> QED BY <2>6 DEF E
  <1> DEFINE G == F \ {i}
             count == m.count + 1
             max == m.max
  <1>9. G \in SUBSET (0 .. n - 1) /\ \A x \in 0 .. n - 1 : x \in G <=> e[x].live # e[x].gen
    BY <1>3, <1>6, <1>7
  <1>10. count = Cardinality((0 .. n - 1) \ G)
    <2>1. (0 .. n - 1) \ G = Allocated(g) \cup {i}
      BY <1>3, <1>4
    <2>2. i \notin Allocated(g)
      BY <1>1, <1>3
    <2>3. Cardinality(Allocated(g) \cup {i}) = Cardinality(Allocated(g)) + 1
      BY <1>3, <2>2, FS_AddElement
    <2> QED BY <1>1, <1>3, <2>1, <2>3
  <1> HIDE DEF G, count, max, second, F, i
  <1>a. Made(n, e, second, count, G) /\ max \in Nat
    BY <1>3, <1>7, <1>8, <1>9, <1>10, <1>m DEF G, max, Made
  <1>11. LET c == [entries |-> e, first |-> second, count |-> count, max |-> max]
         IN  Listed(c) /\ Size(c) = n /\ Free(c) = G
    BY <1>a, ListedIs
  <1> DEFINE a == Added(m, item)
  <1>12. a = [entries |-> e, first |-> second, count |-> count, max |-> max]
    BY <1>5 DEF count, max
  <1> HIDE DEF a
  <1>13. Listed(a) /\ Size(a) = n /\ Free(a) = G /\ a.entries = e /\ a.max = max
    BY <1>11, <1>12
  <1>14. Allocated(a) = (0 .. n - 1) \ G
    <2>1. a \in Managers
      BY <1>13 DEF Listed
    <2> QED BY <1>13, <2>1, ManagerParts
  <1>15. i \in Allocated(a) /\ i \notin Allocated(m) /\ i \in 0 .. Size(m)
    <2>1. i \in Allocated(a)
      BY <1>4, <1>14 DEF G
    <2>2. i \notin Allocated(m)
      BY <1>1, <1>3, <1>m DEF i
    <2>3. i \in 0 .. Size(m)
      <3>1. PICK d : Chain(Free(m), Size(m), i, m.entries, d)
        BY DEF Listed, i
      <3> QED BY <1>m, <3>1 DEF Chain
    <2> QED BY <2>1, <2>2, <2>3
  <1>16. NextHandle(m) = Handle(i, a.entries[i].live) /\ a.entries[i].item = item
    BY <1>2, <1>6, <1>7, <1>13 DEF NextHandle, i
  <1>17. ASSUME NEW x \in 0 .. Size(m) - 1
         PROVE  /\ a.entries[x].live = m.entries[x].live
                /\ x # i => a.entries[x] = m.entries[x]
                /\ x \in Free(a) <=> x \in Free(m) /\ x # i
    <2>1. x \in 0 .. n - 1 /\ g.entries[x] = m.entries[x]
      BY <1>1, <1>3, <1>m DEF n
    <2>2. x # i => e[x] = m.entries[x]
      BY <1>7, <2>1
    <2>3. e[x].live = m.entries[x].live
      BY <1>6, <1>7, <2>1
    <2>4. x \in F <=> x \in Free(m)
      BY <1>3, <1>m, <2>1
    <2> QED BY <1>13, <2>2, <2>3, <2>4 DEF G
  <1>18. ASSUME NEW x \in Size(m) .. Size(a) - 1
         PROVE  a.entries[x].live = 1
    <2>1. x \in 0 .. n - 1 /\ g.entries[x] = Entry(0, 1, x + 1)
      BY <1>1, <1>3, <1>13, <1>m DEF n
    <2>2. g.entries[x].live = 1
      BY <2>1 DEF Entry
    <2> QED BY <1>6, <1>7, <1>13, <2>1, <2>2
  <1> QED BY <1>1, <1>13, <1>15, <1>16, <1>17, <1>18 DEF a, max, n, i

\* addFixed: its index is unlinked wherever it is in the free list, and nothing else changes.
LEMMA UnlinkedIs ==
    ASSUME NEW m, Listed(m), NEW i \in 0 .. Size(m) - 1
    PROVE  LET u == Unlinked(m, i)
           IN  /\ u = [entries |-> u.entries, first |-> u.first, count |-> u.count, max |-> m.max]
               /\ u.entries \in [0 .. Size(m) - 1 -> Entries]
               /\ \E d : Chain(Free(m) \ {i}, Size(m), u.first, u.entries, d)
               /\ u.count = Cardinality(Allocated(m) \cup {i})
               /\ \A x \in 0 .. Size(m) - 1 : /\ u.entries[x].live = m.entries[x].live
                                              /\ u.entries[x].gen = m.entries[x].gen
                                              /\ u.entries[x].item = m.entries[x].item
  <1> DEFINE n == Size(m)
             F == Free(m)
             old == m.entries
             u == Unlinked(m, i)
             second == old[i].next
  <1>1. /\ m \in Managers /\ n \in Nat /\ DOMAIN old = 0 .. n - 1 /\ m.max \in Nat
        /\ old \in [0 .. n - 1 -> Entries] /\ m.count \in Nat /\ m.first \in Nat
        /\ m = [entries |-> m.entries, first |-> m.first, count |-> m.count, max |-> m.max]
        /\ F = {x \in 0 .. n - 1 : old[x].live # old[x].gen}
        /\ Allocated(m) = {x \in 0 .. n - 1 : old[x].live = old[x].gen}
        /\ IsFiniteSet(Allocated(m)) /\ m.count = Cardinality(Allocated(m))
    BY ManagerParts DEF Listed
  <1> DEFINE first == m.first
  <1>2. PICK d : Chain(F, n, first, old, d)
    BY DEF Listed
  <1>3. n \in Nat /\ F \in SUBSET (0 .. n - 1) /\ i \in 0 .. n - 1 /\ (i \in F <=> i \notin Allocated(m))
    BY <1>1
  <1>4. /\ i \in Allocated(m) => Cardinality(Allocated(m) \cup {i}) = m.count
        /\ i \notin Allocated(m) => Cardinality(Allocated(m) \cup {i}) = m.count + 1
    BY <1>1, FS_AddElement
  <1>5. old[i] \in Entries /\ second \in Nat
    BY <1>1 DEF Entries
  <1>6. CASE first = i
    <2>1. u = [m EXCEPT !.first = old[i].next, !.count = m.count + 1]
      BY <1>6 DEF Unlinked
    <2> HIDE DEF u
    <2>2. u = [entries |-> old, first |-> second, count |-> m.count + 1, max |-> m.max]
      BY <1>1, <2>1
    <2>3. i \in F
      <3> HIDE DEF F, first, n, old
      <3>1. first \in F \cup {n} /\ i # n
        BY <1>2, <1>3 DEF Chain
      <3> QED BY <1>6, <3>1
    <2>4. Chain(F \ {i}, n, second, old, d)
      <3>1. Chain(F, n, i, old, d)
        BY <1>2, <1>6
      <3>2. second = old[i].next
        OBVIOUS
      <3> HIDE DEF F, n, old, second
      <3> QED BY <1>3, <2>3, <3>1, <3>2, ChainPop
    <2>5. u.entries = old /\ u.first = second /\ u.count = m.count + 1 /\ u.max = m.max
      BY <2>2
    <2>6. \E c : Chain(F \ {i}, n, u.first, u.entries, c)
      BY <2>4, <2>5
    <2>7. u.count = Cardinality(Allocated(m) \cup {i})
      BY <1>3, <1>4, <2>3, <2>5
    <2>8. u = [entries |-> u.entries, first |-> u.first, count |-> u.count, max |-> m.max]
      BY <2>2, <2>5
    <2>9. u.entries \in [0 .. n - 1 -> Entries]
      BY <1>1, <2>5
    <2>10. \A x \in 0 .. n - 1 : u.entries[x] = m.entries[x]
      BY <2>5
    <2> HIDE DEF Unlinked
    <2> QED BY <2>6, <2>7, <2>8, <2>9, <2>10 DEF u
  <1>7. CASE first # i /\ i \in Allocated(m)
    <2>1. u = m
      BY <1>7 DEF Unlinked
    <2>2. F \ {i} = F
      BY <1>3, <1>7
    <2>3. Chain(F \ {i}, n, u.first, u.entries, d)
      BY <1>2, <2>1, <2>2
    <2> HIDE DEF u, F, n
    <2> QED BY <1>1, <1>4, <1>7, <2>1, <2>3 DEF u, F, n
  <1>8. CASE first # i /\ i \notin Allocated(m)
    <2> DEFINE p == CHOOSE q \in FreeIndices(m) : m.entries[q].next = i
               e == [old EXCEPT ![p].next = second]
    <2>1. u = [m EXCEPT !.entries[p].next = old[i].next, !.count = m.count + 1]
      BY <1>8 DEF Unlinked
    <2>2. FreeIndices(m) = F
      BY ListIsExact
    <2>3. \E q \in F : old[q].next = i
      <3>1. i \in F /\ i # first
        BY <1>3, <1>8
      <3> HIDE DEF F, n, old, first
      <3>2. Follows(n, F, first, old, d, i)
        BY <1>2, <1>3, <3>1 DEF Follows
      <3> QED BY <3>2, ChainPrevious
    <2>4. p \in F /\ old[p].next = i
      BY <2>2, <2>3
    <2> HIDE DEF p
    <2>5. u = [entries |-> e, first |-> first, count |-> m.count + 1, max |-> m.max]
      <3> HIDE DEF u, second
      <3> QED BY <1>1, <2>1 DEF second
    <2> DEFINE new == [old[p] EXCEPT !.next = second]
    <2>6. /\ new \in Entries /\ new.next = second /\ new.live = old[p].live
          /\ new.gen = old[p].gen /\ new.item = old[p].item
      <3>1. old[p] \in Entries
        BY <1>1, <1>3, <2>4
      <3> DEFINE r == old[p]
      <3> HIDE DEF second, r
      <3> QED BY <1>5, <3>1 DEF Entries, r
    <2>7. /\ e \in [0 .. n - 1 -> Entries] /\ e[p] = new
          /\ \A x \in 0 .. n - 1 : x # p => e[x] = old[x]
      <3>1. e = [old EXCEPT ![p] = new] /\ p \in 0 .. n - 1
        BY <1>3, <2>4
      <3> HIDE DEF e, new, Entries
      <3> QED BY <1>1, <2>6, <3>1
    <2> HIDE DEF e, new, u
    <2>8. \E c : Chain(F \ {i}, n, first, e, c)
      <3>1. i \in F /\ p \in F /\ old[p].next = i /\ e[p].next = old[i].next
        BY <1>3, <1>8, <2>4, <2>6, <2>7
      <3>2. \A x \in F \ {i, p} : e[x].next = old[x].next
        BY <1>3, <2>7
      <3> HIDE DEF F, n, old, first, second
      <3>3. Cuts(n, F, first, old, d, i, p, e)
        BY <1>2, <1>3, <3>1, <3>2 DEF Cuts
      <3> QED BY <3>3, ChainCut
    <2>9. u.entries = e /\ u.first = first /\ u.count = m.count + 1 /\ u.max = m.max
      BY <2>5
    <2>10. \E c : Chain(F \ {i}, n, u.first, u.entries, c)
      BY <2>8, <2>9
    <2>11. u = [entries |-> u.entries, first |-> u.first, count |-> u.count, max |-> m.max]
      BY <2>5, <2>9
    <2>12. \A x \in 0 .. n - 1 : /\ u.entries[x].live = old[x].live /\ u.entries[x].gen = old[x].gen
                                 /\ u.entries[x].item = old[x].item
      BY <2>6, <2>7, <2>9
    <2>13. u.count = Cardinality(Allocated(m) \cup {i}) /\ u.entries \in [0 .. n - 1 -> Entries]
      BY <1>4, <1>8, <2>7, <2>9
    <2> HIDE DEF Entries
    <2> QED BY <2>10, <2>11, <2>12, <2>13 DEF u
  <1> QED BY <1>6, <1>7, <1>8

\* Then the entry is in use under the handle that was given.
LEMMA AddedFixedListed ==
    ASSUME NEW m, Listed(m), NEW h, h.index \in 0 .. Size(m) - 1, h.gen \in Gens,
           NEW item \in Items
    PROVE  LET a == AddedFixed(m, h, item)
               i == h.index
           IN  /\ Listed(a) /\ Size(a) = Size(m) /\ Free(a) = Free(m) \ {i} /\ a.max = m.max
               /\ a.entries[i].live = h.gen
               /\ \A x \in 0 .. Size(m) - 1 :
                      x # i => /\ a.entries[x].live = m.entries[x].live
                               /\ a.entries[x].item = m.entries[x].item
  <1> DEFINE n == Size(m)
             i == h.index
             F == Free(m)
             u == Unlinked(m, i)
             a == AddedFixed(m, h, item)
             new == [u.entries[i] EXCEPT !.gen = h.gen, !.live = h.gen, !.item = item]
             e == [u.entries EXCEPT ![i] = new]
  <1>1. /\ m \in Managers /\ n \in Nat /\ m.max \in Nat
        /\ m = [entries |-> m.entries, first |-> m.first, count |-> m.count, max |-> m.max]
        /\ F = {x \in 0 .. n - 1 : m.entries[x].live # m.entries[x].gen}
        /\ Allocated(m) = {x \in 0 .. n - 1 : m.entries[x].live = m.entries[x].gen}
    BY ManagerParts DEF Listed
  <1>2. /\ u = [entries |-> u.entries, first |-> u.first, count |-> u.count, max |-> m.max]
        /\ u.entries \in [0 .. n - 1 -> Entries]
        /\ \E d : Chain(F \ {i}, n, u.first, u.entries, d)
        /\ u.count = Cardinality(Allocated(m) \cup {i})
        /\ \A x \in 0 .. n - 1 : /\ u.entries[x].live = m.entries[x].live
                                 /\ u.entries[x].gen = m.entries[x].gen
                                 /\ u.entries[x].item = m.entries[x].item
    BY UnlinkedIs
  <1>3. i \in 0 .. n - 1
    OBVIOUS
  <1>4. [m EXCEPT !.entries = Grown(m, h.index)] = m
    <2>1. Grown(m, h.index) = m.entries
      BY <1>1, <1>3 DEF Grown
    <2> QED BY <1>1, <2>1
  <1> HIDE DEF n
  <1>5. a = [[[u EXCEPT !.entries[i].gen = h.gen] EXCEPT !.entries[i].live = h.gen]
                EXCEPT !.entries[i].item = item]
    BY <1>4 DEF AddedFixed
  <1> HIDE DEF u, a
  <1>6. a = [entries |-> e, first |-> u.first, count |-> u.count, max |-> m.max]
    <2> DEFINE v == u.entries
    <2>1. v \in [0 .. n - 1 -> Entries] /\ v[i] \in Entries
      BY <1>2, <1>3
    <2> DEFINE v1 == [v EXCEPT ![i].gen = h.gen]
               v2 == [v1 EXCEPT ![i].live = h.gen]
               v3 == [v2 EXCEPT ![i].item = item]
    <2>2. v3 = e
      BY <1>3, <2>1
    <2> DEFINE u1 == [u EXCEPT !.entries[i].gen = h.gen]
               u2 == [u1 EXCEPT !.entries[i].live = h.gen]
    <2>3. u1 = [entries |-> v1, first |-> u.first, count |-> u.count, max |-> m.max]
      BY <1>2
    <2>4. a = [u2 EXCEPT !.entries[i].item = item]
      BY <1>5
    <2> HIDE DEF u1, v1
    <2>5. u2 = [entries |-> v2, first |-> u.first, count |-> u.count, max |-> m.max]
      BY <2>3
    <2> HIDE DEF u2, v2
    <2>6. a = [entries |-> v3, first |-> u.first, count |-> u.count, max |-> m.max]
      BY <2>4, <2>5
    <2> HIDE DEF v3
    <2> QED BY <2>2, <2>6
  <1>7. new \in Entries /\ new.gen = h.gen /\ new.live = h.gen /\ new.next = u.entries[i].next
    <2> DEFINE r == u.entries[i]
    <2>1. r \in Entries
      BY <1>2, <1>3
    <2>a. new = [r EXCEPT !.gen = h.gen, !.live = h.gen, !.item = item]
      OBVIOUS
    <2> HIDE DEF r, new
    <2>2. new = [gen |-> h.gen, live |-> h.gen, next |-> r.next, item |-> item]
      BY <2>1, <2>a DEF Entries
    <2> QED BY <2>1, <2>2 DEF Entries, r
  <1> HIDE DEF new, Entries
  <1>8. /\ e \in [0 .. n - 1 -> Entries] /\ e[i] = new
        /\ \A x \in 0 .. n - 1 : x # i => e[x] = u.entries[x]
    BY <1>2, <1>3, <1>7
  <1> HIDE DEF e
  <1> DEFINE G == F \ {i}
             first == u.first
             count == u.count
             max == m.max
  <1>9. G \in SUBSET (0 .. n - 1) /\ \A x \in 0 .. n - 1 : x \in G <=> e[x].live # e[x].gen
    BY <1>1, <1>2, <1>7, <1>8
  <1>10. \E d : Chain(G, n, first, e, d)
    <2> DEFINE old == u.entries
    <2>1. PICK d : Chain(G, n, first, old, d)
      BY <1>2
    <2>2. \A x \in G : e[x].next = old[x].next
      BY <1>8, <1>9
    <2> HIDE DEF G, first, old
    <2>3. Chain(G, n, first, e, d)
      BY <1>1, <1>9, <2>1, <2>2, ChainSame
    <2> QED BY <2>3
  <1>11. count = Cardinality((0 .. n - 1) \ G)
    <2>1. (0 .. n - 1) \ G = Allocated(m) \cup {i}
      BY <1>1, <1>3
    <2> QED BY <1>2, <2>1
  <1> HIDE DEF G, first, count, max
  <1>12. Made(n, e, first, count, G) /\ max \in Nat
    BY <1>1, <1>8, <1>9, <1>10, <1>11 DEF Made, max
  <1>13. LET c == [entries |-> e, first |-> first, count |-> count, max |-> max]
         IN  Listed(c) /\ Size(c) = n /\ Free(c) = G
    BY <1>12, ListedIs
  <1>14. a = [entries |-> e, first |-> first, count |-> count, max |-> max]
    BY <1>6 DEF first, count, max
  <1>15. Listed(a) /\ Size(a) = n /\ Free(a) = G /\ a.entries = e /\ a.max = max
    BY <1>13, <1>14
  <1>16. \A x \in 0 .. n - 1 : x # i => /\ e[x].live = m.entries[x].live
                                        /\ e[x].item = m.entries[x].item
    BY <1>2, <1>8
  <1> QED BY <1>7, <1>8, <1>15, <1>16 DEF a, G, max, n

----------------------------------------------------------------------------
(* Entities: what each operation does to the handles held.                  *)

\* The parts of EntityInv that an operation on a handle needs.
LEMMA EntityParts ==
    ASSUME EntityInv
    PROVE  /\ MaxIndex \in Nat /\ Listed(em) /\ Size(em) = MaxIndex + 1
           /\ em.entries \in [0 .. MaxIndex -> Entries]
           /\ \A i \in 0 .. MaxIndex : em.entries[i].live \in Gens
           /\ held \subseteq Handles
           /\ \A h \in held : h.index \in Nat /\ h.gen \in Nat
           /\ \A h, k \in held : h.index = k.index /\ h.gen = k.gen => h = k
           /\ \A h \in held : Inline(h) => h.index \in 0 .. MaxIndex
  <1>1. /\ MaxIndex \in Nat /\ Listed(em) /\ Size(em) = MaxIndex + 1
        /\ held \subseteq Handles
    BY HybridAssumption DEF EntityInv, HeldInv
  <1>2. em.entries \in [0 .. MaxIndex -> Entries]
    <2>1. em \in Managers
      BY <1>1 DEF Listed
    <2>2. em.entries \in [0 .. Size(em) - 1 -> Entries]
      BY <2>1, ManagerParts
    <2>3. Size(em) - 1 = MaxIndex
      BY <1>1
    <2> QED BY <2>2, <2>3
  <1>3. \A i \in 0 .. MaxIndex : em.entries[i].live \in Gens
    BY <1>2 DEF Entries
  <1>4. \A h \in held : h.index \in Nat /\ h.gen \in Nat
    BY <1>1 DEF Handles
  <1>5. \A h, k \in held : h.index = k.index /\ h.gen = k.gen => h = k
    BY <1>1 DEF Handles
  <1>6. \A h \in held : Inline(h) => h.index \in 0 .. MaxIndex
    BY <1>1, <1>4 DEF Inline
  <1> QED BY <1>1, <1>2, <1>3, <1>4, <1>5, <1>6

\* A handle given out is current, and those of its index are not any more.
LEMMA GivesIs ==
    ASSUME EntityInv, NEW h \in Handles, Gives(h)
    PROVE  /\ held' \subseteq Handles
           /\ \A k \in held' : k = h \/ k \in held
           /\ \A k \in held' : k.index = h.index => (k \in current' <=> k = h)
           /\ \A k \in held' : k.index # h.index => k \in held /\ (k \in current' <=> k \in current)
  BY EntityParts DEF Gives

\* add(), with room in the vector: the entry's first handle is ahead of those held for it.
LEMMA AddInlineInv == ASSUME EntityInv, NEW t \in Threads, AddInline(t) PROVE EntityInv'
  <1> DEFINE i == em.first
             a == Added(em, NoItem)
             h == NextHandle(em)
  <1>1. /\ i < MaxIndex /\ em' = a /\ Gives(h)
        /\ UNCHANGED <<mMap, mIndexForMap, aborted>>
    BY DEF AddInline
  <1>2. i < Size(em) /\ Listed(em)
    <2>1. i \in Nat
      BY EntityParts, ManagerParts DEF Listed
    <2> QED BY <1>1, <2>1, EntityParts
  <1>3. /\ Listed(a) /\ i \in Allocated(a) /\ i \notin Allocated(em)
        /\ h = Handle(i, a.entries[i].live) /\ Size(a) = Size(em)
        /\ \A x \in 0 .. Size(em) - 1 :
               /\ a.entries[x].live = em.entries[x].live
               /\ x \in Free(a) <=> x \in Free(em) /\ x # i
    BY <1>2, AddedListed DEF Items
  <1> HIDE DEF a, h
  <1>4. /\ i \in 0 .. MaxIndex /\ i \in Free(em) /\ h = Handle(i, em.entries[i].live)
        /\ h \in Handles
    <2>1. i \in 0 .. MaxIndex
      BY <1>1, <1>2, EntityParts, ManagerParts DEF Listed
    <2>2. Size(em) - 1 = MaxIndex
      BY EntityParts
    <2>3. i \in Free(em)
      BY <1>2, <1>3, <2>1, <2>2, ManagerParts DEF Listed, Free
    <2>4. h = Handle(i, em.entries[i].live)
      BY <1>3, <2>1, <2>2
    <2> QED BY <2>1, <2>3, <2>4, EntityParts, GenerationsAssumption DEF Handles, Handle, Gens
  <1>5. /\ held' \subseteq Handles
        /\ \A k \in held' : k = h \/ k \in held
        /\ \A k \in held' : k.index = h.index => (k \in current' <=> k = h)
        /\ \A k \in held' : k.index # h.index => k \in held /\ (k \in current' <=> k \in current)
    BY <1>1, <1>4, GivesIs
  <1>6. \A x \in 0 .. MaxIndex : /\ em'.entries[x].live = em.entries[x].live
                                 /\ x \in Free(em') <=> x \in Free(em) /\ x # i
    BY <1>1, <1>3, EntityParts
  <1>h. h.index = i /\ h.gen = em.entries[i].live
    BY <1>4 DEF Handle
  <1>7. ASSUME NEW k \in held', Inline(k)
        PROVE  /\ k.gen <= em'.entries[k.index].live
               /\ k.index \in Free(em') => k.gen # em'.entries[k.index].live
               /\ k \in current' <=> k.gen = em'.entries[k.index].live
    <2>1. CASE k = h
      <3>1. em.entries[i].live \in Nat
        BY <1>4, EntityParts, GenerationsAssumption DEF Gens
      <3>2. k.index = i /\ k.gen = em.entries[i].live
        BY <1>h, <2>1
      <3>3. em'.entries[i].live = em.entries[i].live /\ i \notin Free(em')
        BY <1>4, <1>6
      <3>4. k \in current'
        BY <1>5, <2>1
      <3>5. em'.entries[k.index].live = em.entries[i].live
        BY <3>2, <3>3
      <3> QED BY <3>1, <3>2, <3>3, <3>4, <3>5
    <2>2. CASE k # h
      <3>1. k \in held /\ k.index \in 0 .. MaxIndex
        BY <1>5, <1>7, <2>2, EntityParts
      <3>2. /\ k.gen <= em.entries[k.index].live
            /\ k.index \in Free(em) => k.gen # em.entries[k.index].live
            /\ k \in current <=> k.gen = em.entries[k.index].live
        BY <1>7, <3>1 DEF EntityInv, HeldInv
      <3> QED BY <1>4, <1>5, <1>6, <1>h, <2>2, <3>1, <3>2
    <2> QED BY <2>1, <2>2
  <1>8. \A k \in held' : ~Inline(k) => k.gen = 1 /\ (k \in current' <=> k.index \in mMap')
    <2>1. \A k \in held' : ~Inline(k) => k.index # h.index
      BY <1>1, <1>h DEF Inline
    <2> QED BY <1>1, <1>5, <2>1 DEF EntityInv, HeldInv
  <1>9. HeldInv'
    BY <1>5, <1>7, <1>8 DEF HeldInv, Inline
  <1>10. MapInv'
    BY <1>1 DEF EntityInv, MapInv
  <1> QED BY <1>1, <1>3, <1>9, <1>10, EntityParts DEF EntityInv

\* addFixed, below maxIndex: the handle given is the latest of its index.
LEMMA AddFixedInlineInv ==
    ASSUME EntityInv, NEW t \in Threads, NEW h \in FixedHandles, AddFixedInline(t, h)
    PROVE  EntityInv'
  <1> DEFINE i == h.index
             a == AddedFixed(em, h, NoItem)
  <1>1. /\ Inline(h) /\ MayFix(h) /\ em' = a /\ Gives(h)
        /\ UNCHANGED <<mMap, mIndexForMap, aborted>>
    BY DEF AddFixedInline
  <1>2. h \in Handles /\ i \in 0 .. MaxIndex /\ i < MaxIndex /\ h.gen \in Gens /\ h.gen \in Nat
    BY <1>1, HybridAssumption, GenerationsAssumption DEF FixedHandles, Handle, Handles, Inline, Gens
  <1>3. /\ Listed(a) /\ Size(a) = Size(em) /\ Free(a) = Free(em) \ {i}
        /\ a.entries[i].live = h.gen
        /\ \A x \in 0 .. Size(em) - 1 : x # i => a.entries[x].live = em.entries[x].live
    <2>1. Listed(em) /\ h.index \in 0 .. Size(em) - 1 /\ NoItem \in Items
      BY <1>2, EntityParts DEF Items
    <2> QED BY <1>2, <2>1, AddedFixedListed
  <1> HIDE DEF a
  <1>5. /\ held' \subseteq Handles
        /\ \A k \in held' : k = h \/ k \in held
        /\ \A k \in held' : k.index = h.index => (k \in current' <=> k = h)
        /\ \A k \in held' : k.index # h.index => k \in held /\ (k \in current' <=> k \in current)
    BY <1>1, <1>2, GivesIs
  <1>6. /\ \A x \in 0 .. MaxIndex : x # i => em'.entries[x].live = em.entries[x].live
        /\ \A x \in Free(em') : x \in Free(em) /\ x # i
        /\ em'.entries[i].live = h.gen
    BY <1>1, <1>3, EntityParts
  <1>7. ASSUME NEW k \in held', Inline(k)
        PROVE  /\ k.gen <= em'.entries[k.index].live
               /\ k.index \in Free(em') => k.gen # em'.entries[k.index].live
               /\ k \in current' <=> k.gen = em'.entries[k.index].live
    <2>1. CASE k.index = i
      <3>1. k.index \notin Free(em') /\ em'.entries[k.index].live = h.gen
        BY <1>6, <2>1
      <3>2. k \in current' <=> k = h
        BY <1>5, <2>1
      <3>3. k = h \/ (k \in held /\ k.gen <= h.gen)
        BY <1>1, <1>5, <2>1 DEF MayFix
      <3>4. k.gen = h.gen => k = h
        BY <1>2, <1>5, <2>1 DEF Handles
      <3> QED BY <1>2, <3>1, <3>2, <3>3, <3>4
    <2>2. CASE k.index # i
      <3>1. k \in held /\ k.index \in 0 .. MaxIndex
        BY <1>5, <1>7, <2>2, EntityParts
      <3>2. /\ k.gen <= em.entries[k.index].live
            /\ k.index \in Free(em) => k.gen # em.entries[k.index].live
            /\ k \in current <=> k.gen = em.entries[k.index].live
        BY <1>7, <3>1 DEF EntityInv, HeldInv
      <3> QED BY <1>5, <1>6, <2>2, <3>1, <3>2
    <2> QED BY <2>1, <2>2
  <1>8. \A k \in held' : ~Inline(k) => k.gen = 1 /\ (k \in current' <=> k.index \in mMap')
    <2>1. \A k \in held' : ~Inline(k) => k.index # h.index
      BY <1>1 DEF Inline
    <2> QED BY <1>1, <1>5, <2>1 DEF EntityInv, HeldInv
  <1>9. HeldInv'
    BY <1>5, <1>7, <1>8 DEF HeldInv, Inline
  <1>10. MapInv'
    BY <1>1 DEF EntityInv, MapInv
  <1> QED BY <1>1, <1>3, <1>9, <1>10, EntityParts DEF EntityInv

\* add(), with the vector full: no handle held has the index in the map.
LEMMA AddToMapInv == ASSUME EntityInv, NEW t \in Threads, AddToMap(t) PROVE EntityInv'
  <1> DEFINE i == IF mIndexForMap = 0 THEN MaxIndex ELSE mIndexForMap
             h == Handle(i, 1)
  <1>1. /\ aborted' = (i \in mMap) /\ Gives(h) /\ mMap' = mMap \cup {i} /\ mIndexForMap' = i + 1
        /\ UNCHANGED em
    BY DEF AddToMap
  <1>2. /\ mIndexForMap \in Nat /\ (mIndexForMap = 0 \/ mIndexForMap > MaxIndex) /\ ~aborted
        /\ \A x \in mMap : x \in Nat /\ MaxIndex <= x /\ x < mIndexForMap
    BY DEF EntityInv, MapInv
  <1>3. i \in Nat /\ MaxIndex <= i /\ i \notin mMap /\ \A x \in mMap : x < i
    BY <1>2, HybridAssumption
  <1> HIDE DEF i
  <1>4. h \in Handles /\ h.index = i /\ h.gen = 1 /\ ~Inline(h)
    BY <1>3, HybridAssumption DEF Handle, Handles, Inline
  <1> HIDE DEF h
  <1>5. /\ held' \subseteq Handles
        /\ \A k \in held' : k = h \/ k \in held
        /\ \A k \in held' : k.index = h.index => (k \in current' <=> k = h)
        /\ \A k \in held' : k.index # h.index => k \in held /\ (k \in current' <=> k \in current)
    BY <1>1, <1>4, GivesIs
  <1>6. ASSUME NEW k \in held', Inline(k)
        PROVE  /\ k.gen <= em'.entries[k.index].live
               /\ k.index \in Free(em') => k.gen # em'.entries[k.index].live
               /\ k \in current' <=> k.gen = em'.entries[k.index].live
    <2>1. k.index # h.index
      BY <1>4, <1>6 DEF Inline
    <2> QED BY <1>1, <1>5, <1>6, <2>1 DEF EntityInv, HeldInv
  <1>7. ASSUME NEW k \in held', ~Inline(k)
        PROVE  k.gen = 1 /\ (k \in current' <=> k.index \in mMap')
    <2>1. k.gen = 1
      BY <1>4, <1>5, <1>7 DEF EntityInv, HeldInv
    <2>2. CASE k.index = i
      <3>1. k = h
        BY <1>4, <1>5, <2>1, <2>2 DEF Handles
      <3> QED BY <1>1, <1>4, <1>5, <2>1, <3>1
    <2>3. CASE k.index # i
      <3>1. k \in held /\ (k \in current' <=> k \in current)
        BY <1>4, <1>5, <2>3
      <3> QED BY <1>1, <1>7, <2>1, <2>3, <3>1 DEF EntityInv, HeldInv
    <2> QED BY <2>2, <2>3
  <1>8. HeldInv'
    BY <1>5, <1>6, <1>7 DEF HeldInv, Inline
  <1>9. MapInv'
    <2>1. ~aborted'
      BY <1>1, <1>3
    <2>2. mIndexForMap' \in Nat /\ mIndexForMap' > MaxIndex
      BY <1>1, <1>3, HybridAssumption
    <2>3. \A x \in mMap' : x \in Nat /\ MaxIndex <= x /\ x < mIndexForMap'
      BY <1>1, <1>2, <1>3, HybridAssumption
    <2> QED BY <2>1, <2>2, <2>3 DEF MapInv
  <1> QED BY <1>1, <1>8, <1>9 DEF EntityInv

\* addFixed, behind maxIndex: the next index is behind the one given.
LEMMA AddFixedToMapInv ==
    ASSUME EntityInv, NEW t \in Threads, NEW h \in FixedHandles, AddFixedToMap(t, h)
    PROVE  EntityInv'
  <1> DEFINE i == h.index
  <1>1. /\ ~Inline(h) /\ i \notin mMap /\ Gives(h) /\ mMap' = mMap \cup {i}
        /\ mIndexForMap' = CaughtUp(i) /\ UNCHANGED <<em, aborted>>
    BY DEF AddFixedToMap
  <1>2. /\ mIndexForMap \in Nat /\ (mIndexForMap = 0 \/ mIndexForMap > MaxIndex) /\ ~aborted
        /\ \A x \in mMap : x \in Nat /\ MaxIndex <= x /\ x < mIndexForMap
    BY DEF EntityInv, MapInv
  <1>3. h \in Handles /\ i \in Nat /\ MaxIndex <= i /\ h.gen = 1
    BY <1>1, HybridAssumption, GenerationsAssumption DEF FixedHandles, Handle, Handles, Inline
  <1>5. /\ held' \subseteq Handles
        /\ \A k \in held' : k = h \/ k \in held
        /\ \A k \in held' : k.index = h.index => (k \in current' <=> k = h)
        /\ \A k \in held' : k.index # h.index => k \in held /\ (k \in current' <=> k \in current)
    BY <1>1, <1>3, GivesIs
  <1>6. ASSUME NEW k \in held', Inline(k)
        PROVE  /\ k.gen <= em'.entries[k.index].live
               /\ k.index \in Free(em') => k.gen # em'.entries[k.index].live
               /\ k \in current' <=> k.gen = em'.entries[k.index].live
    <2>1. k.index # h.index
      BY <1>1, <1>6 DEF Inline
    <2> QED BY <1>1, <1>5, <1>6, <2>1 DEF EntityInv, HeldInv
  <1>7. ASSUME NEW k \in held', ~Inline(k)
        PROVE  k.gen = 1 /\ (k \in current' <=> k.index \in mMap')
    <2>1. k.gen = 1
      BY <1>3, <1>5, <1>7 DEF EntityInv, HeldInv
    <2>2. CASE k.index = i
      <3>1. k = h
        BY <1>3, <1>5, <2>1, <2>2 DEF Handles
      <3> QED BY <1>1, <1>5, <2>1, <3>1
    <2>3. CASE k.index # i
      <3>1. k \in held /\ (k \in current' <=> k \in current)
        BY <1>5, <2>3
      <3> QED BY <1>1, <1>7, <2>1, <2>3, <3>1 DEF EntityInv, HeldInv
    <2> QED BY <2>2, <2>3
  <1>8. HeldInv'
    BY <1>5, <1>6, <1>7 DEF HeldInv, Inline
  <1>9. MapInv'
    <2>1. mIndexForMap' \in Nat /\ mIndexForMap' > i /\ mIndexForMap' >= mIndexForMap
      BY <1>1, <1>2, <1>3 DEF CaughtUp
    <2>2. mIndexForMap' > MaxIndex
      BY <1>3, <2>1, HybridAssumption
    <2>3. \A x \in mMap' : x \in Nat /\ MaxIndex <= x /\ x < mIndexForMap'
      BY <1>1, <1>2, <1>3, <2>1, HybridAssumption
    <2> QED BY <1>1, <1>2, <2>1, <2>2, <2>3 DEF MapInv
  <1> QED BY <1>1, <1>8, <1>9 DEF EntityInv

\* The generation of a removed entity is behind every handle held for it.
LEMMA PassedBy ==
    ASSUME NEW k, k.gen \in Nat, NEW g \in Gens, k.gen <= g, g + 1 # Generations
    PROVE  k.gen <= NextGeneration(g) /\ k.gen # NextGeneration(g)
  BY NextGenerationIs, GenerationsAssumption DEF Gens

\* remove, whatever the handle.
LEMMA RemoveInv ==
    ASSUME EntityInv, NEW t \in Threads, NEW h \in held, Remove(t, h)
    PROVE  EntityInv'
  <1> DEFINE i == h.index
             r == Removed(em, h)
  <1>1. current' = current \ {h} /\ UNCHANGED <<mIndexForMap, aborted>>
    BY DEF Remove
  <1>2. \/ /\ Inline(h) /\ em' = r /\ UNCHANGED mMap
           /\ held' = IF Resolves(em, h) THEN held \ Forgotten({i}) ELSE held
        \/ ~Inline(h) /\ mMap' = mMap \ {i} /\ UNCHANGED <<em, held>>
    BY DEF Remove
  <1>h. h \in Handles /\ h \in held
    BY EntityParts
  <1>3. held' \subseteq held
    BY <1>2
  <1>4. CASE Inline(h) /\ Resolves(em, h)
    <2>1. em' = r /\ mMap' = mMap /\ held' = held \ Forgotten({i}) /\ i \in 0 .. MaxIndex
      BY <1>2, <1>4, EntityParts
    <2>2. h.gen = em.entries[i].live /\ i \notin Free(em)
      BY <1>4 DEF Resolves, EntityInv, HeldInv
    <2>3. /\ Listed(r) /\ Size(r) = Size(em) /\ Free(r) = Free(em) \cup {i}
          /\ r.entries[i].live = NextGeneration(em.entries[i].live)
          /\ \A x \in 0 .. Size(em) - 1 : x # i => r.entries[x] = em.entries[x]
      BY <1>4, <2>2, RemovedListed, EntityParts
    <2> HIDE DEF r
    <2>4. /\ em'.entries[i].live = NextGeneration(em.entries[i].live)
          /\ \A x \in 0 .. MaxIndex : x # i => em'.entries[x] = em.entries[x]
          /\ \A x \in 0 .. MaxIndex : x # i => (x \in Free(em') <=> x \in Free(em))
      BY <2>1, <2>3, EntityParts
    <2>5. ASSUME NEW k \in held', Inline(k)
          PROVE  /\ k.gen <= em'.entries[k.index].live
                 /\ k.index \in Free(em') => k.gen # em'.entries[k.index].live
                 /\ k \in current' <=> k.gen = em'.entries[k.index].live
      <3>1. k \in held /\ k.index \in 0 .. MaxIndex /\ k.gen \in Nat
        BY <1>3, <2>5, EntityParts
      <3>2. /\ k.gen <= em.entries[k.index].live
            /\ k.index \in Free(em) => k.gen # em.entries[k.index].live
            /\ k \in current <=> k.gen = em.entries[k.index].live
        BY <2>5, <3>1 DEF EntityInv, HeldInv
      <3>3. CASE k.index = i
        <4>1. em.entries[i].live \in Gens /\ em.entries[i].live + 1 # Generations
          BY <2>1, <3>1, <3>3, EntityParts DEF Forgotten
        <4>2. k.gen <= em'.entries[i].live /\ k.gen # em'.entries[i].live
          BY <2>4, <3>1, <3>2, <3>3, <4>1, PassedBy
        <4>3. k \notin current'
          <5>1. k \in current => k = h
            BY <2>2, <3>1, <3>2, <3>3, EntityParts
          <5> QED BY <1>1, <5>1
        <4> QED BY <3>3, <4>2, <4>3
      <3>4. CASE k.index # i
        <4>1. k # h
          BY <3>4
        <4> QED BY <1>1, <2>4, <3>1, <3>2, <3>4, <4>1
      <3> QED BY <3>3, <3>4
    <2>6. \A k \in held' : ~Inline(k) => k.gen = 1 /\ (k \in current' <=> k.index \in mMap')
      BY <1>1, <1>3, <1>4, <2>1 DEF EntityInv, HeldInv
    <2>7. HeldInv'
      BY <1>3, <2>5, <2>6, EntityParts DEF HeldInv, Inline
    <2>8. MapInv'
      BY <1>1, <2>1 DEF EntityInv, MapInv
    <2> QED BY <2>1, <2>3, <2>7, <2>8, EntityParts DEF EntityInv
  <1>5. CASE Inline(h) /\ ~Resolves(em, h)
    <2>1. em' = em /\ mMap' = mMap /\ held' = held
      BY <1>2, <1>5 DEF Removed
    <2>2. h \notin current
      <3>1. i \in DOMAIN em.entries
        BY <1>5, EntityParts
      <3> QED BY <1>5, <3>1 DEF Resolves, EntityInv, HeldInv
    <2>3. current' = current
      BY <1>1, <2>2
    <2> QED BY <1>1, <2>1, <2>3 DEF EntityInv, HeldInv, MapInv, Inline
  <1>6. CASE ~Inline(h)
    <2>1. em' = em /\ mMap' = mMap \ {i} /\ held' = held
      BY <1>2, <1>6
    <2>2. ASSUME NEW k \in held, ~Inline(k)
          PROVE  k.gen = 1 /\ (k \in current' <=> k.index \in mMap')
      <3>1. k.gen = 1 /\ h.gen = 1 /\ (k \in current <=> k.index \in mMap)
        BY <1>6, <2>2 DEF EntityInv, HeldInv
      <3>2. k.index = i <=> k = h
        BY <3>1, EntityParts
      <3> QED BY <1>1, <2>1, <3>1, <3>2
    <2>3. \A k \in held : Inline(k) => (k \in current' <=> k \in current)
      BY <1>1, <1>6
    <2>4. HeldInv'
      BY <2>1, <2>2, <2>3 DEF EntityInv, HeldInv, Inline
    <2>5. MapInv'
      BY <1>1, <2>1 DEF EntityInv, MapInv
    <2> QED BY <2>1, <2>4, <2>5 DEF EntityInv
  <1> QED BY <1>4, <1>5, <1>6

\* The inline half of clear().
LEMMA ClearInv == ASSUME EntityInv, NEW t \in Threads, Clear(t) PROVE EntityInv'
  <1> DEFINE c == Cleared(em)
  <1>1. /\ em' = c /\ held' = held \ Forgotten(0 .. MaxIndex - 1)
        /\ current' = {h \in current : ~Inline(h)} /\ UNCHANGED <<mMap, mIndexForMap, aborted>>
    BY DEF Clear
  <1>2. /\ Listed(c) /\ Size(c) = Size(em)
        /\ \A i \in 0 .. Size(em) - 1 : c.entries[i].live = NextGeneration(em.entries[i].live)
    BY EntityParts, ClearedListed
  <1> HIDE DEF c
  <1>3. \A i \in 0 .. MaxIndex : em'.entries[i].live = NextGeneration(em.entries[i].live)
    BY <1>1, <1>2, EntityParts
  <1>4. ASSUME NEW k \in held', Inline(k)
        PROVE  k.gen <= em'.entries[k.index].live /\ k.gen # em'.entries[k.index].live
               /\ k \notin current'
    <2>1. k \in held /\ k.index \in 0 .. MaxIndex /\ k.gen \in Nat /\ k.index \in 0 .. MaxIndex - 1
      BY <1>1, <1>4, EntityParts DEF Inline
    <2>2. k.gen <= em.entries[k.index].live
      BY <1>4, <2>1 DEF EntityInv, HeldInv
    <2>3. em.entries[k.index].live \in Gens /\ em.entries[k.index].live + 1 # Generations
      BY <1>1, <2>1, EntityParts DEF Forgotten
    <2> QED BY <1>1, <1>3, <1>4, <2>1, <2>2, <2>3, PassedBy
  <1>5. \A k \in held' : ~Inline(k) => k \in held /\ (k \in current' <=> k \in current)
    BY <1>1
  <1>6. HeldInv'
    BY <1>1, <1>4, <1>5, EntityParts DEF EntityInv, HeldInv, Inline
  <1>7. MapInv'
    BY <1>1 DEF EntityInv, MapInv
  <1> QED BY <1>1, <1>2, <1>6, <1>7, EntityParts DEF EntityInv

\* The other half.
LEMMA ClearMapInv == ASSUME EntityInv, NEW t \in Threads, ClearMap(t) PROVE EntityInv'
  <1>1. /\ mMap' = {} /\ mIndexForMap' = 0 /\ held' = {h \in held : Inline(h)}
        /\ current' = {h \in current : Inline(h)} /\ UNCHANGED <<em, aborted>>
    BY DEF ClearMap
  <1>2. HeldInv'
    BY <1>1 DEF EntityInv, HeldInv, Inline
  <1>3. MapInv'
    BY <1>1 DEF EntityInv, MapInv
  <1> QED BY <1>1, <1>2, <1>3 DEF EntityInv

\* Every step of the entities.
LEMMA EntityStep == ASSUME EntityInv, HybridNext PROVE EntityInv'
  <1>1. PICK t \in Threads :
            \/ AddInline(t) \/ AddFindsNoRoom(t) \/ AddToMap(t) \/ Clear(t) \/ ClearMap(t)
            \/ \E h \in FixedHandles \ {Invalid} : AddFixedInline(t, h) \/ AddFixedToMap(t, h)
            \/ \E h \in held : Remove(t, h)
    BY DEF HybridNext
  <1>2. AddFindsNoRoom(t) => EntityInv'
    BY DEF AddFindsNoRoom, EntityInv, HeldInv, MapInv, Inline
  <1> QED BY <1>1, <1>2, AddInlineInv, AddToMapInv, ClearInv, ClearMapInv, AddFixedInlineInv,
             AddFixedToMapInv, RemoveInv

----------------------------------------------------------------------------
(* Components.                                                              *)

\* The parts of DataInv that an operation on a component needs.
LEMMA DataParts ==
    ASSUME DataInv
    PROVE  /\ Listed(mData) /\ Size(mData) \in Nat
           /\ DOMAIN mData.entries = 0 .. Size(mData) - 1
           /\ mData.entries \in [0 .. Size(mData) - 1 -> Entries]
           /\ \A i \in 0 .. Size(mData) - 1 : mData.entries[i].live \in Gens \ {0}
           /\ \A c \in components : /\ c \in Handles /\ c.index \in 0 .. Size(mData) - 1
                                    /\ c.gen \in Nat
           /\ Free(mData) = (0 .. Size(mData) - 1) \ Allocated(mData)
           /\ Allocated(mData) \in SUBSET (0 .. Size(mData) - 1)
  <1>1. mData \in Managers /\ Listed(mData)
    BY DEF DataInv, Listed
  <1>2. /\ Size(mData) \in Nat /\ DOMAIN mData.entries = 0 .. Size(mData) - 1
        /\ mData.entries \in [0 .. Size(mData) - 1 -> Entries]
    BY <1>1, ManagerParts
  <1>3. \A i \in 0 .. Size(mData) - 1 : mData.entries[i].live \in Gens \ {0}
    BY <1>2 DEF DataInv, CompInv, Entries
  <1>4. \A c \in components : /\ c \in Handles /\ c.index \in 0 .. Size(mData) - 1
                              /\ c.gen \in Nat
    BY <1>2 DEF DataInv, CompInv, Handles
  <1>5. /\ Free(mData) = (0 .. Size(mData) - 1) \ Allocated(mData)
        /\ Allocated(mData) \in SUBSET (0 .. Size(mData) - 1)
    BY <1>2 DEF Free, Allocated
  <1> QED BY <1>1, <1>2, <1>3, <1>4, <1>5

\* What a mapped component's handle leads to.
Leads(c, m, e) ==
    /\ c \in Handles /\ c.index \in Allocated(m)
    /\ m.entries[c.index].live = c.gen /\ m.entries[c.index].item = Item(e, TRUE)

\* addComponent: the handle given is ahead of those kept for its entry.
LEMMA AddComponentInv ==
    ASSUME DataInv, NEW entity \in Handles, NEW tracked \in BOOLEAN, AddComponent(entity, tracked)
    PROVE  DataInv'
  <1> DEFINE m == mData
             i == mData.first
             item == Item(entity, tracked)
             a == Added(mData, item)
             h == NextHandle(mData)
  <1>1. \/ /\ CanAdd(m, m.first) /\ mData' = a /\ components' = components \cup {h}
           /\ Tracks(entity, tracked, h)
        \/ Tracks(entity, tracked, Invalid) /\ UNCHANGED <<mData, components>>
    BY DEF AddComponent
  <1>2. \A e \in DOMAIN mEntityToComponentMap :
            mEntityToComponentMap[e] = Invalid \/ Leads(mEntityToComponentMap[e], m, e)
    BY DEF DataInv, CompInv, Leads
  <1>t. ASSUME NEW c, Tracks(entity, tracked, c)
        PROVE  \A e \in DOMAIN mEntityToComponentMap' :
                   \/ e = entity /\ tracked = TRUE /\ mEntityToComponentMap'[e] = c
                   \/ /\ e \in DOMAIN mEntityToComponentMap
                      /\ mEntityToComponentMap'[e] = mEntityToComponentMap[e]
    <2>1. CASE tracked
      BY <1>t, <2>1 DEF Tracks
    <2>2. CASE ~tracked
      BY <1>t, <2>2 DEF Tracks
    <2> QED BY <2>1, <2>2
  <1>3. CASE CanAdd(m, m.first) /\ mData' = a /\ components' = components \cup {h}
             /\ Tracks(entity, tracked, h)
    <2>1. item \in Items
      BY DEF Item, Items
    <2>2. /\ Listed(a) /\ Size(m) <= Size(a) /\ i \in Allocated(a) /\ i \notin Allocated(m)
          /\ h = Handle(i, a.entries[i].live) /\ a.entries[i].item = item
          /\ \A x \in 0 .. Size(m) - 1 :
                 /\ a.entries[x].live = m.entries[x].live
                 /\ x # i => a.entries[x] = m.entries[x]
                 /\ x \in Free(a) <=> x \in Free(m) /\ x # i
          /\ \A x \in Size(m) .. Size(a) - 1 : a.entries[x].live = 1
      <3> HIDE DEF item
      <3> QED BY <1>3, <2>1, AddedListed, DataParts
    <2> HIDE DEF a, item
    <2>3. /\ Size(a) \in Nat /\ DOMAIN a.entries = 0 .. Size(a) - 1
          /\ a.entries \in [0 .. Size(a) - 1 -> Entries]
          /\ Allocated(a) \in SUBSET (0 .. Size(a) - 1)
          /\ Free(a) = (0 .. Size(a) - 1) \ Allocated(a)
      <3>1. a \in Managers
        BY <2>2 DEF Listed
      <3>2. /\ Size(a) \in Nat /\ DOMAIN a.entries = 0 .. Size(a) - 1
            /\ a.entries \in [0 .. Size(a) - 1 -> Entries]
        BY <3>1, ManagerParts
      <3> QED BY <3>2 DEF Allocated, Free
    <2>4. a.entries[i].live \in Gens /\ h \in Handles /\ h.index = i /\ h.gen = a.entries[i].live
          /\ i \in 0 .. Size(a) - 1
      <3>1. i \in 0 .. Size(a) - 1 /\ a.entries[i] \in Entries
        BY <2>2, <2>3
      <3> QED BY <2>2, <3>1, GenerationsAssumption DEF Handle, Handles, Entries, Gens
    <2> HIDE DEF h
    <2>5. \A x \in 0 .. Size(a) - 1 : a.entries[x].live # 0
      <3> TAKE x \in 0 .. Size(a) - 1
      <3>1. x \in 0 .. Size(m) - 1 \/ x \in Size(m) .. Size(a) - 1
        BY <2>3, DataParts
      <3> QED BY <2>2, <3>1, DataParts
    <2>6. ASSUME NEW c \in components'
          PROVE  /\ c \in Handles /\ c.index \in 0 .. Size(a) - 1 /\ c.gen <= a.entries[c.index].live
                 /\ c.index \in Free(a) => c.gen # a.entries[c.index].live
      <3>1. CASE c = h
        <4>1. a.entries[i].live \in Nat /\ i \notin Free(a)
          BY <2>2, <2>3, <2>4, GenerationsAssumption DEF Gens
        <4> QED BY <2>4, <3>1, <4>1
      <3>2. CASE c # h
        <4>1. c \in components /\ c \in Handles /\ c.index \in 0 .. Size(m) - 1
          BY <1>3, <3>2, DataParts
        <4>2. /\ c.gen <= m.entries[c.index].live
              /\ c.index \in Free(m) => c.gen # m.entries[c.index].live
          BY <4>1 DEF DataInv, CompInv
        <4>3. c.index \in 0 .. Size(a) - 1
          BY <2>2, <2>3, <4>1, DataParts
        <4> QED BY <2>2, <4>1, <4>2, <4>3
      <3> QED BY <3>1, <3>2
    <2>7. ASSUME NEW e \in DOMAIN mEntityToComponentMap'
          PROVE  mEntityToComponentMap'[e] = Invalid \/ Leads(mEntityToComponentMap'[e], a, e)
      <3>1. CASE e = entity /\ tracked = TRUE /\ mEntityToComponentMap'[e] = h
        <4>1. a.entries[i].item = Item(e, TRUE)
          BY <2>2, <3>1 DEF item
        <4>2. Leads(h, a, e)
          BY <2>2, <2>4, <4>1 DEF Leads
        <4> QED BY <3>1, <4>2
      <3>2. CASE e \in DOMAIN mEntityToComponentMap /\ mEntityToComponentMap'[e] = mEntityToComponentMap[e]
        <4> DEFINE c == mEntityToComponentMap[e]
        <4>1. c = Invalid \/ Leads(c, m, e)
          BY <1>2, <3>2
        <4>2. mEntityToComponentMap'[e] = c
          BY <3>2
        <4> HIDE DEF c
        <4>3. ASSUME Leads(c, m, e) PROVE Leads(c, a, e)
          <5>1. c.index \in 0 .. Size(m) - 1 /\ c.index # i /\ c.index \notin Free(m)
            BY <2>2, <4>3, DataParts DEF Leads
          <5>2. a.entries[c.index] = m.entries[c.index] /\ c.index \notin Free(a)
            BY <2>2, <5>1
          <5>3. c.index \in 0 .. Size(a) - 1
            BY <2>2, <2>3, <5>1, DataParts
          <5> QED BY <2>3, <4>3, <5>2, <5>3 DEF Leads
        <4> QED BY <4>1, <4>2, <4>3
      <3> QED BY <1>3, <1>t, <3>1, <3>2
    <2>8. CompInv'
      BY <1>3, <2>3, <2>5, <2>6, <2>7 DEF CompInv, Leads
    <2> QED BY <1>3, <2>2, <2>8 DEF DataInv
  <1>4. CASE Tracks(entity, tracked, Invalid) /\ UNCHANGED <<mData, components>>
    <2>1. \A e \in DOMAIN mEntityToComponentMap' :
              mEntityToComponentMap'[e] = Invalid \/ Leads(mEntityToComponentMap'[e], m, e)
      BY <1>2, <1>4, <1>t
    <2>2. CompInv'
      BY <1>4, <2>1 DEF DataInv, CompInv, Leads
    <2> QED BY <1>4, <2>2 DEF DataInv
  <1> QED BY <1>1, <1>3, <1>4

\* removeByComponent: what leads to the entry is neither mapped nor ahead of it any more.
LEMMA RemoveByComponentInv ==
    ASSUME DataInv, NEW c, RemoveByComponent(c), Resolves(mData, c) => c.index \notin Free(mData)
    PROVE  DataInv'
  <1> DEFINE m == mData
             i == c.index
             r == Removed(mData, c)
  <1>1. mData' = r
    BY DEF RemoveByComponent
  <1>2. CASE Resolves(m, c)
    <2>1. /\ mEntityToComponentMap' = Unmapped(c)
          /\ components' = {k \in components :
                                k.index = i => m.entries[k.index].live + 1 # Generations}
      BY <1>2 DEF RemoveByComponent
    <2>2. /\ Listed(r) /\ Size(r) = Size(m) /\ Free(r) = Free(m) \cup {i}
          /\ r.entries[i].live = NextGeneration(m.entries[i].live)
          /\ \A x \in 0 .. Size(m) - 1 : x # i => r.entries[x] = m.entries[x]
      BY <1>2, RemovedListed, DataParts
    <2>i. i \in 0 .. Size(m) - 1
      BY <1>2, DataParts DEF Resolves
    <2> HIDE DEF r
    <2>3. /\ DOMAIN r.entries = 0 .. Size(m) - 1
          /\ Allocated(r) = (0 .. Size(m) - 1) \ Free(r)
      <3>1. r \in Managers
        BY <2>2 DEF Listed
      <3>2. DOMAIN r.entries = 0 .. Size(r) - 1
        BY <3>1, ManagerParts
      <3> QED BY <2>2, <3>2 DEF Allocated, Free
    <2>4. \A x \in 0 .. Size(m) - 1 : r.entries[x].live # 0
      <3> TAKE x \in 0 .. Size(m) - 1
      <3>1. m.entries[x].live \in Gens /\ m.entries[x].live # 0
        BY DataParts
      <3> QED BY <2>2, <3>1, NextGenerationIs
    <2>5. ASSUME NEW k \in components'
          PROVE  /\ k \in Handles /\ k.index \in 0 .. Size(m) - 1 /\ k.gen <= r.entries[k.index].live
                 /\ k.index \in Free(r) => k.gen # r.entries[k.index].live
      <3>1. /\ k \in components /\ k \in Handles /\ k.index \in 0 .. Size(m) - 1 /\ k.gen \in Nat
            /\ k.index = i => m.entries[i].live + 1 # Generations
        BY <2>1, DataParts
      <3>2. /\ k.gen <= m.entries[k.index].live
            /\ k.index \in Free(m) => k.gen # m.entries[k.index].live
        BY <3>1 DEF DataInv, CompInv
      <3>3. CASE k.index = i
        <4>1. m.entries[i].live \in Gens
          BY <2>i, DataParts
        <4> QED BY <2>2, <3>1, <3>2, <3>3, <4>1, PassedBy
      <3>4. CASE k.index # i
        BY <2>2, <3>1, <3>2, <3>4
      <3> QED BY <3>3, <3>4
    <2>6. ASSUME NEW e \in DOMAIN mEntityToComponentMap'
          PROVE  mEntityToComponentMap'[e] = Invalid \/ Leads(mEntityToComponentMap'[e], r, e)
      <3> DEFINE item == m.entries[i].item
      <3>1. /\ e \in DOMAIN mEntityToComponentMap
            /\ mEntityToComponentMap'[e] = mEntityToComponentMap[e]
            /\ item.tracked => e # item.entity
        <4>1. CASE item.tracked
          BY <2>1, <4>1 DEF Unmapped, Restrict
        <4>2. CASE ~item.tracked
          BY <2>1, <4>2 DEF Unmapped
        <4> QED BY <4>1, <4>2
      <3> DEFINE k == mEntityToComponentMap[e]
      <3>2. k = Invalid \/ Leads(k, m, e)
        BY <3>1 DEF DataInv, CompInv, Leads
      <3> HIDE DEF k
      <3>3. ASSUME Leads(k, m, e) PROVE Leads(k, r, e)
        <4>1. k.index # i
          <5>1. k.index = i => item = Item(e, TRUE)
            BY <3>3 DEF Leads
          <5>2. Item(e, TRUE).tracked /\ Item(e, TRUE).entity = e
            BY DEF Item
          <5> HIDE DEF item
          <5> QED BY <3>1, <5>1, <5>2
        <4>2. k.index \in 0 .. Size(m) - 1 /\ k.index \notin Free(m)
          BY <3>3, DataParts DEF Leads
        <4> QED BY <2>2, <2>3, <3>3, <4>1, <4>2 DEF Leads
      <3> QED BY <3>1, <3>2, <3>3 DEF k
    <2>7. CompInv'
      BY <1>1, <2>3, <2>4, <2>5, <2>6 DEF CompInv, Leads
    <2> QED BY <1>1, <2>2, <2>7 DEF DataInv
  <1>3. CASE ~Resolves(m, c)
    <2>1. mData' = mData
      BY <1>1, <1>3 DEF Removed
    <2> QED BY <1>3, <2>1 DEF RemoveByComponent, DataInv, CompInv
  <1> QED BY <1>2, <1>3

\* A handle that is kept, mapped or invalid leads to an entry in use, if to any.
LEMMA ResolvesInUse ==
    ASSUME DataInv, NEW c, Resolves(mData, c),
           \/ c \in components
           \/ \E e \in DOMAIN mEntityToComponentMap : c = mEntityToComponentMap[e]
           \/ c = Invalid
    PROVE  c.index \notin Free(mData)
  <1>1. c.index \in 0 .. Size(mData) - 1 /\ mData.entries[c.index].live = c.gen
    BY DataParts DEF Resolves
  <1>2. c # Invalid
    BY <1>1, DataParts DEF Invalid, Handle
  <1>3. CASE c \in components
    BY <1>1, <1>3 DEF DataInv, CompInv
  <1>4. CASE \E e \in DOMAIN mEntityToComponentMap : c = mEntityToComponentMap[e]
    BY <1>2, <1>4, DataParts DEF DataInv, CompInv
  <1> QED BY <1>2, <1>3, <1>4

\* clear: nothing is mapped, and every entry's generation is ahead of the handles kept.
LEMMA ClearComponentsInv == ASSUME DataInv, ClearComponents PROVE DataInv'
  <1> DEFINE m == mData
             c == Cleared(mData)
  <1>1. /\ mData' = c /\ mEntityToComponentMap' = <<>>
        /\ components' = {k \in components : m.entries[k.index].live + 1 # Generations}
    BY DEF ClearComponents
  <1>2. /\ Listed(c) /\ Size(c) = Size(m)
        /\ \A i \in 0 .. Size(m) - 1 : c.entries[i].live = NextGeneration(m.entries[i].live)
    BY ClearedListed, DataParts
  <1> HIDE DEF c
  <1>3. DOMAIN c.entries = 0 .. Size(m) - 1
    BY <1>2, ManagerParts DEF Listed
  <1>4. \A i \in 0 .. Size(m) - 1 : c.entries[i].live # 0
    <2> TAKE i \in 0 .. Size(m) - 1
    <2>1. m.entries[i].live \in Gens
      BY DataParts
    <2> QED BY <1>2, <2>1, NextGenerationIs
  <1>5. ASSUME NEW k \in components'
        PROVE  /\ k \in Handles /\ k.index \in 0 .. Size(m) - 1 /\ k.gen <= c.entries[k.index].live
               /\ k.gen # c.entries[k.index].live
    <2>1. /\ k \in components /\ k \in Handles /\ k.index \in 0 .. Size(m) - 1 /\ k.gen \in Nat
          /\ m.entries[k.index].live + 1 # Generations
      BY <1>1, DataParts
    <2>2. k.gen <= m.entries[k.index].live /\ m.entries[k.index].live \in Gens
      BY <2>1, DataParts DEF DataInv, CompInv
    <2> QED BY <1>2, <2>1, <2>2, PassedBy
  <1>6. DOMAIN mEntityToComponentMap' = {}
    BY <1>1
  <1>7. CompInv'
    BY <1>1, <1>3, <1>4, <1>5, <1>6 DEF CompInv
  <1> QED BY <1>1, <1>2, <1>7 DEF DataInv

----------------------------------------------------------------------------
(* The theorems.                                                            *)

\* At the start everything is free, and no one has a handle.
LEMMA InitIInv == ASSUME Init PROVE IInv
  <1>1. EntityInv
    <2>1. MaxIndex + 1 \in Nat /\ MaxIndex + 2 \in Nat
      BY HybridAssumption
    <2>2. Listed(em) /\ Size(em) = MaxIndex + 1
      BY <2>1, ManagerListed DEF Init, HybridInit
    <2>3. HeldInv /\ MapInv
      BY DEF Init, HybridInit, HeldInv, MapInv
    <2> QED BY <2>2, <2>3 DEF EntityInv
  <1>2. DataInv
    <2>1. Listed(mData) /\ Size(mData) = 0
      BY ManagerListed, ComponentAssumption DEF Init
    <2>2. DOMAIN mData.entries = {}
      <3>1. DOMAIN mData.entries = 0 .. 0 - 1
        BY <2>1, ManagerParts DEF Listed
      <3> QED BY <3>1
    <2>3. components = {} /\ DOMAIN mEntityToComponentMap = {}
      BY DEF Init
    <2>4. CompInv
      BY <2>2, <2>3 DEF CompInv
    <2> QED BY <2>1, <2>4 DEF DataInv
  <1> QED BY <1>1, <1>2 DEF IInv

\* No step of a client takes the managers out of it.
LEMMA StepIInv == ASSUME IInv, [Next]_vars PROVE IInv'
  <1>1. EntityInv /\ DataInv /\ held \subseteq Handles
    BY DEF IInv, EntityInv, HeldInv
  <1>2. CASE HybridNext /\ UNCHANGED componentVars
    <2>1. EntityInv'
      BY <1>1, <1>2, EntityStep
    <2>2. DataInv'
      BY <1>1, <1>2 DEF componentVars, DataInv, CompInv
    <2> QED BY <2>1, <2>2 DEF IInv
  <1>3. CASE \/ \E entity \in held, tracked \in BOOLEAN : AddComponent(entity, tracked)
             \/ \E entity \in held : RemoveByEntity(entity)
             \/ \E c \in components : RemoveByComponent(c)
             \/ ClearComponents
    <2>1. Call
      BY <1>3 DEF AddComponent, RemoveByEntity, RemoveByComponent, ClearComponents
    <2>2. EntityInv'
      BY <1>1, <2>1 DEF Call, EntityInv, HeldInv, MapInv, Inline
    <2>3. ASSUME NEW entity \in held, NEW tracked \in BOOLEAN, AddComponent(entity, tracked)
          PROVE  DataInv'
      BY <1>1, <2>3, AddComponentInv
    <2>4. ASSUME NEW entity \in held, RemoveByEntity(entity) PROVE DataInv'
      <3> DEFINE c == IF entity \in DOMAIN mEntityToComponentMap
                      THEN mEntityToComponentMap[entity] ELSE Invalid
      <3>1. RemoveByComponent(c)
        BY <2>4 DEF RemoveByEntity
      <3>2. \/ \E e \in DOMAIN mEntityToComponentMap : c = mEntityToComponentMap[e]
            \/ c = Invalid
        OBVIOUS
      <3> HIDE DEF c
      <3> QED BY <1>1, <3>1, <3>2, ResolvesInUse, RemoveByComponentInv
    <2>5. ASSUME NEW c \in components, RemoveByComponent(c) PROVE DataInv'
      BY <1>1, <2>5, ResolvesInUse, RemoveByComponentInv
    <2>6. DataInv'
      BY <1>1, <1>3, <2>3, <2>4, <2>5, ClearComponentsInv
    <2> QED BY <2>2, <2>6 DEF IInv
  <1>4. CASE UNCHANGED vars
    BY <1>1, <1>4 DEF vars, hybridVars, componentVars, IInv, EntityInv, HeldInv, MapInv, Inline,
                      DataInv, CompInv
  <1> QED BY <1>2, <1>3, <1>4 DEF Next

\* The free lists are chains, no handle is ahead of its entry, and what is tracked is there.
THEOREM Inductive == Spec => []IInv
  <1> QED BY InitIInv, StepIInv, PTL DEF Spec

\* In both managers the free list holds the entries that are not live, each once, whatever is
\* added, fixed, removed and cleared: the walk of addFixed (EntityManager.h:244) ends.
THEOREM FreeListsHold == Spec => []FreeListsExact
  <1>1. IInv => FreeListsExact
    BY ListIsExact DEF IInv, EntityInv, DataInv, FreeListsExact
  <1> QED BY <1>1, Inductive, PTL

\* A handle leads to an item exactly as long as its entity is there, whatever other threads do
\* between the two halves of add() and of clear() (HybridEntityManager.h:61).
THEOREM HandlesHold == Spec => []HandlesResolve
  <1>1. IInv => HandlesResolve
    <2> SUFFICES ASSUME IInv PROVE HandlesResolve
      OBVIOUS
    <2>1. EntityInv /\ ~aborted
      BY DEF IInv, EntityInv, MapInv
    <2>2. ASSUME NEW h \in held PROVE Gets(h) <=> h \in current
      <3>1. CASE Inline(h)
        <4>1. h.index \in DOMAIN em.entries
          BY <2>1, <3>1, EntityParts
        <4> QED BY <2>1, <3>1, <4>1 DEF Gets, Resolves, EntityInv, HeldInv
      <3>2. CASE ~Inline(h)
        BY <2>1, <3>2 DEF Gets, EntityInv, HeldInv
      <3> QED BY <3>1, <3>2
    <2> QED BY <2>1, <2>2 DEF HandlesResolve
  <1> QED BY <1>1, Inductive, PTL

\* A mapped entity leads to a component that is there and was added for it
\* (EntityManager.h:414).
THEOREM TrackedHold == Spec => []TrackedResolves
  <1>1. IInv => TrackedResolves
    BY DataParts DEF IInv, DataInv, CompInv, TrackedResolves, Resolves
  <1> QED BY <1>1, Inductive, PTL
=============================================================================
