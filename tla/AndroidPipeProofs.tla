------------------------- MODULE AndroidPipeProofs -------------------------
(***************************************************************************)
(* What waits for a pipe belongs to it, survives a snapshot, and each      *)
(* service loads its own stream: for any pipes, any finite set of services *)
(* in any order, and any size of the connector's buffer.                   *)
(***************************************************************************)
EXTENDS AndroidPipe, SequenceTheorems, FiniteSetTheorems, WellFoundedInduction, TLAPS

Signal == {"in", "closed"}
Ops == [pipe : Pipes, flags : SUBSET Signal, late : BOOLEAN]
Ends ==
    [kind : {"closed", "connector", "service"}, pos : 0 .. BufferSize, name : Names \cup {"none"}]

\* The connector's position stays inside its buffer, and no service is registered twice.
Typed ==
    /\ services \in Orders /\ snapshot.services \in Orders
    /\ pipe \in [Pipes -> Ends] /\ snapshot.pipes \in [Pipes -> Ends]
    /\ mPending \in Seq(Ops) /\ closing \in SUBSET Pipes
    /\ owed \in [Pipes -> SUBSET Signal] /\ savedOwed \in [Pipes -> SUBSET Signal]
    /\ snapshot.flags \in [Pipes -> SUBSET Signal]

\* What waits for a pipe that is being closed was queued after the abort.
LateWhileClosing == \A op \in ToSet(mPending) : op.pipe \in closing => op.late

\* The streams given before the pipes load are those of the services and the snapshot that
\* are still there when the last one has loaded.
StreamsStand == vm = "loading" => streams = Given

\* Only to a pipe with a service that is not being closed something is owed.
OwedLive == \A p \in Pipes : owed[p] # {} => pipe[p].kind = "service" /\ p \notin closing

\* The flags that a snapshot carries are at least those that were owed.
SavedWaits ==
    \A p \in Pipes : savedOwed[p] # {} =>
        snapshot.pipes[p].kind = "service" /\ savedOwed[p] \subseteq snapshot.flags[p]

OInv == OnlyLateOutlive /\ LateWhileClosing
WInv == LoadKeepsWakes /\ OwedLive /\ SavedWaits
IInv == Typed /\ OInv /\ WInv /\ StreamsStand

----------------------------------------------------------------------------
(* The queue of operations.                                                 *)

\* The well-ordering of the naturals, which stands for induction on an index.
LEMMA LeastNatural ==
    ASSUME NEW T \in SUBSET Nat, T # {}
    PROVE  \E m \in T : \A k \in T : m <= k
  <1> DEFINE R == OpToRel(<, Nat)
  <1>1. IsWellFoundedOn(R, Nat)
    BY NatLessThanWellFounded
  <1>2. \A x, y \in Nat : x < y => <<x, y>> \in R
    BY DEF OpToRel
  <1> HIDE DEF R
  <1>3. PICK m \in T : \A k \in T : ~(<<k, m>> \in R)
    BY <1>1, WFMin, Zenon
  <1>4. ASSUME NEW k \in T PROVE m <= k
    <2>1. k \in Nat /\ m \in Nat
      OBVIOUS
    <2>2. ~(k < m)
      BY <1>2, <1>3, <2>1
    <2> QED BY <2>1, <2>2
  <1> QED BY <1>4

\* Aborting the operations of a pipe leaves those of the others, and those only.
LEMMA WithoutOps ==
    ASSUME mPending \in Seq(Ops), NEW p
    PROVE  /\ Without(p) \in Seq(Ops)
           /\ ToSet(Without(p)) = {op \in ToSet(mPending) : op.pipe # p}
  <1> DEFINE L == Len(mPending)
             Next1(f, i) == IF i = 0 THEN <<>>
                            ELSE IF mPending[i].pipe = p THEN f[i - 1]
                            ELSE Append(f[i - 1], mPending[i])
             Keeps1(f, n) == f = [i \in 0 .. n |-> Next1(f, i)]
             kept == CHOOSE f : Keeps1(f, L)
  <1>0. L \in Nat /\ DOMAIN mPending = 1 .. L /\ \A i \in 1 .. L : mPending[i] \in Ops
    BY LenProperties, ElementOfSeq
  <1> HIDE DEF L
  <1>1. Without(p) = kept[L]
    BY DEF Without, L
  <1>2. \A n \in Nat : \E f : Keeps1(f, n)
    <2> SUFFICES ASSUME NEW n0 \in Nat, ~\E f : Keeps1(f, n0) PROVE FALSE
      OBVIOUS
    <2> DEFINE T == {n \in Nat : ~\E f : Keeps1(f, n)}
    <2>1. T \in SUBSET Nat /\ T # {}
      OBVIOUS
    <2> HIDE DEF T
    <2>2. PICK m \in T : \A k \in T : m <= k
      BY <2>1, LeastNatural
    <2>m. m \in Nat
      BY <2>1, <2>2
    <2>3. m # 0
      <3>1. Keeps1([i \in 0 .. 0 |-> <<>>], 0)
        OBVIOUS
      <3> QED BY <2>2, <3>1 DEF T
    <2>4. m - 1 \in Nat /\ m - 1 \notin T
      BY <2>1, <2>2, <2>3
    <2>5. PICK f : Keeps1(f, m - 1)
      BY <2>4 DEF T
    <2> DEFINE g == [i \in 0 .. m |-> IF i = m THEN Next1(f, m) ELSE f[i]]
    <2>6. \A i \in 0 .. m : g[i] = Next1(g, i)
      <3> TAKE i \in 0 .. m
      <3>1. CASE i = m
        <4>1. g[m - 1] = f[m - 1]
          BY <2>m, <2>4
        <4>2. g[m] = Next1(f, m)
          BY <2>m
        <4> QED BY <2>3, <3>1, <4>1, <4>2
      <3>2. CASE i # m
        <4>1. i \in 0 .. m - 1 /\ g[i] = f[i]
          BY <2>m, <3>2
        <4>2. f[i] = Next1(f, i)
          BY <2>5, <4>1
        <4>3. i # 0 => i - 1 \in 0 .. m /\ i - 1 # m /\ g[i - 1] = f[i - 1]
          BY <2>m, <4>1
        <4> QED BY <4>1, <4>2, <4>3
      <3> QED BY <3>1, <3>2
    <2>7. Keeps1(g, m)
      <3> HIDE DEF Next1
      <3>1. g = [i \in 0 .. m |-> g[i]]
        OBVIOUS
      <3> QED BY <2>6, <3>1
    <2> QED BY <2>2, <2>7 DEF T
  <1>3. Keeps1(kept, L)
    BY <1>0, <1>2
  <1>4. \A i \in 0 .. L : kept[i] = Next1(kept, i)
    BY <1>3
  <1> HIDE DEF kept, Keeps1
  <1> DEFINE Of(n) == {mPending[j] : j \in {k \in 1 .. n : mPending[k].pipe # p}}
             Right(n) == kept[n] \in Seq(Ops) /\ ToSet(kept[n]) = Of(n)
  <1>5. ASSUME NEW n \in 1 .. L, Right(n - 1) PROVE Right(n)
    <2>1. n \in 0 .. L /\ n # 0
      BY <1>0
    <2>2. CASE mPending[n].pipe = p
      <3>1. kept[n] = kept[n - 1]
        BY <1>4, <2>1, <2>2
      <3>2. Of(n) = Of(n - 1)
        BY <1>0, <2>2
      <3> QED BY <1>5, <3>1, <3>2
    <2>3. CASE mPending[n].pipe # p
      <3>1. kept[n] = Append(kept[n - 1], mPending[n])
        BY <1>4, <2>1, <2>3
      <3>2. Of(n) = Of(n - 1) \cup {mPending[n]}
        BY <1>0, <2>3
      <3> DEFINE s == kept[n - 1]
                 e == mPending[n]
      <3>3. s \in Seq(Ops) /\ e \in Ops /\ ToSet(s) = Of(n - 1)
        BY <1>0, <1>5
      <3> HIDE DEF s, e, Of
      <3>4. Append(s, e) \in Seq(Ops) /\ ToSet(Append(s, e)) = ToSet(s) \cup {e}
        <4>1. /\ Len(s) \in Nat /\ DOMAIN s = 1 .. Len(s)
              /\ Append(s, e) \in Seq(Ops) /\ Len(Append(s, e)) = Len(s) + 1
              /\ DOMAIN Append(s, e) = 1 .. Len(s) + 1
              /\ \A i \in 1 .. Len(s) : Append(s, e)[i] = s[i]
              /\ Append(s, e)[Len(s) + 1] = e
          BY <3>3, LenProperties, AppendProperties
        <4> QED BY <4>1 DEF ToSet
      <3> QED BY <3>1, <3>2, <3>3, <3>4 DEF s, e
    <2> QED BY <2>2, <2>3
  <1>6. Right(0)
    <2>1. kept[0] = <<>>
      BY <1>0, <1>4
    <2>2. <<>> \in Seq(Ops) /\ ToSet(<<>>) = {}
      BY EmptySeq DEF ToSet
    <2>3. Of(0) = {}
      OBVIOUS
    <2> QED BY <2>1, <2>2, <2>3
  <1>7. Right(L)
    <2> SUFFICES ASSUME ~Right(L) PROVE FALSE
      OBVIOUS
    <2> DEFINE T == {n \in 0 .. L : ~Right(n)}
    <2> HIDE DEF Right
    <2>1. T \in SUBSET Nat /\ T # {}
      BY <1>0
    <2>2. PICK m \in T : \A k \in T : m <= k
      BY <2>1, LeastNatural
    <2>3. m \in 1 .. L
      BY <1>0, <1>6, <2>2
    <2>4. m - 1 \in 0 .. L /\ m - 1 \notin T
      BY <1>0, <2>2, <2>3
    <2> QED BY <1>5, <2>2, <2>3, <2>4
  <1>8. Of(L) = {op \in ToSet(mPending) : op.pipe # p}
    BY <1>0 DEF ToSet
  <1> QED BY <1>1, <1>7, <1>8

\* A queue that gets one operation more.
LEMMA AppendOps ==
    ASSUME mPending \in Seq(Ops), NEW op \in Ops
    PROVE  /\ Append(mPending, op) \in Seq(Ops)
           /\ ToSet(Append(mPending, op)) = ToSet(mPending) \cup {op}
  <1>1. /\ Len(mPending) \in Nat /\ DOMAIN mPending = 1 .. Len(mPending)
        /\ Append(mPending, op) \in Seq(Ops)
        /\ DOMAIN Append(mPending, op) = 1 .. Len(mPending) + 1
        /\ \A i \in 1 .. Len(mPending) : Append(mPending, op)[i] = mPending[i]
        /\ Append(mPending, op)[Len(mPending) + 1] = op
    BY LenProperties, AppendProperties
  <1> QED BY <1>1 DEF ToSet

\* An operation that waits is one.
LEMMA OpsAre == ASSUME mPending \in Seq(Ops) PROVE ToSet(mPending) \in SUBSET Ops
  BY LenProperties, ElementOfSeq DEF ToSet

----------------------------------------------------------------------------
(* The services.                                                            *)

\* A registration order is a sequence of distinct names.
LEMMA OrdersAre ==
    ASSUME NEW s \in Orders
    PROVE  /\ Len(s) \in Nat /\ DOMAIN s = 1 .. Len(s)
           /\ \A i \in 1 .. Len(s) : s[i] \in Names
           /\ \A i, j \in 1 .. Len(s) : s[i] = s[j] => i = j
  <1>1. Cardinality(Names) \in Nat
    BY PipeAssumption, FS_CardinalityType
  <1>2. PICK m \in 0 .. Cardinality(Names) : s \in [1 .. m -> Names]
    BY DEF Orders, SeqOf
  <1>3. m \in Nat /\ s \in Seq(Names)
    BY <1>1, <1>2, SeqDef
  <1>4. DOMAIN s = 1 .. Len(s) /\ Len(s) \in Nat /\ \A i \in 1 .. Len(s) : s[i] \in Names
    BY <1>3, LenProperties, ElementOfSeq
  <1>5. IsInjective(s)
    BY DEF Orders
  <1> QED BY <1>4, <1>5 DEF IsInjective

\* A set with one element has it as least and greatest.
LEMMA OneElement == ASSUME NEW k \in Int PROVE Min({k}) = k /\ Max({k}) = k
  BY DEF Min, Max

\* Wherever a search for a service begins, it finds the service or that it is not there.
LEMMA Found ==
    ASSUME services \in Orders, NEW n, NEW start \in Nat
    PROVE  /\ \A k \in 1 .. Len(services) : Position(n, start + 1) = k <=> services[k] = n
           /\ Position(n, start + 1) \in 0 .. Len(services)
  <1>0. /\ Len(services) \in Nat
        /\ \A i, j \in 1 .. Len(services) : services[i] = services[j] => i = j
    BY OrdersAre
  <1>1. ASSUME NEW k \in 1 .. Len(services), services[k] = n PROVE Position(n, start + 1) = k
    <2>1. PositionFrom(n, 1) = {k}
      BY <1>0, <1>1 DEF PositionFrom
    <2>2. PositionFrom(n, start + 1) = {k} \/ PositionFrom(n, start + 1) = {}
      BY <1>0, <1>1 DEF PositionFrom
    <2>3. Min({k}) = k
      BY OneElement
    <2> QED BY <2>1, <2>2, <2>3 DEF Position
  <1>2. ASSUME ~\E k \in 1 .. Len(services) : services[k] = n PROVE Position(n, start + 1) = 0
    <2>1. PositionFrom(n, 1) = {} /\ PositionFrom(n, start + 1) = {}
      BY <1>0, <1>2 DEF PositionFrom
    <2> QED BY <2>1 DEF Position
  <1>3. CASE \E k \in 1 .. Len(services) : services[k] = n
    <2>1. PICK k \in 1 .. Len(services) : services[k] = n
      BY <1>3
    <2> QED BY <1>0, <1>1, <2>1
  <1>4. CASE ~\E k \in 1 .. Len(services) : services[k] = n
    BY <1>0, <1>2, <1>4
  <1> QED BY <1>3, <1>4

\* Each service is given what it saved, and told when the snapshot has nothing of it: the
\* hint where the search begins, behind the service found last, does not matter.
LEMMA GivenMatches ==
    ASSUME services \in Orders, snapshot.services \in Orders, NEW k \in DOMAIN services
    PROVE  Given[k] = IF services[k] \in ToSet(snapshot.services) THEN services[k] ELSE NoStream
  <1> DEFINE saved == snapshot.services
             L == Len(saved)
             Hint(f, i) == IF i = 0 THEN 0 ELSE Position(saved[i], f[i - 1] + 1)
             at == CHOOSE f : f = [i \in 0 .. L |-> Hint(f, i)]
             found == {i \in DOMAIN saved : at[i] = k}
  <1>0. /\ L \in Nat /\ DOMAIN saved = 1 .. L
        /\ \A i, j \in 1 .. L : saved[i] = saved[j] => i = j
        /\ DOMAIN services = 1 .. Len(services) /\ Len(services) \in Nat
    BY OrdersAre
  <1>1. Given[k] = IF found = {} THEN NoStream ELSE saved[Max(found)]
    BY DEF Given
  <1> HIDE DEF L, saved
  <1>2. \E f : f = [i \in 0 .. L |-> Hint(f, i)]
    <2> DEFINE f == [i \in 0 .. L |-> IF i = 0 THEN 0 ELSE Position(saved[i], 0 + 1)]
    <2>1. \A i \in 0 .. L : f[i] \in Nat
      <3> TAKE i \in 0 .. L
      <3>1. Position(saved[i], 0 + 1) \in Nat
        <4>1. Position(saved[i], 0 + 1) \in 0 .. Len(services)
          BY Found
        <4> QED BY <1>0, <4>1
      <3> QED BY <3>1
    <2>2. \A i \in 0 .. L : f[i] = Hint(f, i)
      <3> TAKE i \in 0 .. L
      <3>1. CASE i = 0
        BY <3>1
      <3>2. CASE i # 0
        <4>1. f[i - 1] \in Nat /\ f[i] = Position(saved[i], 0 + 1)
          BY <1>0, <2>1, <3>2
        <4> HIDE DEF f
        <4>2. /\ \A j \in 1 .. Len(services) : Position(saved[i], f[i - 1] + 1) = j <=> services[j] = saved[i]
              /\ Position(saved[i], f[i - 1] + 1) \in 0 .. Len(services)
          BY <4>1, Found
        <4>3. /\ \A j \in 1 .. Len(services) : Position(saved[i], 0 + 1) = j <=> services[j] = saved[i]
              /\ Position(saved[i], 0 + 1) \in 0 .. Len(services)
          BY Found
        <4>4. Position(saved[i], f[i - 1] + 1) = Position(saved[i], 0 + 1)
          BY <1>0, <4>2, <4>3
        <4> QED BY <3>2, <4>1, <4>4
      <3> QED BY <3>1, <3>2
    <2> QED BY <2>2
  <1>3. at = [i \in 0 .. L |-> Hint(at, i)]
    <2> HIDE DEF Hint
    <2> QED BY <1>2
  <1>4. \A i \in 0 .. L : at[i] = Hint(at, i)
    BY <1>3
  <1> HIDE DEF at
  <1>5. \A i \in 0 .. L : at[i] \in Nat
    <2> SUFFICES ASSUME NEW i0 \in 0 .. L, at[i0] \notin Nat PROVE FALSE
      OBVIOUS
    <2> DEFINE T == {i \in 0 .. L : at[i] \notin Nat}
    <2>1. T \in SUBSET Nat /\ T # {}
      BY <1>0
    <2>2. PICK m \in T : \A i \in T : m <= i
      BY <2>1, LeastNatural
    <2>3. m \in 1 .. L /\ at[m - 1] \in Nat
      BY <1>0, <1>4, <2>2
    <2>4. Position(saved[m], at[m - 1] + 1) \in Nat
      BY <1>0, <2>3, Found
    <2> QED BY <1>0, <1>4, <2>2, <2>3, <2>4
  <1>6. \A i \in 1 .. L : at[i] = k <=> services[k] = saved[i]
    <2> TAKE i \in 1 .. L
    <2>1. at[i - 1] \in Nat /\ at[i] = Position(saved[i], at[i - 1] + 1)
      BY <1>0, <1>4, <1>5
    <2> QED BY <1>0, <2>1, Found
  <1>7. CASE services[k] \in ToSet(saved)
    <2>1. PICK i \in 1 .. L : saved[i] = services[k]
      BY <1>0, <1>7 DEF ToSet
    <2>2. found = {i}
      BY <1>0, <1>6, <2>1
    <2>3. Max({i}) = i
      BY OneElement
    <2> QED BY <1>1, <1>7, <2>1, <2>2, <2>3 DEF saved
  <1>8. CASE services[k] \notin ToSet(saved)
    <2>1. found = {}
      BY <1>0, <1>6, <1>8 DEF ToSet
    <2> QED BY <1>1, <1>8, <2>1 DEF saved
  <1> QED BY <1>7, <1>8

----------------------------------------------------------------------------
(* What the invariant depends on.                                           *)

UnchangedPipes == UNCHANGED <<pipe, mPending, closing>>
UnchangedLoad == UNCHANGED <<services, snapshot, streams>>

\* The streams stand while neither the services nor the snapshot change.
LEMMA SameStreams ==
    ASSUME StreamsStand, UnchangedLoad, vm' = "loading" => vm = "loading"
    PROVE  StreamsStand'
  <1>1. Given' = Given
    BY DEF UnchangedLoad, Given, Position, PositionFrom
  <1> QED BY <1>1 DEF StreamsStand, UnchangedLoad

\* Neither do the properties of the queue change with the queue and the pipes.
LEMMA SameQueue == ASSUME OInv, UnchangedPipes PROVE OInv'
  BY DEF OInv, OnlyLateOutlive, LateWhileClosing, UnchangedPipes, ToSet

\* What is owed may become less and what waits more, and a pipe that something is owed to
\* stays as it is; and no step but the timer's takes the timer away.
LEMMA SameWakes ==
    ASSUME WInv, UNCHANGED <<snapshot, savedOwed>>,
           \A p \in Pipes : owed'[p] \subseteq owed[p],
           \A p \in Pipes : pipe'[p] = pipe[p] \/ pipe[p].kind # "service" \/ p \in closing,
           closing' \subseteq closing,
           ToSet(mPending) \subseteq ToSet(mPending'),
           armed \/ starting # {} => armed' \/ starting' # {}
    PROVE  WInv'
  <1>1. \A p \in Pipes : owed'[p] # {} => owed[p] # {}
    OBVIOUS
  <1>2. LoadKeepsWakes'
    BY <1>1 DEF WInv, LoadKeepsWakes
  <1>3. OwedLive'
    BY <1>1 DEF WInv, OwedLive
  <1>4. SavedWaits'
    BY DEF WInv, SavedWaits
  <1> QED BY <1>2, <1>3, <1>4 DEF WInv

\* Performing operations owes no more, and nothing of what they told.
LEMMA Performs ==
    ASSUME Typed, NEW ops \in SUBSET Ops, Perform(ops)
    PROVE  /\ owed' \in [Pipes -> SUBSET Signal]
           /\ \A p \in Pipes : owed'[p] \subseteq owed[p]
           /\ \A p \in Pipes, op \in ops : op.pipe = p => owed'[p] \cap op.flags = {}
  <1>1. owed' = [p \in Pipes |-> IF "closed" \in Tells(ops, p) THEN {} ELSE owed[p] \ Tells(ops, p)]
    BY DEF Perform
  <1>2. /\ owed' \in [Pipes -> SUBSET Signal]
        /\ \A p \in Pipes : owed'[p] \subseteq owed[p]
    BY <1>1 DEF Typed
  <1>3. ASSUME NEW p \in Pipes, NEW op \in ops, op.pipe = p PROVE owed'[p] \cap op.flags = {}
    <2>1. Told(op.flags) \subseteq Tells(ops, p)
      BY <1>3 DEF Tells
    <2>2. owed'[p] = IF "closed" \in Tells(ops, p) THEN {} ELSE owed[p] \ Tells(ops, p)
      BY <1>1
    <2>3. CASE "closed" \in op.flags
      BY <2>1, <2>2, <2>3 DEF Told
    <2>4. CASE "closed" \notin op.flags
      BY <2>1, <2>2, <2>4 DEF Told
    <2> QED BY <2>3, <2>4
  <1> QED BY <1>2, <1>3

\* An operation that is queued for a pipe with a service, marked when the pipe is being
\* closed, keeps the invariant.
LEMMA Pushes ==
    ASSUME IInv, NEW p \in Pipes, NEW flags \in Flags,
           pipe[p].kind = "service", Push(p, flags),
           Owes(p, flags), armed' \/ starting' # {}, UNCHANGEDBySignals
    PROVE  IInv'
  <1> DEFINE op == Op(p, flags)
  <1>1. op \in Ops /\ op.pipe = p /\ op.late = (p \in closing) /\ op.flags = flags
    BY DEF Op, Ops, Flags, Signal
  <1>2. mPending' = Append(mPending, op)
    BY DEF Push
  <1> HIDE DEF op
  <1>3. mPending' \in Seq(Ops) /\ ToSet(mPending') = ToSet(mPending) \cup {op}
    BY <1>1, <1>2, AppendOps DEF IInv, Typed
  <1>4. UNCHANGED <<services, pipe, vm, closing, snapshot, savedOwed, streams>>
    BY DEF UNCHANGEDBySignals
  <1>5. /\ owed' \in [Pipes -> SUBSET Signal]
        /\ \A q \in Pipes : \/ owed'[q] = owed[q]
                            \/ q = p /\ p \notin closing /\ owed'[q] = owed[q] \cup flags
    <2>1. owed \in [Pipes -> SUBSET Signal] /\ flags \in SUBSET Signal
      BY DEF IInv, Typed, Flags, Signal
    <2>2. CASE p \in closing
      BY <2>1, <2>2 DEF Owes
    <2>3. CASE p \notin closing
      <3>1. owed' = [owed EXCEPT ![p] = @ \cup flags]
        BY <2>3 DEF Owes
      <3> HIDE DEF Signal
      <3> QED BY <2>1, <2>3, <3>1
    <2> QED BY <2>2, <2>3
  <1>6. Typed'
    BY <1>3, <1>4, <1>5 DEF IInv, Typed
  <1>7. OInv'
    BY <1>1, <1>3, <1>4 DEF IInv, OInv, OnlyLateOutlive, LateWhileClosing
  <1>8. LoadKeepsWakes'
    BY <1>1, <1>3, <1>5 DEF IInv, WInv, LoadKeepsWakes
  <1>9. OwedLive' /\ SavedWaits'
    BY <1>4, <1>5 DEF IInv, WInv, OwedLive, SavedWaits
  <1>10. StreamsStand'
    BY <1>4, SameStreams DEF IInv, UnchangedLoad
  <1> QED BY <1>6, <1>7, <1>8, <1>9, <1>10 DEF IInv, WInv

\* A step that touches neither the queue nor the services.
LEMMA PipeStep ==
    ASSUME IInv, UnchangedLoad, UNCHANGED <<mPending, owed, savedOwed>>,
           armed \/ starting # {} => armed' \/ starting' # {},
           \A p \in Pipes : pipe'[p] = pipe[p] \/ pipe[p].kind # "service" \/ p \in closing,
           closing' \subseteq closing, vm' = "loading" => vm = "loading",
           Typed', OInv'
    PROVE  IInv'
  <1>1. WInv'
    <2>1. ToSet(mPending) \subseteq ToSet(mPending')
      BY DEF ToSet
    <2> QED BY <2>1, SameWakes DEF IInv, UnchangedLoad
  <1>2. StreamsStand'
    BY SameStreams DEF IInv
  <1> QED BY <1>1, <1>2 DEF IInv

----------------------------------------------------------------------------
(* Signals and the timer.                                                   *)

\* A process begins with every pipe closed and nothing waiting.
LEMMA InitInv == Init => IInv
  <1> SUFFICES ASSUME Init PROVE IInv
    OBVIOUS
  <1>0. <<>> \in Seq(Ops) /\ ToSet(<<>>) = {}
    BY EmptySeq DEF ToSet
  <1>1. mPending = <<>>
    BY DEF Init
  <1>2. Typed
    <2>1. Closed \in Ends
      BY PipeAssumption DEF Closed, Ends
    <2> QED BY <1>0, <2>1 DEF Init, Typed
  <1>3. OInv
    BY <1>0, <1>1 DEF OInv, OnlyLateOutlive, LateWhileClosing
  <1>4. WInv /\ StreamsStand
    BY DEF Init, WInv, LoadKeepsWakes, OwedLive, SavedWaits, StreamsStand
  <1> QED BY <1>2, <1>3, <1>4 DEF IInv

\* A thread of a service queues a signal, or starts the timer for it.
LEMMA HostInv ==
    ASSUME IInv, NEW p \in Pipes,
           HostStartsTimer(p) \/ \E flags \in Flags : HostSignals(p, flags)
    PROVE  IInv'
  <1>1. ASSUME NEW flags \in Flags, HostSignals(p, flags) PROVE IInv'
    <2>1. starting' # {}
      BY <1>1 DEF HostSignals
    <2> QED BY <1>1, <2>1, Pushes DEF HostSignals
  <1>2. CASE HostStartsTimer(p)
    <2>1. UNCHANGED <<mPending, owed>> /\ armed' /\ UNCHANGEDBySignals
      BY <1>2 DEF HostStartsTimer
    <2>2. Typed'
      BY <2>1 DEF IInv, Typed, UNCHANGEDBySignals
    <2>3. OInv'
      BY <2>1, SameQueue DEF IInv, UnchangedPipes, UNCHANGEDBySignals
    <2> QED BY <2>1, <2>2, <2>3, PipeStep DEF UnchangedLoad, UNCHANGEDBySignals
  <1> QED BY <1>1, <1>2

\* A signal in a callback from the device is performed, or queued before the pipes of a
\* snapshot are loaded.
LEMMA GuestSignalInv ==
    ASSUME IInv, NEW p \in Pipes, NEW flags \in Flags, GuestSignals(p, flags)
    PROVE  IInv'
  <1>0. pipe[p].kind = "service" /\ UNCHANGEDBySignals
    BY DEF GuestSignals
  <1>1. CASE Perform({Op(p, flags)}) /\ UNCHANGED <<mPending, armed, starting>>
    <2> DEFINE ops == {Op(p, flags)}
    <2>1. ops \in SUBSET Ops
      BY DEF Op, Ops, Flags, Signal
    <2>2. Perform(ops)
      BY <1>1
    <2> HIDE DEF ops
    <2>3. /\ owed' \in [Pipes -> SUBSET Signal]
          /\ \A q \in Pipes : owed'[q] \subseteq owed[q]
      BY <2>1, <2>2, Performs DEF IInv
    <2>4. UNCHANGED <<services, pipe, vm, closing, snapshot, savedOwed, streams, mPending>>
      BY <1>0, <1>1 DEF UNCHANGEDBySignals
    <2>5. Typed'
      BY <2>3, <2>4 DEF IInv, Typed
    <2>6. OInv'
      BY <2>4, SameQueue DEF IInv, UnchangedPipes
    <2>7. WInv'
      <3>1. ToSet(mPending) \subseteq ToSet(mPending')
        BY <2>4 DEF ToSet
      <3> QED BY <1>1, <2>3, <2>4, <3>1, SameWakes DEF IInv
    <2>8. StreamsStand'
      BY <2>4, SameStreams DEF IInv, UnchangedLoad
    <2> QED BY <2>5, <2>6, <2>7, <2>8 DEF IInv
  <1>2. CASE Push(p, flags) /\ armed' /\ Owes(p, flags)
    BY <1>0, <1>2, Pushes
  <1> QED BY <1>1, <1>2 DEF GuestSignals, QueueLocked

\* The timer performs all that waits: nothing is owed afterwards.
LEMMA TimerInv == ASSUME IInv, TimerEvent PROVE IInv'
  <1> DEFINE ops == ToSet(mPending)
  <1>1. ops \in SUBSET Ops
    BY OpsAre DEF IInv, Typed
  <1>2. Perform(ops) /\ mPending' = <<>>
        /\ UNCHANGED <<services, pipe, vm, closing, snapshot, savedOwed, streams>>
    BY DEF TimerEvent
  <1>3. \A p \in Pipes, flag \in Signal :
            flag \in owed[p] => \E op \in ops : op.pipe = p /\ flag \in op.flags
    BY DEF IInv, WInv, LoadKeepsWakes
  <1> HIDE DEF ops
  <1>4. /\ owed' \in [Pipes -> SUBSET Signal]
        /\ \A p \in Pipes : owed'[p] \subseteq owed[p]
        /\ \A p \in Pipes, op \in ops : op.pipe = p => owed'[p] \cap op.flags = {}
    BY <1>1, <1>2, Performs DEF IInv
  <1>5. \A p \in Pipes : owed'[p] = {}
    BY <1>3, <1>4
  <1>6. <<>> \in Seq(Ops) /\ ToSet(<<>>) = {}
    BY EmptySeq DEF ToSet
  <1>7. Typed'
    BY <1>2, <1>4, <1>6 DEF IInv, Typed
  <1>8. OInv'
    BY <1>2, <1>6 DEF OInv, OnlyLateOutlive, LateWhileClosing
  <1>9. WInv'
    BY <1>2, <1>5 DEF IInv, WInv, LoadKeepsWakes, OwedLive, SavedWaits
  <1>10. StreamsStand'
    BY <1>2, SameStreams DEF IInv, UnchangedLoad
  <1> QED BY <1>7, <1>8, <1>9, <1>10 DEF IInv

----------------------------------------------------------------------------
(* The connection.                                                          *)

\* What waits for a closed pipe is late, whoever opens it next.
LEMMA OpenInv == ASSUME IInv, NEW p \in Pipes, GuestOpen(p) PROVE IInv'
  <1>1. /\ pipe[p] = Closed /\ pipe' = [pipe EXCEPT ![p] = Connector]
        /\ UNCHANGED <<services, vm, snapshot, owed, savedOwed, streams, mPending, closing, armed,
                       starting>>
    BY DEF GuestOpen, UNCHANGEDByGuest
  <1>2. Connector \in Ends /\ Closed.kind = "closed"
    BY PipeAssumption DEF Connector, Closed, Ends
  <1>3. Typed'
    BY <1>1, <1>2 DEF IInv, Typed
  <1>4. OInv'
    <2>1. \A op \in ToSet(mPending) : op.pipe = p => op.late
      BY <1>1, <1>2 DEF IInv, OInv, OnlyLateOutlive
    <2>2. \A q \in Pipes : q # p => pipe'[q] = pipe[q]
      BY <1>1 DEF IInv, Typed
    <2>3. ToSet(mPending) \in SUBSET Ops
      BY OpsAre DEF IInv, Typed
    <2> QED BY <1>1, <2>1, <2>2, <2>3 DEF IInv, OInv, OnlyLateOutlive, LateWhileClosing, Ops
  <1>5. \A q \in Pipes : pipe'[q] = pipe[q] \/ pipe[q].kind # "service"
    BY <1>1, <1>2 DEF IInv, Typed
  <1> QED BY <1>1, <1>3, <1>4, <1>5, PipeStep DEF UnchangedLoad

\* What the connector takes of n bytes fits behind what it has.
LEMMA Takes ==
    ASSUME NEW p \in Pipes, pipe[p].pos \in 0 .. BufferSize, NEW n \in Nat
    PROVE  pipe[p].pos + Accepted(p, n) \in 0 .. BufferSize
  <1> DEFINE room == BufferSize - pipe[p].pos
  <1>1. room \in Nat
    BY PipeAssumption
  <1>2. Accepted(p, n) = Min({n, room})
    BY DEF Accepted
  <1>3. \E x \in {n, room} : \A y \in {n, room} : x <= y
    BY <1>1
  <1> HIDE DEF room
  <1>4. Min({n, room}) \in {n, room} /\ Min({n, room}) <= room
    BY <1>1, <1>3 DEF Min
  <1> QED BY PipeAssumption, <1>1, <1>2, <1>4 DEF room

\* A connector becomes a service, or stays one with more in its buffer.
LEMMA SendInv ==
    ASSUME IInv, NEW p \in Pipes, NEW n \in 1 .. BufferSize, NEW ends \in BOOLEAN,
           NEW name \in Names, GuestSend(p, n, ends, name)
    PROVE  IInv'
  <1> DEFINE taken == Accepted(p, n)
             first == IF pipe[p].name = "none" THEN name ELSE pipe[p].name
  <1>1. /\ pipe[p].kind = "connector"
        /\ UNCHANGED <<services, vm, snapshot, owed, savedOwed, streams, mPending, closing, armed,
                       starting>>
    BY DEF GuestSend, UNCHANGEDByGuest
  <1>2. /\ pipe[p].pos + taken \in 0 .. BufferSize /\ pipe[p] \in Ends
        /\ first \in Names \cup {"none"}
    BY PipeAssumption, Takes DEF IInv, Typed, Ends
  <1>3. \E e \in Ends : pipe' = [pipe EXCEPT ![p] = e]
    <2>1. \/ pipe' = [pipe EXCEPT ![p].pos = @ + taken]
          \/ pipe' = [pipe EXCEPT ![p].pos = @ + taken, ![p].name = first]
          \/ pipe' = [pipe EXCEPT ![p] = [kind |-> "service", pos |-> 0, name |-> first]]
      BY DEF GuestSend
    <2> HIDE DEF taken, first
    <2>2. CASE pipe' = [pipe EXCEPT ![p].pos = @ + taken]
      <3>1. [pipe[p] EXCEPT !.pos = @ + taken] \in Ends
        BY <1>2 DEF Ends
      <3> QED BY <2>2, <3>1
    <2>3. CASE pipe' = [pipe EXCEPT ![p].pos = @ + taken, ![p].name = first]
      <3> DEFINE e == [pipe[p] EXCEPT !.pos = @ + taken, !.name = first]
      <3>1. e \in Ends
        BY <1>2 DEF Ends
      <3>2. pipe' = [pipe EXCEPT ![p] = e]
        BY <1>2, <2>3 DEF IInv, Typed
      <3> QED BY <3>1, <3>2
    <2>4. CASE pipe' = [pipe EXCEPT ![p] = [kind |-> "service", pos |-> 0, name |-> first]]
      <3>1. [kind |-> "service", pos |-> 0, name |-> first] \in Ends
        BY PipeAssumption, <1>2 DEF Ends
      <3> QED BY <2>4, <3>1
    <2> QED BY <2>1, <2>2, <2>3, <2>4
  <1>4. /\ Typed'
        /\ \A q \in Pipes : q # p => pipe'[q] = pipe[q]
    BY <1>1, <1>3 DEF IInv, Typed
  <1>5. OInv'
    <2>1. \A op \in ToSet(mPending) : op.pipe = p => op.late
      BY <1>1 DEF IInv, OInv, OnlyLateOutlive
    <2>2. ToSet(mPending) \in SUBSET Ops
      BY OpsAre DEF IInv, Typed
    <2> QED BY <1>1, <1>4, <2>1, <2>2 DEF IInv, OInv, OnlyLateOutlive, LateWhileClosing, Ops
  <1>6. \A q \in Pipes : pipe'[q] = pipe[q] \/ pipe[q].kind # "service"
    BY <1>1, <1>4
  <1> QED BY <1>1, <1>4, <1>5, <1>6, PipeStep DEF UnchangedLoad

\* A close aborts what waits for the pipe; from here on what is queued for it is late.
LEMMA CloseInv == ASSUME IInv, NEW p \in Pipes, GuestClose(p) PROVE IInv'
  <1>1. /\ mPending' = Without(p) /\ closing' = {p} /\ owed' = [owed EXCEPT ![p] = {}]
        /\ UNCHANGED <<services, pipe, vm, snapshot, savedOwed, streams, armed, starting>>
    BY DEF GuestClose
  <1>2. mPending' \in Seq(Ops) /\ ToSet(mPending') = {op \in ToSet(mPending) : op.pipe # p}
    BY <1>1, WithoutOps DEF IInv, Typed
  <1>3. Typed'
    BY <1>1, <1>2 DEF IInv, Typed
  <1>4. OInv'
    BY <1>1, <1>2 DEF IInv, OInv, OnlyLateOutlive, LateWhileClosing
  <1>5. WInv'
    <2>1. owed'[p] = {} /\ \A q \in Pipes : q # p => owed'[q] = owed[q]
      BY <1>1 DEF IInv, Typed
    <2>2. LoadKeepsWakes'
      BY <1>1, <1>2, <2>1 DEF IInv, WInv, LoadKeepsWakes
    <2>3. OwedLive' /\ SavedWaits'
      BY <1>1, <2>1 DEF IInv, WInv, OwedLive, SavedWaits
    <2> QED BY <2>2, <2>3 DEF WInv
  <1>6. StreamsStand'
    BY <1>1, SameStreams DEF IInv, UnchangedLoad
  <1> QED BY <1>3, <1>4, <1>5, <1>6 DEF IInv

\* Only what was queued while the pipe was being closed is left for it.
LEMMA ClosedInv == ASSUME IInv, NEW p \in Pipes, CloseEnds(p) PROVE IInv'
  <1>1. /\ p \in closing /\ closing' = {} /\ pipe' = [pipe EXCEPT ![p] = Closed]
        /\ UNCHANGED <<services, vm, snapshot, owed, savedOwed, streams, mPending, armed, starting>>
    BY DEF CloseEnds, UNCHANGEDByGuest
  <1>2. Closed \in Ends
    BY PipeAssumption DEF Closed, Ends
  <1>3. Typed' /\ \A q \in Pipes : q # p => pipe'[q] = pipe[q]
    BY <1>1, <1>2 DEF IInv, Typed
  <1>4. OInv'
    <2>1. ToSet(mPending) \in SUBSET Ops
      BY OpsAre DEF IInv, Typed
    <2> QED BY <1>1, <1>3, <2>1 DEF IInv, OInv, OnlyLateOutlive, LateWhileClosing, Ops
  <1>5. \A q \in Pipes : pipe'[q] = pipe[q] \/ q \in closing
    BY <1>1, <1>3
  <1> QED BY <1>1, <1>3, <1>4, <1>5, PipeStep DEF UnchangedLoad

----------------------------------------------------------------------------
(* Snapshots.                                                               *)

\* What a snapshot keeps are the states of the pipes and the signals that wait for them.
LEMMA SaveInv == ASSUME IInv, Save PROVE IInv'
  <1>1. /\ snapshot' = [pipes |-> pipe, services |-> services,
                        flags |-> [p \in Pipes |-> IF pipe[p] = Closed THEN {} ELSE PendingFlags(p)]]
        /\ savedOwed' = owed
        /\ UNCHANGED <<services, pipe, vm, mPending, closing, owed, streams, armed, starting>>
        /\ vm = "idle"
    BY DEF Save, Idle
  <1>2. \A p \in Pipes : PendingFlags(p) \in SUBSET Signal
    BY OpsAre DEF IInv, Typed, PendingFlags, Ops
  <1>3. Typed'
    BY <1>1, <1>2 DEF IInv, Typed
  <1>4. OInv'
    BY <1>1, SameQueue DEF IInv, UnchangedPipes
  <1>5. WInv'
    <2>1. LoadKeepsWakes' /\ OwedLive'
      BY <1>1 DEF IInv, WInv, LoadKeepsWakes, OwedLive, ToSet
    <2>2. ASSUME NEW p \in Pipes, owed[p] # {}
          PROVE  pipe[p].kind = "service" /\ owed[p] \subseteq PendingFlags(p) /\ pipe[p] # Closed
      <3>1. pipe[p].kind = "service" /\ pipe[p] # Closed
        BY <2>2 DEF IInv, WInv, OwedLive, Closed
      <3>2. owed[p] \subseteq PendingFlags(p)
        BY <2>2 DEF IInv, WInv, LoadKeepsWakes, PendingFlags
      <3> QED BY <3>1, <3>2
    <2>3. SavedWaits'
      <3> HIDE DEF PendingFlags
      <3> QED BY <1>1, <2>2 DEF SavedWaits
    <2> QED BY <2>1, <2>3 DEF WInv
  <1>6. StreamsStand'
    BY <1>1 DEF StreamsStand
  <1> QED BY <1>3, <1>4, <1>5, <1>6 DEF IInv

\* Another process has nothing of this one but the snapshot.
LEMMA RestartInv == ASSUME IInv, NewProcess PROVE IInv'
  <1>0. <<>> \in Seq(Ops) /\ ToSet(<<>>) = {} /\ Closed \in Ends
    BY EmptySeq, PipeAssumption DEF ToSet, Closed, Ends
  <1>1. /\ services' \in Orders /\ pipe' = [p \in Pipes |-> Closed] /\ mPending' = <<>>
        /\ vm' = "idle" /\ closing' = {} /\ owed' = [p \in Pipes |-> {}]
        /\ UNCHANGED <<snapshot, savedOwed>>
    BY DEF NewProcess
  <1>2. Typed'
    BY <1>0, <1>1 DEF IInv, Typed
  <1>3. OInv'
    BY <1>0, <1>1 DEF OInv, OnlyLateOutlive, LateWhileClosing
  <1>4. WInv' /\ StreamsStand'
    BY <1>1 DEF IInv, WInv, LoadKeepsWakes, OwedLive, SavedWaits, StreamsStand
  <1> QED BY <1>2, <1>3, <1>4 DEF IInv

\* Before a load nothing waits and nothing is owed.
LEMMA AbortsInv == ASSUME IInv, PreLoadAborts PROVE IInv'
  <1>0. <<>> \in Seq(Ops) /\ ToSet(<<>>) = {}
    BY EmptySeq DEF ToSet
  <1>1. /\ vm' = "aborted" /\ mPending' = <<>> /\ owed' = [p \in Pipes |-> {}]
        /\ UNCHANGED <<services, pipe, closing, snapshot, savedOwed>>
    BY DEF PreLoadAborts
  <1>2. Typed'
    BY <1>0, <1>1 DEF IInv, Typed
  <1>3. OInv'
    BY <1>0, <1>1 DEF OInv, OnlyLateOutlive, LateWhileClosing
  <1>4. WInv' /\ StreamsStand'
    BY <1>1 DEF IInv, WInv, LoadKeepsWakes, OwedLive, SavedWaits, StreamsStand
  <1> QED BY <1>2, <1>3, <1>4 DEF IInv

\* The services are given their streams, before and after the pipes are loaded.
LEMMA ServicesInv == ASSUME IInv, PreLoadDefers \/ PostLoad PROVE IInv'
  <1>1. /\ streams' = Given \/ vm' # "loading"
        /\ UNCHANGED <<services, pipe, mPending, closing, snapshot, savedOwed, owed, armed, starting>>
    BY DEF PreLoadDefers, PostLoad
  <1>2. Typed'
    BY <1>1 DEF IInv, Typed
  <1>3. OInv'
    BY <1>1, SameQueue DEF IInv, UnchangedPipes
  <1>4. WInv'
    BY <1>1 DEF IInv, WInv, LoadKeepsWakes, OwedLive, SavedWaits, ToSet
  <1>5. StreamsStand'
    <2>1. services' = services /\ snapshot' = snapshot
      BY <1>1
    <2>2. Given' = Given
      BY <2>1 DEF Given, Position, PositionFrom
    <2> QED BY <1>1, <2>2 DEF StreamsStand
  <1> QED BY <1>2, <1>3, <1>4, <1>5 DEF IInv

\* A pipe of the snapshot comes back with what waited for it, if its service can load it.
LEMMA LoadInv == ASSUME IInv, NEW p \in Pipes, LoadPipe(p) PROVE IInv'
  <1> DEFINE saved == snapshot.pipes[p]
             op == [pipe |-> p, flags |-> snapshot.flags[p], late |-> saved.kind # "service"]
  <1>1. /\ closing = {} /\ pipe[p] = Closed /\ Closed.kind = "closed"
        /\ UNCHANGED <<services, vm, closing, snapshot, savedOwed, streams, starting>>
    BY DEF LoadPipe, Closed
  <1>2. \/ /\ pipe' = [pipe EXCEPT ![p] = saved] /\ owed' = [owed EXCEPT ![p] = savedOwed[p]]
           /\ \/ snapshot.flags[p] = {} /\ UNCHANGED <<mPending, armed>>
              \/ mPending' = Append(mPending, op) /\ armed'
        \/ UNCHANGED <<pipe, mPending, armed, owed>>
    BY DEF LoadPipe
  <1>3. saved \in Ends /\ op \in Ops /\ op.pipe = p /\ op.flags = snapshot.flags[p]
        /\ op.late = (saved.kind # "service")
    BY DEF IInv, Typed, Ops
  <1>4. ToSet(mPending) \in SUBSET Ops
    BY OpsAre DEF IInv, Typed
  <1>5. \A o \in ToSet(mPending) : o.pipe = p => o.late
    BY <1>1 DEF IInv, OInv, OnlyLateOutlive
  <1>6. StreamsStand'
    BY <1>1, SameStreams DEF IInv, UnchangedLoad
  <1> HIDE DEF saved, op
  <1>7. CASE UNCHANGED <<pipe, mPending, armed, owed>>
    <2>1. Typed'
      BY <1>1, <1>7 DEF IInv, Typed
    <2>2. OInv'
      BY <1>1, <1>7, SameQueue DEF IInv, UnchangedPipes
    <2> QED BY <1>1, <1>7, <2>1, <2>2, PipeStep DEF UnchangedLoad
  <1>8. ASSUME pipe' = [pipe EXCEPT ![p] = saved], owed' = [owed EXCEPT ![p] = savedOwed[p]]
        PROVE  /\ pipe' \in [Pipes -> Ends] /\ owed' \in [Pipes -> SUBSET Signal]
               /\ pipe'[p] = saved /\ owed'[p] = savedOwed[p]
               /\ \A q \in Pipes : q # p => pipe'[q] = pipe[q] /\ owed'[q] = owed[q]
               /\ OwedLive' /\ SavedWaits'
    <2>1. /\ pipe' \in [Pipes -> Ends] /\ owed' \in [Pipes -> SUBSET Signal]
          /\ pipe'[p] = saved /\ owed'[p] = savedOwed[p]
          /\ \A q \in Pipes : q # p => pipe'[q] = pipe[q] /\ owed'[q] = owed[q]
      BY <1>3, <1>8 DEF IInv, Typed
    <2>2. savedOwed[p] # {} => saved.kind = "service"
      BY DEF IInv, WInv, SavedWaits, saved
    <2>3. OwedLive'
      BY <1>1, <2>1, <2>2 DEF IInv, WInv, OwedLive
    <2>4. SavedWaits'
      BY <1>1 DEF IInv, WInv, SavedWaits
    <2> QED BY <2>1, <2>3, <2>4
  <1>9. CASE /\ pipe' = [pipe EXCEPT ![p] = saved] /\ owed' = [owed EXCEPT ![p] = savedOwed[p]]
             /\ snapshot.flags[p] = {} /\ UNCHANGED <<mPending, armed>>
    <2>1. Typed'
      BY <1>1, <1>8, <1>9 DEF IInv, Typed
    <2>2. OInv'
      BY <1>1, <1>4, <1>5, <1>8, <1>9 DEF IInv, OInv, OnlyLateOutlive, LateWhileClosing, Ops
    <2>3. owed'[p] = {}
      BY <1>8, <1>9 DEF IInv, WInv, SavedWaits
    <2>4. LoadKeepsWakes'
      BY <1>1, <1>8, <1>9, <2>3 DEF IInv, WInv, LoadKeepsWakes
    <2> QED BY <1>6, <1>8, <1>9, <2>1, <2>2, <2>4 DEF IInv, WInv
  <1>10. CASE /\ pipe' = [pipe EXCEPT ![p] = saved] /\ owed' = [owed EXCEPT ![p] = savedOwed[p]]
              /\ mPending' = Append(mPending, op) /\ armed'
    <2>1. mPending' \in Seq(Ops) /\ ToSet(mPending') = ToSet(mPending) \cup {op}
      BY <1>3, <1>10, AppendOps DEF IInv, Typed
    <2>2. Typed'
      BY <1>1, <1>8, <1>10, <2>1 DEF IInv, Typed
    <2>3. OInv'
      BY <1>1, <1>3, <1>4, <1>5, <1>8, <1>10, <2>1
      DEF IInv, OInv, OnlyLateOutlive, LateWhileClosing, Ops
    <2>4. owed'[p] # {} => owed'[p] \subseteq op.flags
      BY <1>3, <1>8, <1>10 DEF IInv, WInv, SavedWaits
    <2>5. LoadKeepsWakes'
      BY <1>3, <1>8, <1>10, <2>1, <2>4 DEF IInv, WInv, LoadKeepsWakes
    <2> QED BY <1>6, <1>8, <1>10, <2>2, <2>3, <2>5 DEF IInv, WInv
  <1> QED BY <1>2, <1>7, <1>9, <1>10

----------------------------------------------------------------------------
(* The theorems.                                                            *)

\* The invariant is inductive.
THEOREM Inductive == Spec => []IInv
  <1>1. ASSUME IInv, [Next]_vars PROVE IInv'
    <2>1. ASSUME NEW p \in Pipes,
                 \/ GuestOpen(p) \/ GuestClose(p) \/ CloseEnds(p) \/ LoadPipe(p) \/ HostStartsTimer(p)
                 \/ \E flags \in Flags : HostSignals(p, flags) \/ GuestSignals(p, flags)
                 \/ \E n \in 1 .. BufferSize, ends \in BOOLEAN, name \in Names :
                        GuestSend(p, n, ends, name)
          PROVE  IInv'
      BY <1>1, <2>1, OpenInv, CloseInv, ClosedInv, LoadInv, HostInv, GuestSignalInv, SendInv
    <2>2. CASE TimerEvent \/ Save \/ Restart \/ PreLoadAborts \/ AssertFails \/ PreLoadDefers \/ PostLoad
      BY <1>1, <2>2, TimerInv, SaveInv, RestartInv, AbortsInv, ServicesInv DEF Restart, AssertFails
    <2>3. CASE UNCHANGED vars
      <3>1. Typed'
        BY <1>1, <2>3 DEF IInv, Typed, vars
      <3>2. OInv'
        BY <1>1, <2>3, SameQueue DEF IInv, UnchangedPipes, vars
      <3> QED BY <1>1, <2>3, <3>1, <3>2, PipeStep DEF UnchangedLoad, vars
    <2> QED BY <1>1, <2>1, <2>2, <2>3 DEF Next
  <1> QED BY InitInv, <1>1, PTL DEF Spec

\* The connector's buffer never overflows (AndroidPipe.cpp:162), no service is registered
\* twice, and what waits, is told or is owed are signals of pipes.
THEOREM TypeCorrect == Spec => []Typed
  <1>1. IInv => Typed
    BY DEF IInv
  <1> QED BY <1>1, Inductive, PTL

\* What waits for a pipe without a service was queued while that pipe was being closed: the
\* abort of android_pipe_guest_close misses nothing else (AndroidPipe.cpp:607).
THEOREM AbortComplete == Spec => []OnlyLateOutlive
  <1>1. IInv => OnlyLateOutlive
    BY DEF IInv, OInv
  <1> QED BY <1>1, Inductive, PTL

\* What a service asked the device to be told waits until it is told or the pipe is closed, with
\* the timer on its way, and a pipe that is loaded waits for all that it was waiting for when
\* the snapshot was saved: saveToStream loses no flag of it (AndroidPipe.cpp:557).
THEOREM WakesKept == Spec => []LoadKeepsWakes
  <1>1. IInv => LoadKeepsWakes
    BY DEF IInv, WInv
  <1> QED BY <1>1, Inductive, PTL

\* Each service loads what it saved, whatever other services there are and in which order
\* they registered in the two processes (AndroidPipe.cpp:659).
THEOREM StreamsMatched == Spec => []ServicesMatched
  <1>1. IInv => ServicesMatched
    BY GivenMatches DEF IInv, Typed, StreamsStand, ServicesMatched
  <1> QED BY <1>1, Inductive, PTL
=============================================================================
