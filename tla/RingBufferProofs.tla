-------------------------- MODULE RingBufferProofs --------------------------
(* The ring for every size, word, step and mix of calls: its types, the       *)
(* separation of the two sides' slots, the promises of its waits, the freedom *)
(* of full transfers from deadlock, and the bytes that arrive; at the end the *)
(* hang-up protocol of the two threads that use it, RingBufferSync.           *)
EXTENDS RingBuffer, RingBufferSync, SequenceTheorems, TLAPS

-----------------------------------------------------------------------------
(* Arithmetic.                                                                *)

\* Positions are words.
LEMMA WordArithmetic ==
    ASSUME NEW a \in Position, NEW b \in Position
    PROVE  Plus(a, b) \in Position /\ Minus(a, b) \in Position
BY SizeAssumption DEF Plus, Minus, Position

\* A masked position is a slot of the buffer.
LEMMA SlotExists == ASSUME NEW p \in Int PROVE get_ring_pos(p) \in 0..Size - 1
BY SizeAssumption DEF get_ring_pos

\* Masking undoes whole laps.
LEMMA LapsVanish ==
    ASSUME NEW k \in Nat, NEW i \in 0..Size - 1
    PROVE  get_ring_pos(k * Size + i) = i
BY SizeAssumption DEF get_ring_pos

\* While the positions are less than a buffer apart, masking loses nothing: the
\* two views of the ring add up to all slots but one.
LEMMA Available ==
    ASSUME write_pos \in Position, read_pos \in Position, Unread < Size
    PROVE  /\ Unread \in Nat
           /\ available_read = Unread
           /\ available_write = Size - 1 - Unread
<1>1. Unread \in 0..Size - 1
  BY SizeAssumption DEF Unread, Minus, Position
<1>2. available_read = Unread
  BY <1>1, SizeAssumption DEF available_read, get_ring_pos, Unread
<1>3. PICK k \in 1..Word : Word = k * Size
  BY WordAssumption
<1>4. Minus(Minus(read_pos, write_pos), 1) = Word - 1 - Unread
  BY SizeAssumption DEF Unread, Minus, Position
<1>5. Word - 1 - Unread = (k - 1) * Size + (Size - 1 - Unread)
  BY <1>1, <1>3, SizeAssumption
<1>6. k - 1 \in Nat /\ Size - 1 - Unread \in 0..Size - 1
  BY <1>1, SizeAssumption
<1>7. get_ring_pos((k - 1) * Size + (Size - 1 - Unread)) = Size - 1 - Unread
  BY <1>6, LapsVanish
<1> QED
  BY <1>1, <1>2, <1>4, <1>5, <1>7 DEF available_write

\* Advancing a position within the distance that is left.
LEMMA Advance ==
    ASSUME write_pos \in Position, read_pos \in Position, NEW s \in Nat
    PROVE  /\ Unread + s < Size => /\ Plus(write_pos, s) \in Position
                                   /\ Minus(Plus(write_pos, s), read_pos) = Unread + s
           /\ s <= Unread => /\ Plus(read_pos, s) \in Position
                             /\ Minus(write_pos, Plus(read_pos, s)) = Unread - s
BY SizeAssumption DEF Plus, Minus, Position, Unread

-----------------------------------------------------------------------------
(* One side of the ring.                                                      *)

\* Between steps nothing is copied, at work no promise is outstanding, and a
\* full transfer goes by at most half the ring.
Discipline(side) ==
    /\ side.pc \in {"idle", "wait", "check"} => side.n = 0
    /\ side.pc \in {"copy", "publish"} => side.sure = 0
    /\ side.op = "fully" => side.step <= Size \div 2

Sound(side, calls) == side \in Side(calls) /\ side.n <= side.step /\ Discipline(side)

\* A call that returns keeps its side's discipline.
LEMMA ReturnedSound ==
    ASSUME NEW calls, NEW promise \in Nat
    PROVE  /\ Sound(Returned(promise), calls)
           /\ Returned(promise).pc = "idle" /\ Returned(promise).sure = promise
BY DEF Sound, Returned, Idle, Side, Discipline

\* A step of a full transfer is at most half the ring.
LEMMA StepSizeIsHalf ==
    ASSUME NEW s \in Nat PROVE get_step_size(s) \in Nat /\ get_step_size(s) <= Size \div 2
BY SizeAssumption DEF get_step_size, Least

\* A call begins with its side's discipline.
LEMMA CalledSound ==
    ASSUME NEW calls, NEW side, Sound(side, calls), side.pc = "idle",
           NEW o \in calls, NEW s \in StepSizes, NEW k \in Steps
    PROVE  /\ Sound(Called(side, o, s, k), calls)
           /\ Called(side, o, s, k).pc \in {"wait", "check"}
           /\ Called(side, o, s, k).sure = side.sure
<1>1. s \in Nat /\ k \in Nat
  BY StepAssumption
<1>2. get_step_size(s) \in Nat /\ get_step_size(s) <= Size \div 2
  BY <1>1, StepSizeIsHalf
<1>3. side \in Side(calls) /\ side.n = 0
  BY DEF Sound, Discipline
<1> HIDE DEF get_step_size
<1> DEFINE new == Called(side, o, s, k)
<1> SUFFICES Sound(new, calls) /\ new.pc \in {"wait", "check"} /\ new.sure = side.sure
  OBVIOUS
<1>4. CASE o = "wait"
  <2>1. new = [side EXCEPT !.pc = "wait", !.op = o, !.step = s]
    BY <1>4 DEF Called
  <2> HIDE DEF new
  <2>2. new \in Side(calls)
    BY <1>1, <1>3, <2>1 DEF Side
  <2>3. new.pc = "wait" /\ new.op = o /\ new.n = 0 /\ new.sure = side.sure /\ new.step = s
    BY <1>3, <2>1 DEF Side
  <2> QED
    BY <1>1, <1>4, <2>2, <2>3 DEF Sound, Discipline
<1>5. CASE o = "fully"
  <2>1. new = [side EXCEPT !.pc = "wait", !.op = o, !.step = get_step_size(s), !.left = s]
    BY <1>5 DEF Called
  <2> HIDE DEF new
  <2>2. new \in Side(calls)
    BY <1>1, <1>2, <1>3, <2>1 DEF Side
  <2>3. new.pc = "wait" /\ new.op = o /\ new.n = 0 /\ new.sure = side.sure /\ new.step = get_step_size(s)
    BY <1>3, <2>1 DEF Side
  <2> QED
    BY <1>1, <1>2, <1>5, <2>2, <2>3 DEF Sound, Discipline
<1>6. CASE o = "peek"
  <2>1. new = [side EXCEPT !.pc = "check", !.op = o, !.step = s]
    BY <1>6 DEF Called
  <2> HIDE DEF new
  <2>2. new \in Side(calls)
    BY <1>1, <1>3, <2>1 DEF Side
  <2>3. new.pc = "check" /\ new.op = o /\ new.n = 0 /\ new.sure = side.sure /\ new.step = s
    BY <1>3, <2>1 DEF Side
  <2> QED
    BY <1>1, <1>6, <2>2, <2>3 DEF Sound, Discipline
<1>7. CASE o \notin {"wait", "fully", "peek"}
  <2>1. new = [side EXCEPT !.pc = "check", !.op = o, !.step = s, !.left = k]
    BY <1>7 DEF Called
  <2> HIDE DEF new
  <2>2. new \in Side(calls)
    BY <1>1, <1>3, <2>1 DEF Side
  <2>3. new.pc = "check" /\ new.op = o /\ new.n = 0 /\ new.sure = side.sure /\ new.step = s
    BY <1>3, <2>1 DEF Side
  <2> QED
    BY <1>1, <1>7, <2>2, <2>3 DEF Sound, Discipline
<1> QED
  BY <1>4, <1>5, <1>6, <1>7

\* A wait that ends keeps its side's discipline.
LEMMA WaitedSound ==
    ASSUME NEW calls, NEW side, Sound(side, calls), NEW avail \in Nat, NEW next,
           Waited(side, avail, next)
    PROVE  /\ Sound(next, calls)
           /\ next.pc \in {"idle", "check"}
           /\ next.sure <= avail \/ next.sure = side.sure
<1>1. side \in Side(calls) /\ side.n = 0 /\ side.step \in Nat
  BY DEF Sound, Discipline, Waited, Side
<1>2. CASE next = Returned(side.step) /\ avail >= side.step
  BY <1>1, <1>2, ReturnedSound
<1>3. CASE next = Returned(0)
  BY <1>3, ReturnedSound
<1>4. CASE next = [side EXCEPT !.pc = "check"]
  <2>1. next \in Side(calls)
    BY <1>1, <1>4 DEF Side
  <2>2. /\ next.pc = "check" /\ next.n = 0 /\ next.step = side.step
        /\ next.op = side.op /\ next.sure = side.sure
    BY <1>1, <1>4 DEF Side
  <2> QED
    BY <1>1, <2>1, <2>2 DEF Sound, Discipline
<1> QED
  BY <1>2, <1>3, <1>4 DEF Waited

\* A check that ends keeps its side's discipline.
LEMMA CheckedSound ==
    ASSUME NEW calls, NEW side, Sound(side, calls), NEW avail \in Nat, NEW next,
           Checked(side, avail, next)
    PROVE  /\ Sound(next, calls)
           /\ next.sure = 0
           /\ next.pc \in {"copy", "publish"} => next.step <= avail
<1>1. side \in Side(calls) /\ side.n = 0 /\ side.step \in Nat
  BY DEF Sound, Discipline, Checked, Side
<1>2. CASE avail < side.step
  BY <1>2, ReturnedSound DEF Checked
<1>3. CASE ~(avail < side.step)
  <2>1. PICK at \in {"copy", "publish"} : next = [side EXCEPT !.sure = 0, !.pc = at]
    BY <1>3 DEF Checked
  <2>2. next \in Side(calls)
    BY <1>1, <2>1 DEF Side
  <2>3. /\ next.pc = at /\ next.sure = 0 /\ next.n = side.n
        /\ next.step = side.step /\ next.op = side.op
    BY <1>1, <2>1 DEF Side
  <2> QED
    BY <1>1, <1>3, <2>2, <2>3 DEF Sound, Discipline
<1> QED
  BY <1>2, <1>3

\* The end of a step keeps its side's discipline.
LEMMA SteppedSound ==
    ASSUME NEW calls, NEW side, Sound(side, calls), side.pc = "publish", NEW next,
           Stepped(side, next)
    PROVE  /\ Sound(next, calls)
           /\ next.sure = 0
           /\ next.pc \in {"idle", "wait", "check"}
<1> DEFINE rest == side.left - (IF side.op = "fully" THEN side.step ELSE 1)
<1>1. side \in Side(calls) /\ side.sure = 0 /\ rest \in Int
  BY DEF Sound, Discipline, Side
<1>2. CASE next = Returned(0)
  BY <1>2, ReturnedSound
<1>3. CASE rest > 0 /\ next # Returned(0)
  <2>1. rest \in Nat
    BY <1>1, <1>3
  <2>2. CASE side.op = "fully"
    <3>1. Least(side.step, rest) \in Nat /\ Least(side.step, rest) <= side.step
      BY <1>1, <2>1 DEF Least, Side
    <3>2. next = [side EXCEPT !.left = rest, !.n = 0, !.pc = "wait", !.step = Least(side.step, rest)]
      BY <1>3, <2>2 DEF Stepped
    <3>3. side.step <= Size \div 2
      BY <2>2 DEF Sound, Discipline
    <3> HIDE DEF rest
    <3>4. next \in Side(calls)
      BY <1>1, <2>1, <3>1, <3>2 DEF Side
    <3>5. /\ next.pc = "wait" /\ next.sure = 0 /\ next.n = 0
          /\ next.step = Least(side.step, rest)
      BY <1>1, <3>2 DEF Side
    <3>6. Size \div 2 \in Int /\ side.step \in Nat
      BY <1>1, SizeAssumption DEF Side
    <3> QED
      BY <3>1, <3>3, <3>4, <3>5, <3>6 DEF Sound, Discipline
  <2>3. CASE side.op # "fully"
    <3>1. next = [side EXCEPT !.left = rest, !.n = 0, !.pc = "check", !.step = side.step]
      BY <1>3, <2>3 DEF Stepped
    <3> HIDE DEF rest
    <3>2. next \in Side(calls)
      BY <1>1, <2>1, <3>1 DEF Side
    <3>3. /\ next.pc = "check" /\ next.sure = 0 /\ next.n = 0
          /\ next.step = side.step /\ next.op = side.op /\ side.step \in Nat
      BY <1>1, <3>1 DEF Side
    <3> QED
      BY <2>3, <3>2, <3>3 DEF Sound, Discipline
  <2> QED
    BY <2>2, <2>3
<1> QED
  BY <1>2, <1>3 DEF Stepped

-----------------------------------------------------------------------------
(* The inductive invariant: TypeOK and SlotsApart, with the discipline of each *)
(* side, and promises measured on the distance of the positions.              *)

Promises == writer.sure <= Size - 1 - Unread /\ reader.sure <= Unread

IInv ==
    /\ TypeOK /\ SlotsApart /\ Promises
    /\ Discipline(writer) /\ Discipline(reader)

\* What a state of the invariant says of room and data.
LEMMA InvariantViews ==
    ASSUME IInv
    PROVE  /\ Unread \in 0..Size - 1
           /\ available_read = Unread
           /\ available_write = Size - 1 - Unread
           /\ Sound(writer, ProducerCalls) /\ Sound(reader, ConsumerCalls)
           /\ writer.step \in Nat /\ writer.n \in Nat /\ writer.sure \in Nat
           /\ reader.step \in Nat /\ reader.n \in Nat /\ reader.sure \in Nat
<1>1. write_pos \in Position /\ read_pos \in Position /\ Unread < Size
  BY DEF IInv, TypeOK, SlotsApart
<1>2. Unread \in Nat /\ available_read = Unread /\ available_write = Size - 1 - Unread
  BY <1>1, Available
<1>3. Sound(writer, ProducerCalls) /\ Sound(reader, ConsumerCalls)
  BY DEF IInv, TypeOK, Sound
<1> HIDE DEF Unread, available_read, available_write
<1> QED
  BY <1>1, <1>2, <1>3, SizeAssumption DEF Sound, Side

\* A step in which one side changes only where it is.
LEMMA WriterMoves ==
    ASSUME IInv, UNCHANGED <<write_pos, read_pos, sent, reader, copied>>,
           buf' \in [0..Size - 1 -> Byte],
           Sound(writer', ProducerCalls),
           writer'.sure <= Size - 1 - Unread,
           writer'.pc \in {"copy", "publish"} => Unread + writer'.step < Size
    PROVE  IInv'
<1>1. Unread' = Unread
  BY DEF Unread
<1> HIDE DEF Unread
<1>2. TypeOK'
  BY DEF IInv, TypeOK, Sound
<1>3. SlotsApart'
  BY <1>1 DEF IInv, SlotsApart
<1>4. Promises'
  BY <1>1 DEF IInv, Promises
<1>5. Discipline(writer)' /\ Discipline(reader)'
  BY DEF IInv, Sound, Discipline
<1> QED
  BY <1>2, <1>3, <1>4, <1>5 DEF IInv

\* A consumer's step that moves no position keeps the invariant, if its promise is covered.
LEMMA ReaderMoves ==
    ASSUME IInv, UNCHANGED <<write_pos, read_pos, buf, sent, writer>>,
           copied' \in Seq(Byte),
           Sound(reader', ConsumerCalls),
           reader'.sure <= Unread,
           reader'.pc \in {"copy", "publish"} => reader'.step <= Unread
    PROVE  IInv'
<1>1. Unread' = Unread
  BY DEF Unread
<1> HIDE DEF Unread
<1>2. TypeOK'
  BY DEF IInv, TypeOK, Sound
<1>3. SlotsApart'
  BY <1>1 DEF IInv, SlotsApart
<1>4. Promises'
  BY <1>1 DEF IInv, Promises
<1>5. Discipline(writer)' /\ Discipline(reader)'
  BY DEF IInv, Sound, Discipline
<1> QED
  BY <1>2, <1>3, <1>4, <1>5 DEF IInv

\* The inductive invariant holds at the start.
LEMMA InitInvariant == Init => IInv
<1> SUFFICES ASSUME Init PROVE IInv
  OBVIOUS
<1>1. writer = Returned(0) /\ reader = Returned(0) /\ writer.pc = "idle" /\ reader.pc = "idle"
      /\ writer.sure = 0 /\ reader.sure = 0
  BY DEF Init, Returned, Idle
<1>2. Sound(writer, ProducerCalls) /\ Sound(reader, ConsumerCalls)
  BY <1>1, ReturnedSound
<1>3. TypeOK
  BY <1>2, SizeAssumption DEF Init, TypeOK, Sound, Position, Byte, Stale
<1>4. Unread = 0
  BY SizeAssumption DEF Init, Unread, Minus
<1>5. SlotsApart /\ Promises
  BY <1>1, <1>4, SizeAssumption DEF SlotsApart, Promises
<1> QED
  BY <1>2, <1>3, <1>5 DEF IInv, Sound

-----------------------------------------------------------------------------
(* The steps of the producer.                                                 *)

\* Copying bytes in keeps it.
LEMMA CopyInStep == ASSUME IInv, CopyIn PROVE IInv'
<1> DEFINE part == Part(writer, write_pos)
           at == get_ring_pos(Plus(write_pos, writer.n))
           done == writer.n + part
<1>1. /\ writer.pc = "copy" /\ writer \in Side(ProducerCalls)
      /\ writer.n \in Nat /\ writer.step \in Nat /\ writer.n <= writer.step
      /\ writer.sure = 0 /\ Unread + writer.step < Size
      /\ writer.op = "fully" => writer.step <= Size \div 2
  BY InvariantViews DEF CopyIn, Sound, Side, Discipline, IInv, SlotsApart
<1>2. Plus(write_pos, writer.n) \in Int
  BY <1>1, SizeAssumption DEF IInv, TypeOK, Plus, Position
<1>3. at \in 0..Size - 1
  BY <1>2, SlotExists
<1>4. part \in Nat /\ done \in Nat /\ done <= writer.step
  BY <1>1, <1>3, SizeAssumption DEF Part, Least
<1>5. buf' \in [0..Size - 1 -> Byte]
  <2>1. \A j \in Int : (0 <= j /\ j < Size) => Plus(sent, j) \in Position
    BY SizeAssumption DEF IInv, TypeOK, Plus, Position
  <2>2. \A i \in 0..Size - 1 : i \in at..at + part - 1 => Plus(sent, writer.n + i - at) \in Byte
    <3>1. SUFFICES ASSUME NEW i \in 0..Size - 1, i \in at..at + part - 1
                   PROVE  Plus(sent, writer.n + i - at) \in Byte
      OBVIOUS
    <3> HIDE DEF part, at
    <3>2. writer.n + i - at \in Int /\ 0 <= writer.n + i - at /\ writer.n + i - at < Size
      <4>1. Unread \in Nat
        BY InvariantViews
      <4>2. writer.step < Size
        BY <1>1, <4>1, SizeAssumption
      <4> QED
        BY <1>1, <1>3, <1>4, <3>1, <4>2, SizeAssumption
    <3> QED
      BY <2>1, <3>2 DEF Byte
  <2>3. buf \in [0..Size - 1 -> Byte]
    BY DEF IInv, TypeOK
  <2>4. buf' = [i \in DOMAIN buf |->
                  IF i \in at..at + part - 1 THEN Plus(sent, writer.n + i - at) ELSE buf[i]]
    BY DEF CopyIn
  <2> HIDE DEF part, at
  <2> QED
    BY <2>2, <2>3, <2>4
<1>6. PICK next \in {"copy", "publish"} : writer' = [writer EXCEPT !.n = done, !.pc = next]
  BY DEF CopyIn
<1> HIDE DEF part, at, done
<1>7. writer' \in Side(ProducerCalls)
  BY <1>1, <1>4, <1>6 DEF Side
<1>8. /\ writer'.n = done /\ writer'.pc = next /\ writer'.step = writer.step
      /\ writer'.sure = 0 /\ writer'.op = writer.op
  BY <1>1, <1>6 DEF Side
<1>9. Sound(writer', ProducerCalls)
  BY <1>1, <1>4, <1>7, <1>8 DEF Sound, Discipline
<1>10. writer'.sure <= Size - 1 - Unread
  BY <1>8, InvariantViews, SizeAssumption
<1> QED
  BY <1>1, <1>5, <1>8, <1>9, <1>10, WriterMoves DEF CopyIn

\* Publishing the write position keeps it.
LEMMA PublishWriteStep == ASSUME IInv, PublishWrite PROVE IInv'
<1>1. /\ writer.pc = "publish" /\ writer.step \in Nat /\ Unread + writer.step < Size
      /\ Unread \in Nat /\ reader.step \in Nat /\ reader.sure \in Nat
  BY InvariantViews DEF PublishWrite, IInv, SlotsApart
<1>2. Sound(writer', ProducerCalls) /\ writer'.sure = 0 /\ writer'.pc \in {"idle", "wait", "check"}
  BY <1>1, InvariantViews, SteppedSound DEF PublishWrite
<1>3. /\ write_pos' \in Position /\ read_pos' = read_pos
      /\ Unread' = Unread + writer.step
  BY <1>1, Advance DEF PublishWrite, IInv, TypeOK, Unread
<1>4. sent' \in Position
  <2>1. writer.step \in Position /\ sent \in Position
    BY <1>1, SizeAssumption DEF IInv, TypeOK, Position
  <2> QED
    BY <2>1, WordArithmetic DEF PublishWrite
<1>5. UNCHANGED <<buf, reader, copied>>
  BY DEF PublishWrite
<1>6. TypeOK'
  BY <1>2, <1>3, <1>4, <1>5 DEF IInv, TypeOK, Sound
<1> HIDE DEF Unread
<1>7. SlotsApart'
  BY <1>1, <1>2, <1>3, <1>5, SizeAssumption DEF IInv, SlotsApart
<1>8. Promises'
  BY <1>1, <1>2, <1>3, <1>5, SizeAssumption DEF IInv, Promises
<1>9. Discipline(writer)' /\ Discipline(reader)'
  BY <1>2, <1>5 DEF IInv, Sound, Discipline
<1> QED
  BY <1>6, <1>7, <1>8, <1>9 DEF IInv

\* Every step of the producer keeps it.
LEMMA ProducerStep == ASSUME IInv, WriteCall \/ Producer PROVE IInv'
<1> USE InvariantViews
<1>1. CASE WriteCall
  <2>1. PICK o \in ProducerCalls, s \in StepSizes, k \in Steps : writer' = Called(writer, o, s, k)
    BY <1>1 DEF WriteCall
  <2>2. /\ Sound(writer', ProducerCalls) /\ writer'.sure = writer.sure
        /\ writer'.pc \in {"wait", "check"}
    BY <1>1, <2>1, CalledSound DEF WriteCall
  <2> QED
    BY <1>1, <2>2, WriterMoves DEF WriteCall, IInv, TypeOK, Promises
<1>2. CASE WaitWrite
  <2>1. Size - 1 - Unread \in Nat
    BY SizeAssumption
  <2>2. /\ Sound(writer', ProducerCalls) /\ writer'.pc \in {"idle", "check"}
        /\ writer'.sure <= available_write \/ writer'.sure = writer.sure
    BY <1>2, <2>1, WaitedSound DEF WaitWrite
  <2> QED
    BY <1>2, <2>2, WriterMoves DEF WaitWrite, IInv, TypeOK, Promises
<1>3. CASE CheckWrite
  <2>1. Size - 1 - Unread \in Nat
    BY SizeAssumption
  <2>2. /\ Sound(writer', ProducerCalls) /\ writer'.sure = 0 /\ writer'.step \in Nat
        /\ writer'.pc \in {"copy", "publish"} => writer'.step <= Size - 1 - Unread
    BY <1>3, <2>1, CheckedSound DEF CheckWrite, Sound, Side
  <2>3. /\ writer'.sure <= Size - 1 - Unread
        /\ writer'.pc \in {"copy", "publish"} => Unread + writer'.step < Size
    BY <2>1, <2>2, SizeAssumption
  <2> QED
    BY <1>3, <2>2, <2>3, WriterMoves DEF CheckWrite, IInv, TypeOK
<1> QED
  BY <1>1, <1>2, <1>3, CopyInStep, PublishWriteStep DEF Producer

-----------------------------------------------------------------------------
(* The steps of the consumer.                                                 *)

\* Copying bytes out keeps it.
LEMMA CopyOutStep == ASSUME IInv, CopyOut PROVE IInv'
<1> DEFINE part == Part(reader, read_pos)
           at == get_ring_pos(Plus(read_pos, reader.n))
           done == reader.n + part
<1>1. /\ reader.pc = "copy" /\ reader \in Side(ConsumerCalls)
      /\ reader.n \in Nat /\ reader.step \in Nat /\ reader.n <= reader.step
      /\ reader.sure = 0 /\ reader.step <= Unread
      /\ reader.op = "fully" => reader.step <= Size \div 2
  BY InvariantViews DEF CopyOut, Sound, Side, Discipline, IInv, SlotsApart
<1>2. Plus(read_pos, reader.n) \in Int
  BY <1>1, SizeAssumption DEF IInv, TypeOK, Plus, Position
<1>3. at \in 0..Size - 1
  BY <1>2, SlotExists
<1>4. part \in Nat /\ done \in Nat /\ done <= reader.step /\ at + part <= Size
  BY <1>1, <1>3, SizeAssumption DEF Part, Least
<1>5. copied' \in Seq(Byte)
  <2>1. buf \in [0..Size - 1 -> Byte] /\ copied \in Seq(Byte)
    BY DEF IInv, TypeOK
  <2>2. copied' = copied \o [i \in 1..part |-> buf[at + i - 1]]
    BY DEF CopyOut
  <2> HIDE DEF part, at
  <2>3. \A i \in 1..part : at + i - 1 \in 0..Size - 1
    BY <1>3, <1>4, SizeAssumption
  <2>4. [i \in 1..part |-> buf[at + i - 1]] \in Seq(Byte)
    BY <1>4, <2>1, <2>3
  <2> QED
    BY <2>1, <2>2, <2>4
<1>6. PICK next \in {"copy", "publish"} : reader' = [reader EXCEPT !.n = done, !.pc = next]
  BY DEF CopyOut
<1> HIDE DEF part, at, done
<1>7. reader' \in Side(ConsumerCalls)
  BY <1>1, <1>4, <1>6 DEF Side
<1>8. /\ reader'.n = done /\ reader'.pc = next /\ reader'.step = reader.step
      /\ reader'.sure = 0 /\ reader'.op = reader.op
  BY <1>1, <1>6 DEF Side
<1>9. Sound(reader', ConsumerCalls)
  BY <1>1, <1>4, <1>7, <1>8 DEF Sound, Discipline
<1>10. reader'.sure <= Unread
  BY <1>8, InvariantViews
<1> QED
  BY <1>1, <1>5, <1>8, <1>9, <1>10, ReaderMoves DEF CopyOut

\* Publishing the read position keeps it.
LEMMA PublishReadStep == ASSUME IInv, PublishRead PROVE IInv'
<1>1. /\ reader.pc = "publish" /\ reader.step \in Nat /\ reader.step <= Unread
      /\ Unread \in Nat /\ Unread < Size /\ writer.step \in Nat /\ writer.sure \in Nat
  BY InvariantViews DEF PublishRead, IInv, SlotsApart
<1>2. Sound(reader', ConsumerCalls) /\ reader'.sure = 0 /\ reader'.pc \in {"idle", "wait", "check"}
  BY <1>1, InvariantViews, SteppedSound DEF PublishRead
<1>3. /\ read_pos' \in Position /\ write_pos' = write_pos
      /\ Unread' = Unread - reader.step
  BY <1>1, Advance DEF PublishRead, IInv, TypeOK, Unread
<1>4. buf' \in [0..Size - 1 -> Byte] /\ copied' \in Seq(Byte)
  BY DEF PublishRead, IInv, TypeOK, Byte
<1>5. UNCHANGED <<sent, writer>>
  BY DEF PublishRead
<1>6. TypeOK'
  BY <1>2, <1>3, <1>4, <1>5 DEF IInv, TypeOK, Sound
<1> HIDE DEF Unread
<1>7. SlotsApart'
  BY <1>1, <1>2, <1>3, <1>5, SizeAssumption DEF IInv, SlotsApart
<1>8. Promises'
  BY <1>1, <1>2, <1>3, <1>5, SizeAssumption DEF IInv, Promises
<1>9. Discipline(writer)' /\ Discipline(reader)'
  BY <1>2, <1>5 DEF IInv, Sound, Discipline
<1> QED
  BY <1>6, <1>7, <1>8, <1>9 DEF IInv

\* Every step of the consumer keeps it.
LEMMA ConsumerStep == ASSUME IInv, ReadCall \/ Consumer PROVE IInv'
<1> USE InvariantViews
<1>1. CASE ReadCall
  <2>1. PICK o \in ConsumerCalls, s \in StepSizes, k \in Steps : reader' = Called(reader, o, s, k)
    BY <1>1 DEF ReadCall
  <2>2. /\ Sound(reader', ConsumerCalls) /\ reader'.sure = reader.sure
        /\ reader'.pc \in {"wait", "check"}
    BY <1>1, <2>1, CalledSound DEF ReadCall
  <2> QED
    BY <1>1, <2>2, ReaderMoves DEF ReadCall, IInv, TypeOK, Promises
<1>2. CASE WaitRead
  <2>1. /\ Sound(reader', ConsumerCalls) /\ reader'.pc \in {"idle", "check"}
        /\ reader'.sure <= available_read \/ reader'.sure = reader.sure
    BY <1>2, WaitedSound DEF WaitRead
  <2> QED
    BY <1>2, <2>1, ReaderMoves DEF WaitRead, IInv, TypeOK, Promises
<1>3. CASE CheckRead
  <2>1. /\ Sound(reader', ConsumerCalls) /\ reader'.sure = 0
        /\ reader'.pc \in {"copy", "publish"} => reader'.step <= Unread
    BY <1>3, CheckedSound DEF CheckRead
  <2> QED
    BY <1>3, <2>1, ReaderMoves DEF CheckRead, IInv, TypeOK
<1>4. CASE Peek
  <2>1. Sound(reader', ConsumerCalls) /\ reader'.sure = 0 /\ reader'.pc = "idle"
    BY <1>4, ReturnedSound DEF Peek
  <2> QED
    BY <1>4, <2>1, ReaderMoves DEF Peek, IInv, TypeOK
<1> QED
  BY <1>1, <1>2, <1>3, <1>4, CopyOutStep, PublishReadStep DEF Consumer

-----------------------------------------------------------------------------
(* The theorems.                                                              *)

\* Every step keeps it.
LEMMA NextInvariant == IInv /\ [Next]_vars => IInv'
<1> SUFFICES ASSUME IInv, [Next]_vars PROVE IInv'
  OBVIOUS
<1>1. CASE Next
  BY <1>1, ProducerStep, ConsumerStep DEF Next
<1>2. CASE UNCHANGED vars
  BY <1>2 DEF vars, IInv, TypeOK, SlotsApart, Promises, Discipline, Unread, Side
<1> QED
  BY <1>1, <1>2

\* Every state of the ring satisfies the inductive invariant.
THEOREM Invariance == SafeSpec => []IInv
<1> QED
  BY InitInvariant, NextInvariant, PTL DEF SafeSpec

\* Type correctness of the positions, the buffer and both calls.
THEOREM TypeCorrect == SafeSpec => []TypeOK
<1>1. IInv => TypeOK
  BY DEF IInv
<1> QED
  BY <1>1, Invariance, PTL

\* The lock-free ring never gives one slot to both sides, for every size, step
\* and overflow of the positions (ring_buffer_write against ring_buffer_read).
THEOREM NoSharedSlot == SafeSpec => []SlotsApart
<1>1. IInv => SlotsApart
  BY DEF IInv
<1> QED
  BY <1>1, Invariance, PTL

\* What ring_buffer_wait_write and ring_buffer_wait_read have promised stays true
\* until the caller acts on it.
THEOREM PromisesKept == SafeSpec => []WaitKeepsPromise
<1>1. IInv => WaitKeepsPromise
  BY InvariantViews DEF IInv, Promises, WaitKeepsPromise
<1> QED
  BY <1>1, Invariance, PTL

\* The halved steps of get_step_size keep two full transfers from blocking each
\* other, whatever their lengths.
THEOREM NoMutualBlocking == SafeSpec => []NotBothBlocked
<1>1. ASSUME IInv PROVE NotBothBlocked
  <2>1. /\ writer.op = "fully" => writer.step <= Size \div 2
        /\ reader.op = "fully" => reader.step <= Size \div 2
    BY <1>1 DEF IInv, Discipline
  <2>2. /\ available_read = Unread /\ available_write = Size - 1 - Unread
        /\ Unread \in 0..Size - 1 /\ writer.step \in Nat /\ reader.step \in Nat
    BY <1>1, InvariantViews
  <2> HIDE DEF Unread, available_read, available_write
  <2> QED
    BY <2>1, <2>2, SizeAssumption DEF NotBothBlocked
<1> QED
  BY <1>1, Invariance, PTL

-----------------------------------------------------------------------------
(* The slots, numbered from the read position on.                             *)

Base == get_ring_pos(read_pos)
Slot(r, o) == IF r + o < Size THEN r + o ELSE r + o - Size

\* The byte o places behind the read position.
At(o) == buf[Slot(Base, o)]

\* Masking an advanced position wraps once at most, also when the position overflows.
LEMMA SlotOf ==
    ASSUME NEW p \in Position, NEW o \in 0..Size
    PROVE  /\ get_ring_pos(p) \in 0..Size - 1
           /\ get_ring_pos(Plus(p, o)) = Slot(get_ring_pos(p), o)
<1> DEFINE r == get_ring_pos(p)
<1>1. PICK k \in 1..Word : Word = k * Size
  BY WordAssumption
<1>2. p \in Nat /\ Size \in Nat \ {0, 1} /\ o \in Nat /\ p < Word /\ Word \in Nat
  BY SizeAssumption DEF Position
<1>3. PICK q \in Nat : p = q * Size + r /\ r \in 0..Size - 1
  <2>1. p = (p \div Size) * Size + (p % Size) /\ p % Size \in 0..Size - 1 /\ p \div Size \in Nat
    BY <1>2
  <2> QED
    BY <2>1 DEF get_ring_pos
<1> HIDE DEF r
<1>4. CASE p + o < Word
  <2>1. Plus(p, o) = q * Size + (r + o)
    BY <1>2, <1>3, <1>4 DEF Plus
  <2>2. CASE r + o < Size
    <3>1. r + o \in 0..Size - 1
      BY <1>2, <1>3, <2>2
    <3> QED
      BY <1>3, <2>1, <2>2, <3>1, LapsVanish DEF Slot, r
  <2>3. CASE ~(r + o < Size)
    <3>1. r + o - Size \in 0..Size - 1 /\ q + 1 \in Nat
      BY <1>2, <1>3, <2>3
    <3>2. q * Size + (r + o) = (q + 1) * Size + (r + o - Size)
      BY <1>2, <1>3
    <3> QED
      BY <1>3, <2>1, <2>3, <3>1, <3>2, LapsVanish DEF Slot, r
  <2> QED
    BY <2>2, <2>3
<1>5. CASE ~(p + o < Word)
  <2>1. Plus(p, o) = p + o - Word
    BY <1>2, <1>5 DEF Plus
  <2>2. q = k - 1
    <3>1. q * Size < k * Size
      BY <1>1, <1>2, <1>3
    <3>2. q < k
      BY <1>2, <3>1
    <3>3. k * Size <= q * Size + r + Size
      BY <1>1, <1>2, <1>3, <1>5
    <3>4. k * Size < (q + 2) * Size
      BY <1>2, <1>3, <3>3
    <3>5. k < q + 2
      BY <1>2, <3>4
    <3> QED
      BY <3>2, <3>5
  <2>3. p = Word - Size + r
    BY <1>1, <1>2, <1>3, <2>2
  <2>4. p + o - Word = 0 * Size + (r + o - Size) /\ r + o - Size \in 0..Size - 1
    BY <1>2, <1>3, <1>5, <2>3
  <2>5. get_ring_pos(0 * Size + (r + o - Size)) = r + o - Size
    BY <2>4, LapsVanish, 0 \in Nat
  <2>6. Slot(r, o) = r + o - Size
    BY <1>2, <1>3, <2>4 DEF Slot
  <2> QED
    BY <1>3, <2>1, <2>4, <2>5, <2>6 DEF r
<1> QED
  BY <1>3, <1>4, <1>5 DEF r

\* Words are added modulo their number.
LEMMA WordSum ==
    ASSUME NEW a \in Position, NEW b \in Position
    PROVE  (a + b) % Word = Plus(a, b)
<1>1. Word \in Nat /\ Word > 0 /\ a \in 0..Word - 1 /\ b \in 0..Word - 1
  BY SizeAssumption DEF Position
<1>2. \A x \in 0..Word - 1 : x % Word = x /\ (Word + x) % Word = x
  BY <1>1
<1>3. CASE a + b < Word
  BY <1>1, <1>2, <1>3 DEF Plus
<1>4. CASE ~(a + b < Word)
  <2>1. a + b - Word \in 0..Word - 1 /\ a + b = Word + (a + b - Word)
    BY <1>1, <1>4
  <2> QED
    BY <1>1, <1>2, <1>4, <2>1 DEF Plus
<1> QED
  BY <1>3, <1>4

\* The masked slots of both sides in these numbers.
LEMMA SlotsSeen ==
    ASSUME IInv
    PROVE  /\ Base \in 0..Size - 1 /\ Unread \in 0..Size - 1
           /\ \A o \in 0..Size - 1 : get_ring_pos(Plus(read_pos, o)) = Slot(Base, o)
           /\ \A o \in 0..Size - 1 - Unread : get_ring_pos(Plus(write_pos, o)) = Slot(Base, Unread + o)
<1>1. read_pos \in Position /\ write_pos \in Position /\ Unread \in 0..Size - 1
  BY InvariantViews DEF IInv, TypeOK
<1>2. \A o \in 0..Size - 1 : get_ring_pos(Plus(read_pos, o)) = Slot(Base, o)
  BY <1>1, SlotOf, SizeAssumption DEF Base
<1>3. Base \in 0..Size - 1
  <2>1. 0 \in 0..Size
    BY SizeAssumption
  <2> QED
    BY <1>1, <2>1, SlotOf DEF Base
<1>4. ASSUME NEW o \in 0..Size - 1 - Unread
      PROVE  get_ring_pos(Plus(write_pos, o)) = Slot(Base, Unread + o)
  <2>1. Plus(read_pos, Unread) = write_pos
    BY <1>1, SizeAssumption DEF Unread, Plus, Minus, Position
  <2>2. get_ring_pos(write_pos) = Slot(Base, Unread)
    BY <1>1, <1>2, <2>1
  <2>3. get_ring_pos(Plus(write_pos, o)) = Slot(Slot(Base, Unread), o)
    <3>1. o \in 0..Size
      BY <1>1, SizeAssumption
    <3> QED
      BY <1>1, <2>2, <3>1, SlotOf
  <2> HIDE DEF Unread, Base
  <2> QED
    BY <1>1, <1>3, <2>3, SizeAssumption DEF Slot
<1> QED
  BY <1>1, <1>2, <1>3, <1>4

\* Every slot has one number.
LEMMA OneNumber ==
    ASSUME NEW r \in 0..Size - 1
    PROVE  /\ \A o \in 0..Size - 1 : Slot(r, o) \in 0..Size - 1
           /\ \A o, j \in 0..Size - 1 : Slot(r, o) = Slot(r, j) => o = j
BY SizeAssumption DEF Slot

-----------------------------------------------------------------------------
(* The bytes in the slots.                                                    *)

\* Where a side is tells what it has copied of its step.
Working(side) ==
    /\ side.pc # "idle" => side.step > 0
    /\ side.pc = "copy" => side.op # "advance"
    /\ side.pc = "publish" => side.n = IF side.op = "advance" THEN 0 ELSE side.step

\* Behind the unread bytes lie those that are copied and not yet published, and then
\* leftovers.
Written ==
    \A o \in Unread..Size - 1 : At(o) = IF o < Unread + writer.n THEN Plus(sent, o - Unread) ELSE Stale

CopiedOut == Len(copied) = reader.n /\ \A i \in 1..reader.n : copied[i] = At(i - 1)

PeekAlone == reader.op = "peek" => reader.n = 0

Bytes == Working(writer) /\ Working(reader) /\ Written /\ CopiedOut /\ PeekAlone

\* A call that has returned has copied nothing.
LEMMA ReturnedWorks ==
    ASSUME NEW promise PROVE Working(Returned(promise)) /\ Returned(promise).n = 0
BY DEF Working, Returned, Idle

\* A call has bytes to move.
LEMMA CalledWorks ==
    ASSUME NEW calls, NEW side, Sound(side, calls), side.pc = "idle",
           NEW o \in calls, NEW s \in StepSizes, NEW k \in Steps
    PROVE  Working(Called(side, o, s, k)) /\ Called(side, o, s, k).n = 0
<1>1. s \in Nat /\ s > 0 /\ k \in Nat
  BY StepAssumption
<1>2. get_step_size(s) \in Nat /\ get_step_size(s) > 0
  <2>1. Size \div 2 \in Nat /\ Size \div 2 > 0
    BY SizeAssumption
  <2> QED
    BY <1>1, <2>1 DEF get_step_size, Least
<1>3. side \in Side(calls) /\ side.n = 0
  BY DEF Sound, Discipline
<1> HIDE DEF get_step_size
<1> DEFINE new == Called(side, o, s, k)
<1>4. CASE o = "wait"
  <2>1. new = [side EXCEPT !.pc = "wait", !.op = o, !.step = s]
    BY <1>4 DEF Called
  <2> HIDE DEF new
  <2>2. new.pc = "wait" /\ new.n = 0 /\ new.step = s
    BY <1>3, <2>1 DEF Side
  <2> QED
    BY <1>1, <2>2 DEF Working, new
<1>5. CASE o = "fully"
  <2>1. new = [side EXCEPT !.pc = "wait", !.op = o, !.step = get_step_size(s), !.left = s]
    BY <1>5 DEF Called
  <2> HIDE DEF new
  <2>2. new.pc = "wait" /\ new.n = 0 /\ new.step = get_step_size(s)
    BY <1>3, <2>1 DEF Side
  <2> QED
    BY <1>2, <2>2 DEF Working, new
<1>6. CASE o = "peek"
  <2>1. new = [side EXCEPT !.pc = "check", !.op = o, !.step = s]
    BY <1>6 DEF Called
  <2> HIDE DEF new
  <2>2. new.pc = "check" /\ new.n = 0 /\ new.step = s
    BY <1>3, <2>1 DEF Side
  <2> QED
    BY <1>1, <2>2 DEF Working, new
<1>7. CASE o \notin {"wait", "fully", "peek"}
  <2>1. new = [side EXCEPT !.pc = "check", !.op = o, !.step = s, !.left = k]
    BY <1>7 DEF Called
  <2> HIDE DEF new
  <2>2. new.pc = "check" /\ new.n = 0 /\ new.step = s
    BY <1>3, <2>1 DEF Side
  <2> QED
    BY <1>1, <2>2 DEF Working, new
<1> QED
  BY <1>4, <1>5, <1>6, <1>7

\* A wait moves nothing.
LEMMA WaitedWorks ==
    ASSUME NEW calls, NEW side, Sound(side, calls), Working(side), NEW avail \in Nat, NEW next,
           Waited(side, avail, next)
    PROVE  Working(next) /\ next.n = 0
<1>1. side \in Side(calls) /\ side.n = 0 /\ side.step > 0
  BY DEF Sound, Discipline, Waited, Working
<1>2. CASE next = Returned(side.step) \/ next = Returned(0)
  BY <1>2, ReturnedWorks
<1>3. CASE next = [side EXCEPT !.pc = "check"]
  <2>1. next.pc = "check" /\ next.n = 0 /\ next.step = side.step
    BY <1>1, <1>3 DEF Side
  <2> QED
    BY <1>1, <2>1 DEF Working
<1> QED
  BY <1>2, <1>3 DEF Waited

\* A check moves nothing, and sends an advance past the copying.
LEMMA CheckedWorks ==
    ASSUME NEW calls, NEW side, Sound(side, calls), Working(side), NEW avail \in Nat, NEW next,
           Checked(side, avail, next)
    PROVE  Working(next) /\ next.n = 0
<1>1. side \in Side(calls) /\ side.n = 0 /\ side.step > 0
  BY DEF Sound, Discipline, Checked, Working
<1>2. CASE next = Returned(0)
  BY <1>2, ReturnedWorks
<1>3. CASE next = [side EXCEPT !.sure = 0, !.pc = IF side.op = "advance" THEN "publish" ELSE "copy"]
  <2>1. /\ next.pc = IF side.op = "advance" THEN "publish" ELSE "copy"
        /\ next.n = 0 /\ next.step = side.step /\ next.op = side.op
    BY <1>1, <1>3 DEF Side
  <2> QED
    BY <1>1, <2>1 DEF Working
<1> QED
  BY <1>2, <1>3 DEF Checked

\* After a step nothing is copied, and the next one has bytes to move.
LEMMA SteppedWorks ==
    ASSUME NEW calls, NEW side, Sound(side, calls), Working(side), side.pc = "publish", NEW next,
           Stepped(side, next)
    PROVE  Working(next) /\ next.n = 0
<1> DEFINE rest == side.left - (IF side.op = "fully" THEN side.step ELSE 1)
<1>1. side \in Side(calls) /\ side.step \in Nat /\ side.step > 0 /\ rest \in Int
  BY DEF Sound, Side, Working
<1>2. CASE next = Returned(0)
  BY <1>2, ReturnedWorks
<1>3. CASE rest > 0 /\ next # Returned(0)
  <2>1. CASE side.op = "fully"
    <3>1. next = [side EXCEPT !.left = rest, !.n = 0, !.pc = "wait", !.step = Least(side.step, rest)]
      BY <1>3, <2>1 DEF Stepped
    <3>2. Least(side.step, rest) > 0
      BY <1>1, <1>3 DEF Least
    <3> HIDE DEF rest
    <3>3. next.pc = "wait" /\ next.n = 0 /\ next.step = Least(side.step, rest)
      BY <1>1, <3>1 DEF Side
    <3> QED
      BY <3>2, <3>3 DEF Working
  <2>2. CASE side.op # "fully"
    <3>1. next = [side EXCEPT !.left = rest, !.n = 0, !.pc = "check", !.step = side.step]
      BY <1>3, <2>2 DEF Stepped
    <3> HIDE DEF rest
    <3>2. next.pc = "check" /\ next.n = 0 /\ next.step = side.step
      BY <1>1, <3>1 DEF Side
    <3> QED
      BY <1>1, <3>2 DEF Working
  <2> QED
    BY <2>1, <2>2
<1> QED
  BY <1>2, <1>3 DEF Stepped

\* A step that copies and publishes nothing leaves the bytes where they are.
LEMMA BytesStand ==
    ASSUME IInv, Bytes, UNCHANGED <<write_pos, read_pos, buf, sent, copied>>,
           Working(writer'), Working(reader'), writer'.n = writer.n, reader'.n = reader.n,
           PeekAlone'
    PROVE  Bytes' /\ Contents' = Contents
<1>1. Unread' = Unread /\ Contents' = Contents /\ \A o : At(o)' = At(o)
  BY DEF Unread, Contents, At, Base
<1>2. Working(writer)' /\ Working(reader)'
  BY DEF Working
<1>3. Written'
  BY <1>1 DEF Bytes, Written
<1>4. CopiedOut'
  BY <1>1 DEF Bytes, CopiedOut
<1> QED
  BY <1>1, <1>2, <1>3, <1>4 DEF Bytes

-----------------------------------------------------------------------------
(* What the pipe holds.                                                       *)

\* Two sequences put together.
LEMMA Joined ==
    ASSUME NEW S, NEW s \in Seq(S), NEW t \in Seq(S), NEW u \in Seq(S), Len(u) = Len(s) + Len(t),
           \A i \in 1..Len(s) : u[i] = s[i],
           \A i \in 1..Len(t) : u[Len(s) + i] = t[i]
    PROVE  u = s \o t
<1>1. Len(s) \in Nat /\ Len(t) \in Nat
  BY LenProperties
<1>2. /\ s \o t \in Seq(S) /\ Len(s \o t) = Len(s) + Len(t)
      /\ \A i \in 1..Len(s) + Len(t) : (s \o t)[i] = IF i <= Len(s) THEN s[i] ELSE t[i - Len(s)]
  BY ConcatProperties
<1>3. ASSUME NEW i \in 1..Len(u) PROVE u[i] = (s \o t)[i]
  <2>1. CASE i <= Len(s)
    BY <1>1, <1>2, <1>3, <2>1
  <2>2. CASE ~(i <= Len(s))
    <3>1. i - Len(s) \in 1..Len(t) /\ Len(s) + (i - Len(s)) = i
      BY <1>1, <1>3, <2>2
    <3>2. u[i] = t[i - Len(s)]
      BY <3>1
    <3> QED
      BY <1>1, <1>2, <1>3, <2>2, <3>2
  <2> QED
    BY <2>1, <2>2
<1> QED
  BY <1>2, <1>3, SeqEqual

\* A piece of a sequence.
LEMMA PieceOf ==
    ASSUME NEW S, NEW s \in Seq(S), NEW u \in Seq(S), NEW m \in Nat, m + Len(u) <= Len(s),
           \A i \in 1..Len(u) : u[i] = s[m + i]
    PROVE  u = SubSeq(s, m + 1, m + Len(u))
<1>1. Len(u) \in Nat /\ Len(s) \in Nat
  BY LenProperties
<1>2. \A i \in m + 1..m + Len(u) : s[i] \in S
  BY <1>1, ElementOfSeq
<1> DEFINE n == m + Len(u)
           k == m + 1
           v == SubSeq(s, k, n)
<1>3. k \in Int /\ n \in Int /\ n - k + 1 = Len(u)
  BY <1>1
<1>4. \A i \in k..n : s[i] \in S
  BY <1>2
<1> HIDE DEF k, n
<1>5. /\ v \in Seq(S) /\ Len(v) = IF k <= n THEN n - k + 1 ELSE 0
      /\ \A i \in 1..n - k + 1 : v[i] = s[k + i - 1]
  BY <1>3, <1>4, SubSeqProperties
<1>6. Len(v) = Len(u)
  BY <1>1, <1>3, <1>5
<1>7. ASSUME NEW i \in 1..Len(u) PROVE u[i] = v[i]
  <2>1. v[i] = s[k + i - 1] /\ k + i - 1 = m + i
    BY <1>1, <1>3, <1>5, <1>7 DEF k
  <2> QED
    BY <2>1
<1>8. u = v
  BY <1>5, <1>6, <1>7, SeqEqual
<1> QED
  BY <1>8 DEF k, n

\* The unread bytes are those in the slots from the read position on.
LEMMA ContentsAt ==
    ASSUME IInv
    PROVE  /\ Contents \in Seq(Byte) /\ Len(Contents) = Unread
           /\ \A i \in 1..Unread : Contents[i] = At(i - 1)
           /\ \A o \in 0..Size - 1 : At(o) \in Byte
<1>1. /\ Base \in 0..Size - 1 /\ Unread \in 0..Size - 1
      /\ \A o \in 0..Size - 1 : get_ring_pos(Plus(read_pos, o)) = Slot(Base, o)
  BY SlotsSeen
<1>2. \A o \in 0..Size - 1 : At(o) \in Byte
  <2>1. buf \in [0..Size - 1 -> Byte]
    BY DEF IInv, TypeOK
  <2> QED
    BY <1>1, <2>1, OneNumber DEF At
<1> HIDE DEF Unread, Base
<1>3. \A i \in 1..Unread : i - 1 \in 0..Size - 1
  BY <1>1, SizeAssumption
<1>4. Contents = [i \in 1..Unread |-> At(i - 1)]
  BY <1>1, <1>3 DEF Contents, At
<1>5. Contents \in [1..Unread -> Byte]
  BY <1>2, <1>3, <1>4
<1>6. Unread \in Nat
  BY <1>1
<1> QED
  BY <1>2, <1>4, <1>5, <1>6

\* At the start nothing is copied and the pipe is empty.
LEMMA AtStart == Init => Bytes /\ Abstract!Init
<1> SUFFICES ASSUME Init PROVE Bytes /\ Abstract!Init
  OBVIOUS
<1>1. IInv
  BY InitInvariant
<1>2. /\ writer.pc = "idle" /\ reader.pc = "idle" /\ writer.n = 0 /\ reader.n = 0
      /\ reader.op = "none"
  BY DEF Init, Idle
<1>3. Unread = 0
  BY SizeAssumption DEF Init, Unread, Minus
<1>4. \A o \in 0..Size - 1 : At(o) = Stale
  BY <1>1, SlotsSeen, OneNumber DEF Init, At
<1> HIDE DEF Unread
<1>5. Written
  <2>1. \A o \in 0..Size - 1 : ~(o < 0 + 0)
    BY SizeAssumption
  <2> QED
    BY <1>2, <1>3, <1>4, <2>1 DEF Written
<1>6. CopiedOut
  BY <1>2 DEF Init, CopiedOut
<1>7. Contents = <<>>
  BY <1>1, <1>3, ContentsAt, EmptySeq
<1> QED
  BY <1>2, <1>5, <1>6, <1>7 DEF Bytes, Working, PeekAlone, Init, Abstract!Init

\* No side copies more than the other has left it.
LEMMA CopiesWithin ==
    ASSUME IInv
    PROVE  /\ reader.n \in Nat /\ reader.n <= Unread
           /\ writer.n \in Nat /\ Unread + writer.n < Size
<1>1. /\ reader.n \in Nat /\ reader.step \in Nat /\ reader.n <= reader.step
      /\ writer.n \in Nat /\ writer.step \in Nat /\ writer.n <= writer.step
      /\ Unread \in 0..Size - 1 /\ Size \in Nat
  BY InvariantViews, SizeAssumption DEF Sound
<1>2. /\ reader.pc \in {"idle", "wait", "check"} \/ reader.pc \in {"copy", "publish"}
      /\ writer.pc \in {"idle", "wait", "check"} \/ writer.pc \in {"copy", "publish"}
  BY InvariantViews DEF Sound, Side
<1>3. /\ reader.pc \in {"idle", "wait", "check"} => reader.n = 0
      /\ writer.pc \in {"idle", "wait", "check"} => writer.n = 0
      /\ reader.pc \in {"copy", "publish"} => reader.step <= Unread
      /\ writer.pc \in {"copy", "publish"} => Unread + writer.step < Size
  BY DEF IInv, Discipline, SlotsApart
<1> HIDE DEF Unread
<1> QED
  BY <1>1, <1>2, <1>3

\* Copying in puts the next bytes of the data behind those that are copied.
LEMMA CopyInBytes ==
    ASSUME IInv, Bytes, CopyIn, IInv'
    PROVE  Bytes' /\ Contents' = Contents
<1> DEFINE part == Part(writer, write_pos)
           at == get_ring_pos(Plus(write_pos, writer.n))
           done == writer.n + part
<1>1. /\ writer.pc = "copy" /\ writer \in Side(ProducerCalls)
      /\ writer.n \in Nat /\ writer.step \in Nat /\ writer.n <= writer.step
      /\ Unread + writer.step < Size /\ Size \in Nat
      /\ writer.op # "advance" /\ writer.step > 0
  BY InvariantViews, SizeAssumption DEF CopyIn, Sound, IInv, SlotsApart, Bytes, Working
<1>2. /\ Base \in 0..Size - 1 /\ Unread \in 0..Size - 1
      /\ \A o \in 0..Size - 1 - Unread : get_ring_pos(Plus(write_pos, o)) = Slot(Base, Unread + o)
  BY SlotsSeen
<1>3. at = Slot(Base, Unread + writer.n) /\ part = Least(writer.step - writer.n, Size - at)
  <2>1. writer.n \in 0..Size - 1 - Unread
    BY <1>1, <1>2
  <2> QED
    BY <1>2, <2>1 DEF Part
<1>4. buf' = [i \in DOMAIN buf |->
                IF i \in at..at + part - 1 THEN Plus(sent, writer.n + i - at) ELSE buf[i]]
  BY DEF CopyIn
<1>5. writer' = [writer EXCEPT !.n = done, !.pc = IF done = writer.step THEN "publish" ELSE "copy"]
  BY DEF CopyIn
<1>6. UNCHANGED <<write_pos, read_pos, sent, reader, copied>>
  BY DEF CopyIn
<1>7. Unread' = Unread /\ Base' = Base
  BY <1>6 DEF Unread, Base
<1> HIDE DEF part, at, done, Unread, Base
<1>8. part \in Nat /\ done \in Nat /\ done <= writer.step /\ at \in 0..Size - 1
  <2>0. Unread + writer.n \in 0..Size - 1
    BY <1>1, <1>2
  <2>1. at \in 0..Size - 1
    BY <1>2, <1>3, <2>0, OneNumber
  <2> QED
    BY <1>1, <1>3, <2>1 DEF Least, done
<1>9. /\ writer'.n = done /\ writer'.step = writer.step /\ writer'.op = writer.op
      /\ writer'.pc = IF done = writer.step THEN "publish" ELSE "copy"
  BY <1>1, <1>5 DEF Side
<1>10. ASSUME NEW o \in 0..Size - 1
       PROVE  At(o)' = IF o \in Unread + writer.n..Unread + done - 1 THEN Plus(sent, o - Unread) ELSE At(o)
  <2>1. Slot(Base, o) \in DOMAIN buf
    BY <1>2, OneNumber DEF IInv, TypeOK
  <2>2. At(o)' = IF Slot(Base, o) \in at..at + part - 1
                 THEN Plus(sent, writer.n + Slot(Base, o) - at) ELSE At(o)
    BY <1>4, <1>7, <2>1 DEF At
  <2>3. /\ Slot(Base, o) \in at..at + part - 1 <=> o \in Unread + writer.n..Unread + done - 1
        /\ Slot(Base, o) \in at..at + part - 1 => writer.n + Slot(Base, o) - at = o - Unread
    <3>1. Unread + writer.n < Size /\ part <= Size - at
      BY <1>1, <1>2, <1>3, <1>8 DEF Least
    <3>2. part <= writer.step - writer.n
      BY <1>1, <1>3, <1>8 DEF Least
    <3> QED
      BY <1>1, <1>2, <1>3, <1>8, <3>1, <3>2 DEF Slot, done
  <2> QED
    BY <2>2, <2>3
<1>11. Written'
  <2>1. SUFFICES ASSUME NEW o \in Unread..Size - 1
                 PROVE  At(o)' = IF o < Unread + done THEN Plus(sent, o - Unread) ELSE Stale
    BY <1>6, <1>7, <1>9 DEF Written
  <2>2. At(o) = IF o < Unread + writer.n THEN Plus(sent, o - Unread) ELSE Stale
    BY DEF Bytes, Written
  <2>3. o \in 0..Size - 1
    BY <1>1, <1>2
  <2>4. done = writer.n + part
    BY DEF done
  <2> QED
    BY <1>1, <1>2, <1>8, <1>10, <2>2, <2>3, <2>4
<1>12. \A o \in 0..Unread - 1 : At(o)' = At(o)
  BY <1>1, <1>2, <1>10
<1>13. CopiedOut'
  <2>1. reader.n \in Nat /\ reader.n <= Unread
    BY CopiesWithin
  <2>2. \A i \in 1..reader.n : i - 1 \in 0..Unread - 1
    BY <1>2, <2>1
  <2> QED
    BY <1>6, <1>12, <2>2 DEF Bytes, CopiedOut
<1>14. Working(writer)' /\ Working(reader)' /\ PeekAlone'
  BY <1>1, <1>6, <1>9 DEF Bytes, Working, PeekAlone
<1>15. Contents' = Contents
  <2>1. /\ Contents \in Seq(Byte) /\ Len(Contents) = Unread
        /\ \A i \in 1..Unread : Contents[i] = At(i - 1)
    BY ContentsAt
  <2>2. /\ Contents' \in Seq(Byte) /\ Len(Contents') = Unread
        /\ \A i \in 1..Unread : Contents'[i] = At(i - 1)'
    <3>1. (/\ Contents \in Seq(Byte) /\ Len(Contents) = Unread
           /\ \A i \in 1..Unread : Contents[i] = At(i - 1))'
      BY ContentsAt, PTL
    <3> QED
      BY <1>7, <3>1 DEF Byte, Position, Stale
  <2>3. \A i \in 1..Unread : i - 1 \in 0..Unread - 1
    BY <1>2
  <2>4. \A i \in 1..Unread : Contents'[i] = Contents[i]
    BY <1>12, <2>1, <2>2, <2>3
  <2> QED
    BY <2>1, <2>2, <2>4, SeqEqual
<1> QED
  BY <1>11, <1>13, <1>14, <1>15 DEF Bytes

\* Publishing appends what was copied in, or, after an advance, what lay there.
LEMMA PublishWriteBytes ==
    ASSUME IInv, Bytes, PublishWrite, IInv'
    PROVE  Bytes' /\ Abstract!Next
<1> DEFINE n == writer.step
<1>1. /\ writer.pc = "publish" /\ n \in Nat /\ n > 0 /\ Unread + n < Size /\ Size \in Nat
      /\ writer.n = IF writer.op = "advance" THEN 0 ELSE n
  BY InvariantViews, SizeAssumption DEF PublishWrite, IInv, SlotsApart, Bytes, Working
<1>2. Base \in 0..Size - 1 /\ Unread \in 0..Size - 1
  BY SlotsSeen
<1>3. Working(writer') /\ writer'.n = 0
  BY <1>1, InvariantViews, SteppedWorks DEF PublishWrite, Bytes
<1>4. /\ UNCHANGED <<read_pos, buf, reader, copied, out>> /\ sent' = Plus(sent, n)
      /\ sent \in Position /\ Word \in Nat /\ Size < Word
  BY SizeAssumption DEF PublishWrite, IInv, TypeOK
<1>5. Unread' = Unread + n
  BY <1>1, Advance DEF PublishWrite, IInv, TypeOK, Unread
<1>6. \A o : At(o)' = At(o)
  BY <1>4 DEF At, Base
<1>7. \A o \in Unread..Size - 1 :
          At(o) = IF o < Unread + writer.n THEN Plus(sent, o - Unread) ELSE Stale
  BY DEF Bytes, Written
<1>8. /\ Contents \in Seq(Byte) /\ Len(Contents) = Unread
      /\ \A i \in 1..Unread : Contents[i] = At(i - 1)
  BY ContentsAt
<1>9. /\ Contents' \in Seq(Byte) /\ Len(Contents') = Unread + n
      /\ \A i \in 1..Unread + n : Contents'[i] = At(i - 1)
  <2>1. (/\ Contents \in Seq(Byte) /\ Len(Contents) = Unread
         /\ \A i \in 1..Unread : Contents[i] = At(i - 1))'
    BY ContentsAt, PTL
  <2> QED
    BY <1>5, <1>6, <2>1 DEF Byte, Position, Stale
<1> HIDE DEF n, Unread, Base, Contents
<1>10. Written'
  <2>1. SUFFICES ASSUME NEW o \in Unread + n..Size - 1 PROVE At(o) = Stale
    <3>1. \A o \in Unread + n..Size - 1 : ~(o < Unread + n + 0)
      BY <1>1, <1>2
    <3> QED
      BY <1>3, <1>5, <1>6, <3>1 DEF Written
  <2>2. o \in Unread..Size - 1 /\ ~(o < Unread + writer.n)
    BY <1>1, <1>2
  <2> QED
    BY <1>7, <2>2
<1>11. Bytes'
  BY <1>3, <1>4, <1>6, <1>10 DEF Bytes, Working, CopiedOut, PeekAlone
<1>12. n \in 1..Size - 1 /\ Len(Contents) + n <= Size - 1
  BY <1>1, <1>2, <1>8
<1>13. sent' = (sent + n) % Word
  <2>1. n \in Position
    BY <1>1, <1>4, <1>12 DEF Position
  <2> QED
    BY <1>4, <2>1, WordSum
<1>14. ASSUME NEW i \in 1..n
       PROVE  /\ i - 1 \in Position /\ Unread + i \in 1..Unread + n
              /\ Contents'[Unread + i] = IF writer.op = "advance" THEN Stale ELSE (sent + i - 1) % Word
  <2>1. i - 1 \in Position /\ Unread + i \in 1..Unread + n
    BY <1>1, <1>2, <1>4, <1>12 DEF Position
  <2>2. PICK j \in 1..Unread + n : j = Unread + i
    BY <2>1
  <2>3. Contents'[j] = At(j - 1)
    BY <1>9
  <2>4. j - 1 \in Unread..Size - 1 /\ (j - 1) - Unread = i - 1 /\ (j - 1 < Unread + n)
    BY <1>1, <1>2, <1>12, <2>2
  <2>5. At(j - 1) = IF j - 1 < Unread + writer.n THEN Plus(sent, i - 1) ELSE Stale
    BY <1>7, <2>4
  <2>6. j - 1 < Unread + writer.n <=> writer.op # "advance"
    BY <1>1, <1>2, <2>4
  <2>7. Plus(sent, i - 1) = (sent + i - 1) % Word
    <3>1. sent + i - 1 = sent + (i - 1)
      BY <1>4 DEF Position
    <3> QED
      BY <1>4, <2>1, <3>1, WordSum
  <2> QED
    BY <2>1, <2>2, <2>3, <2>5, <2>6, <2>7
<1>15. Abstract!Put(n) \/ Abstract!Publish(n)
  <2>1. CASE writer.op = "advance"
    <3> DEFINE t == [i \in 1..n |-> Stale]
    <3>1. t \in Seq(Byte) /\ Len(t) = n /\ \A i \in 1..n : t[i] = Stale
      BY <1>12 DEF Byte
    <3> HIDE DEF t
    <3>2. \A i \in 1..Len(t) : Contents'[Len(Contents) + i] = t[i]
      BY <1>8, <1>14, <2>1, <3>1
    <3>3. \A i \in 1..Len(Contents) : Contents'[i] = Contents[i]
      BY <1>2, <1>8, <1>9, <1>12
    <3>4. Contents' = Contents \o t
      BY <1>8, <1>9, <3>1, <3>2, <3>3, Joined
    <3> QED
      BY <1>4, <1>12, <1>13, <3>4 DEF Abstract!Publish, t
  <2>2. CASE writer.op # "advance"
    <3> DEFINE t == [i \in 1..n |-> (sent + i - 1) % Word]
    <3>0. \A i \in 1..n : (sent + i - 1) % Word \in Byte
      <4>1. \A i \in 1..n : sent + i - 1 \in Int
        BY <1>4 DEF Position
      <4>2. \A x \in Int : x % Word \in Byte
        BY <1>4, SizeAssumption DEF Byte, Position
      <4> QED
        BY <4>1, <4>2
    <3>1. t \in Seq(Byte) /\ Len(t) = n /\ \A i \in 1..n : t[i] = (sent + i - 1) % Word
      BY <1>12, <3>0
    <3> HIDE DEF t
    <3>2. \A i \in 1..Len(t) : Contents'[Len(Contents) + i] = t[i]
      BY <1>8, <1>14, <2>2, <3>1
    <3>3. \A i \in 1..Len(Contents) : Contents'[i] = Contents[i]
      BY <1>2, <1>8, <1>9, <1>12
    <3>4. Contents' = Contents \o t
      BY <1>8, <1>9, <3>1, <3>2, <3>3, Joined
    <3> QED
      BY <1>4, <1>12, <1>13, <3>4 DEF Abstract!Put, t
  <2> QED
    BY <2>1, <2>2
<1> QED
  BY <1>11, <1>12, <1>15 DEF Abstract!Next

\* Copying out fetches the unread bytes in their order.
LEMMA CopyOutBytes ==
    ASSUME IInv, Bytes, CopyOut
    PROVE  Bytes' /\ Contents' = Contents
<1> DEFINE part == Part(reader, read_pos)
           at == get_ring_pos(Plus(read_pos, reader.n))
           done == reader.n + part
           t == [i \in 1..part |-> buf[at + i - 1]]
<1>1. /\ reader.pc = "copy" /\ reader \in Side(ConsumerCalls) /\ reader.op # "peek"
      /\ reader.n \in Nat /\ reader.step \in Nat /\ reader.n <= reader.step
      /\ reader.step <= Unread /\ Size \in Nat
      /\ reader.op # "advance" /\ reader.step > 0
  BY InvariantViews, SizeAssumption DEF CopyOut, Sound, IInv, SlotsApart, Bytes, Working
<1>2. /\ Base \in 0..Size - 1 /\ Unread \in 0..Size - 1
      /\ \A o \in 0..Size - 1 : get_ring_pos(Plus(read_pos, o)) = Slot(Base, o)
  BY SlotsSeen
<1>3. at = Slot(Base, reader.n) /\ part = Least(reader.step - reader.n, Size - at)
  <2>1. reader.n \in 0..Size - 1
    BY <1>1, <1>2
  <2> QED
    BY <1>2, <2>1 DEF Part
<1>4. copied' = copied \o t
  BY DEF CopyOut
<1>5. reader' = [reader EXCEPT !.n = done, !.pc = IF done = reader.step THEN "publish" ELSE "copy"]
  BY DEF CopyOut
<1>6. UNCHANGED <<write_pos, read_pos, buf, sent, writer>>
  BY DEF CopyOut
<1>7. Unread' = Unread /\ Contents' = Contents /\ \A o : At(o)' = At(o)
  BY <1>6 DEF Unread, Contents, At, Base
<1>8. copied \in Seq(Byte) /\ Len(copied) = reader.n /\ \A i \in 1..reader.n : copied[i] = At(i - 1)
  BY DEF Bytes, CopiedOut, IInv, TypeOK
<1> HIDE DEF part, at, done, t, Unread, Base
<1>9. /\ part \in Nat /\ done \in Nat /\ done <= reader.step /\ at \in 0..Size - 1
      /\ at + part <= Size /\ part <= reader.step - reader.n
  <2>1. reader.n \in 0..Size - 1
    BY <1>1, <1>2
  <2>2. at \in 0..Size - 1
    BY <1>2, <1>3, <2>1, OneNumber
  <2> QED
    BY <1>1, <1>3, <2>2 DEF Least, done
<1>10. /\ reader'.n = done /\ reader'.step = reader.step /\ reader'.op = reader.op
       /\ reader'.pc = IF done = reader.step THEN "publish" ELSE "copy"
  BY <1>1, <1>5 DEF Side
<1>11. ASSUME NEW i \in 1..part
       PROVE  /\ at + i - 1 \in 0..Size - 1 /\ reader.n + i - 1 \in 0..Size - 1
              /\ buf[at + i - 1] = At(reader.n + i - 1)
  <2>1. at + i - 1 \in 0..Size - 1 /\ reader.n + i - 1 \in 0..Size - 1
    BY <1>1, <1>2, <1>9
  <2>2. at + i - 1 = Slot(Base, reader.n + i - 1)
    BY <1>1, <1>2, <1>3, <1>9, <2>1 DEF Slot
  <2> QED
    BY <2>1, <2>2 DEF At
<1>12. /\ t \in Seq(Byte) /\ Len(t) = part
       /\ \A i \in 1..part : t[i] = At(reader.n + i - 1)
  <2>1. \A i \in 1..part : buf[at + i - 1] \in Byte
    BY <1>11, ContentsAt
  <2>2. t \in [1..part -> Byte]
    BY <2>1 DEF t
  <2>3. \A i \in 1..part : t[i] = At(reader.n + i - 1)
    BY <1>11 DEF t
  <2> QED
    BY <1>9, <2>2, <2>3
<1>13. CopiedOut'
  <2>1. /\ Len(copied') = done
        /\ \A i \in 1..done : copied'[i] = IF i <= reader.n THEN copied[i] ELSE t[i - reader.n]
    BY <1>4, <1>8, <1>12, ConcatProperties DEF done
  <2>2. ASSUME NEW i \in 1..done PROVE copied'[i] = At(i - 1)
    <3>1. CASE i <= reader.n
      BY <1>1, <1>8, <2>1, <3>1
    <3>2. CASE ~(i <= reader.n)
      <4>1. i - reader.n \in 1..part /\ reader.n + (i - reader.n) - 1 = i - 1
        BY <1>1, <1>9, <3>2 DEF done
      <4> QED
        BY <1>12, <2>1, <3>2, <4>1
    <3> QED
      BY <3>1, <3>2
  <2> QED
    BY <1>7, <1>10, <2>1, <2>2 DEF CopiedOut
<1>14. Written'
  BY <1>6, <1>7 DEF Bytes, Written
<1>15. Working(writer)' /\ Working(reader)' /\ PeekAlone'
  BY <1>1, <1>6, <1>10 DEF Bytes, Working, PeekAlone
<1> QED
  BY <1>7, <1>13, <1>14, <1>15 DEF Bytes

\* Publishing the read position takes the bytes that were copied out, or skips them.
LEMMA PublishReadBytes ==
    ASSUME IInv, Bytes, PublishRead, IInv'
    PROVE  Bytes' /\ Abstract!Next
<1> DEFINE n == reader.step
           r == get_ring_pos(read_pos')
<1>1. /\ reader.pc = "publish" /\ n \in Nat /\ n > 0 /\ n <= Unread /\ Size \in Nat
      /\ reader.n = IF reader.op = "advance" THEN 0 ELSE n
  BY InvariantViews, SizeAssumption DEF PublishRead, IInv, SlotsApart, Bytes, Working
<1>2. /\ Base \in 0..Size - 1 /\ Unread \in 0..Size - 1
      /\ \A o \in 0..Size - 1 : get_ring_pos(Plus(read_pos, o)) = Slot(Base, o)
  BY SlotsSeen
<1>3. Working(reader') /\ reader'.n = 0
  BY <1>1, InvariantViews, SteppedWorks DEF PublishRead, Bytes
<1>4. /\ UNCHANGED <<write_pos, sent, writer>> /\ copied' = <<>>
      /\ read_pos' = Plus(read_pos, n)
      /\ out' = IF reader.op = "advance" THEN out ELSE copied
  BY DEF PublishRead
<1>5. buf' = [i \in DOMAIN buf |->
                IF \E j \in 0..n - 1 : i = get_ring_pos(Plus(read_pos, j)) THEN Stale ELSE buf[i]]
  BY DEF PublishRead
<1>6. Unread' = Unread - n
  BY <1>1, Advance DEF PublishRead, IInv, TypeOK, Unread
<1>7. Base' = Slot(Base, n)
  <2>1. n \in 0..Size - 1
    BY <1>1, <1>2
  <2> QED
    BY <1>2, <1>4, <2>1 DEF Base
<1>8. writer.n \in Nat /\ Unread + writer.n < Size
  BY CopiesWithin
<1>9. /\ Contents \in Seq(Byte) /\ Len(Contents) = Unread
      /\ \A i \in 1..Unread : Contents[i] = At(i - 1)
  BY ContentsAt
<1>10. /\ Contents' \in Seq(Byte) /\ Len(Contents') = Unread - n
       /\ \A i \in 1..Unread - n : Contents'[i] = At(i - 1)'
  <2>1. (/\ Contents \in Seq(Byte) /\ Len(Contents) = Unread
         /\ \A i \in 1..Unread : Contents[i] = At(i - 1))'
    BY ContentsAt, PTL
  <2> QED
    BY <1>6, <2>1 DEF Byte, Position, Stale
<1>11. \A o \in Unread..Size - 1 :
           At(o) = IF o < Unread + writer.n THEN Plus(sent, o - Unread) ELSE Stale
  BY DEF Bytes, Written
<1> HIDE DEF n, Unread, Base, Contents
<1>12. ASSUME NEW o \in 0..Size - 1
       PROVE  At(o)' = IF o + n < Size THEN At(o + n) ELSE Stale
  <2>1. Slot(Base', o) \in 0..Size - 1 /\ Slot(Base', o) \in DOMAIN buf
    <3>1. Base' \in 0..Size - 1
      BY <1>1, <1>2, <1>7, OneNumber
    <3> QED
      BY <3>1, OneNumber DEF IInv, TypeOK
  <2>2. At(o)' = IF \E j \in 0..n - 1 : Slot(Base', o) = get_ring_pos(Plus(read_pos, j))
                 THEN Stale ELSE buf[Slot(Base', o)]
    BY <1>5, <2>1 DEF At
  <2>3. \A j \in 0..n - 1 : j \in 0..Size - 1 /\ get_ring_pos(Plus(read_pos, j)) = Slot(Base, j)
    BY <1>1, <1>2
  <2>4. CASE o + n < Size
    <3>1. o + n \in 0..Size - 1 /\ Slot(Base', o) = Slot(Base, o + n)
      BY <1>1, <1>2, <1>7, <2>4 DEF Slot
    <3>2. \A j \in 0..n - 1 : j # o + n
      BY <1>1
    <3>3. \A j \in 0..n - 1 : Slot(Base, j) # Slot(Base, o + n)
      BY <1>2, <2>3, <3>1, <3>2, OneNumber
    <3> QED
      BY <2>2, <2>3, <2>4, <3>1, <3>3 DEF At
  <2>5. CASE ~(o + n < Size)
    <3>1. /\ o + n - Size \in 0..n - 1
          /\ Slot(Base', o) = Slot(Base, o + n - Size)
      BY <1>1, <1>2, <1>7, <2>5 DEF Slot
    <3> QED
      BY <2>2, <2>3, <2>5, <3>1
  <2> QED
    BY <2>4, <2>5
<1>13. Written'
  <2>1. SUFFICES ASSUME NEW o \in Unread - n..Size - 1
                 PROVE  At(o)' = IF o < Unread - n + writer.n
                                 THEN Plus(sent, o - (Unread - n)) ELSE Stale
    BY <1>4, <1>6 DEF Written
  <2>2. o \in 0..Size - 1
    BY <1>1, <1>2
  <2>3. CASE o + n < Size
    <3>1. PICK p \in Unread..Size - 1 : p = o + n
      BY <1>1, <1>2, <2>3
    <3>2. At(o)' = At(p)
      BY <1>12, <2>2, <2>3, <3>1
    <3>3. o < Unread - n + writer.n <=> p < Unread + writer.n
      BY <1>1, <1>2, <1>8, <3>1
    <3>4. o - (Unread - n) = p - Unread
      BY <1>1, <1>2, <3>1
    <3> QED
      BY <1>11, <3>2, <3>3, <3>4
  <2>4. CASE ~(o + n < Size)
    <3>1. ~(o < Unread - n + writer.n)
      BY <1>1, <1>2, <1>8, <2>4
    <3> QED
      BY <1>12, <2>2, <2>4, <3>1
  <2> QED
    BY <2>3, <2>4
<1>14. Bytes'
  <2>1. CopiedOut'
    BY <1>3, <1>4 DEF CopiedOut
  <2> QED
    BY <1>3, <1>4, <1>13, <2>1 DEF Bytes, Working, PeekAlone
<1>15. n \in 1..Size - 1 /\ n <= Len(Contents)
  BY <1>1, <1>2, <1>9
<1>16. Contents' = SubSeq(Contents, n + 1, Len(Contents))
  <2>1. ASSUME NEW i \in 1..Unread - n PROVE Contents'[i] = Contents[n + i]
    <3>1. /\ i - 1 \in 0..Size - 1 /\ (i - 1) + n < Size
          /\ n + i \in 1..Unread /\ (n + i) - 1 = (i - 1) + n
      BY <1>1, <1>2
    <3>2. Contents'[i] = At((i - 1) + n)
      BY <1>10, <1>12, <3>1
    <3>3. PICK k \in 1..Unread : k = n + i
      BY <3>1
    <3>4. Contents[k] = At(k - 1) /\ k - 1 = (i - 1) + n
      BY <1>9, <3>1, <3>3
    <3> QED
      BY <3>2, <3>3, <3>4
  <2>2. /\ n \in Nat /\ n + Len(Contents') <= Len(Contents)
        /\ n + Len(Contents') = Len(Contents)
    BY <1>1, <1>2, <1>9, <1>10
  <2>3. Contents' = SubSeq(Contents, n + 1, n + Len(Contents'))
    BY <1>9, <1>10, <2>1, <2>2, PieceOf
  <2> QED
    BY <2>2, <2>3
<1>17. CASE reader.op = "advance"
  <2>1. Abstract!Skip(n)
    BY <1>4, <1>15, <1>16, <1>17 DEF Abstract!Skip
  <2> QED
    BY <1>14, <1>15, <2>1 DEF Abstract!Next
<1>18. CASE reader.op # "advance"
  <2>1. copied \in Seq(Byte) /\ Len(copied) = n /\ \A i \in 1..n : copied[i] = At(i - 1)
    BY <1>1, <1>18 DEF Bytes, CopiedOut, IInv, TypeOK
  <2>2. \A i \in 1..n : copied[i] = Contents[0 + i]
    BY <1>1, <1>2, <1>9, <2>1
  <2>3. copied = SubSeq(Contents, 0 + 1, 0 + Len(copied))
    BY <1>9, <1>15, <2>1, <2>2, PieceOf, 0 \in Nat, 0 + Len(copied) <= Len(Contents)
  <2>4. Abstract!Take(n)
    BY <1>4, <1>15, <1>16, <1>18, <2>1, <2>3 DEF Abstract!Take
  <2> QED
    BY <1>14, <1>15, <2>4 DEF Abstract!Next
<1> QED
  BY <1>17, <1>18

\* A copy of the contents from a view hands out the first bytes and takes none; from
\* the ring's own buffer it may not (ring_buffer.cpp:277).
LEMMA PeekBytes ==
    ASSUME IInv, Bytes, Peek, HasView
    PROVE  Bytes' /\ Abstract!Next
<1> DEFINE n == reader.step
           end == Size - get_ring_pos(read_pos)
           first == Least(n, end)
           s == Piece(read_pos, first)
           t == Piece(Plus(read_pos, first), n - first)
<1>1. /\ reader.pc = "copy" /\ reader.op = "peek" /\ n \in Nat /\ n > 0 /\ n <= Unread
      /\ Size \in Nat /\ reader.n = 0
  BY InvariantViews, SizeAssumption DEF Peek, IInv, SlotsApart, Bytes, Working, PeekAlone
<1>2. /\ Base \in 0..Size - 1 /\ Unread \in 0..Size - 1
      /\ \A o \in 0..Size - 1 : get_ring_pos(Plus(read_pos, o)) = Slot(Base, o)
  BY SlotsSeen
<1>3. /\ UNCHANGED <<write_pos, read_pos, buf, sent, writer, copied>> /\ reader' = Returned(0)
      /\ out' = s \o t
  BY DEF Peek
<1>4. end = Size - Base
  BY DEF Base
<1>5. /\ Contents \in Seq(Byte) /\ Len(Contents) = Unread
      /\ \A i \in 1..Unread : Contents[i] = At(i - 1)
      /\ \A o \in 0..Size - 1 : At(o) \in Byte
  BY ContentsAt
<1>6. Bytes' /\ Contents' = Contents
  <2>1. Working(reader') /\ reader'.n = 0
    BY <1>3, ReturnedWorks
  <2> QED
    BY <1>1, <1>3, <2>1, BytesStand DEF Bytes, PeekAlone
<1>7. s = [i \in 1..first |-> IF Base + i - 1 < Size THEN buf[Base + i - 1] ELSE Behind]
  BY DEF Piece, Base
<1> HIDE DEF Unread, Contents, first, n, end, s
<1>8. first \in Nat /\ first <= n /\ first <= Size - Base /\ (first = n \/ first = Size - Base)
  BY <1>1, <1>2, <1>4 DEF first, Least
<1>9. s \in Seq(Byte) /\ Len(s) = first /\ \A i \in 1..first : s[i] = At(i - 1)
  <2>1. ASSUME NEW i \in 1..first
        PROVE  /\ i - 1 \in 0..Size - 1 /\ Base + i - 1 < Size
               /\ buf[Base + i - 1] = At(i - 1)
    <3>1. i - 1 \in 0..Size - 1 /\ Base + i - 1 < Size /\ Slot(Base, i - 1) = Base + i - 1
      BY <1>1, <1>2, <1>8 DEF Slot
    <3> QED
      BY <3>1 DEF At
  <2>2. s = [i \in 1..first |-> At(i - 1)]
    BY <1>7, <2>1
  <2>3. s \in [1..first -> Byte]
    BY <1>5, <2>1, <2>2
  <2> QED
    BY <1>8, <2>2, <2>3
<1>10. t \in Seq(Byte) /\ Len(t) = n - first /\ \A i \in 1..n - first : t[i] = At(first + i - 1)
  <2>1. CASE first = n
    <3>1. t = [i \in 1..0 |-> LET at == get_ring_pos(Plus(read_pos, first)) + i - 1
                              IN IF at < Size THEN buf[at] ELSE Behind]
      BY <1>1, <2>1 DEF Piece
    <3>2. t = <<>>
      BY <3>1
    <3> HIDE DEF t
    <3> QED
      BY <1>1, <2>1, <3>2
  <2>2. CASE first < n
    <3>1. first = Size - Base /\ first \in 0..Size - 1
      BY <1>1, <1>2, <1>8, <2>2
    <3>2. get_ring_pos(Plus(read_pos, first)) = 0
      <4>1. Slot(Base, first) = 0
        BY <1>1, <1>2, <3>1 DEF Slot
      <4> QED
        BY <1>2, <3>1, <4>1
    <3>3. t = [i \in 1..n - first |-> IF 0 + i - 1 < Size THEN buf[0 + i - 1] ELSE Behind]
      BY <3>2 DEF Piece
    <3>4. ASSUME NEW i \in 1..n - first
          PROVE  /\ first + i - 1 \in 0..Size - 1 /\ 0 + i - 1 < Size
                 /\ buf[0 + i - 1] = At(first + i - 1)
      <4>1. /\ first + i - 1 \in 0..Size - 1 /\ 0 + i - 1 < Size
            /\ Slot(Base, first + i - 1) = 0 + i - 1
        BY <1>1, <1>2, <1>8, <3>1 DEF Slot
      <4> QED
        BY <4>1 DEF At
    <3> HIDE DEF t
    <3>5. t = [i \in 1..n - first |-> At(first + i - 1)]
      BY <3>3, <3>4
    <3>6. PICK k \in Nat : k = n - first
      BY <1>1, <1>8
    <3>7. t \in [1..k -> Byte]
      BY <1>5, <3>4, <3>5, <3>6
    <3>8. t \in Seq(Byte) /\ Len(t) = k
      BY <3>7
    <3> QED
      BY <3>5, <3>6, <3>8
  <2> QED
    BY <1>1, <1>8, <2>1, <2>2
<1> HIDE DEF t
<1>11. /\ out' \in Seq(Byte) /\ Len(out') = n
       /\ \A i \in 1..n : out'[i] = IF i <= first THEN s[i] ELSE t[i - first]
  BY <1>1, <1>3, <1>8, <1>9, <1>10, ConcatProperties
<1>12. \A i \in 1..n : out'[i] = Contents[0 + i]
  <2>0. \A i \in 1..n : Contents[0 + i] = At(i - 1)
    <3>1. \A i \in 1..n : 0 + i = i /\ i \in 1..Unread
      BY <1>1, <1>2
    <3> QED
      BY <1>5, <3>1
  <2>1. SUFFICES ASSUME NEW i \in 1..n PROVE out'[i] = At(i - 1)
    BY <2>0
  <2>2. CASE i <= first
    BY <1>8, <1>9, <1>11, <2>2
  <2>3. CASE ~(i <= first)
    <3>1. i - first \in 1..n - first /\ first + (i - first) - 1 = i - 1
      BY <1>1, <1>8, <2>3
    <3> QED
      BY <1>10, <1>11, <2>3, <3>1
  <2> QED
    BY <2>2, <2>3
<1>13. n \in 1..Size - 1 /\ n <= Len(Contents)
  BY <1>1, <1>2, <1>5
<1>14. out' = SubSeq(Contents, 0 + 1, 0 + Len(out'))
  BY <1>5, <1>11, <1>12, <1>13, PieceOf, 0 \in Nat, 0 + Len(out') <= Len(Contents)
<1>15. Abstract!Peek(n)
  BY <1>3, <1>6, <1>11, <1>13, <1>14 DEF Abstract!Peek
<1> QED
  BY <1>6, <1>13, <1>15 DEF Abstract!Next

\* Every step of the ring is a step of the pipe, or leaves it as it is.
LEMMA StepRefines ==
    ASSUME IInv, Bytes, [Next]_vars, IInv', HasView \/ "peek" \notin ConsumerCalls
    PROVE  Bytes' /\ [Abstract!Next]_(Abstract!vars)
<1> USE InvariantViews
<1>1. ASSUME UNCHANGED <<write_pos, read_pos, buf, sent, copied>>,
             Working(writer'), Working(reader'), writer'.n = writer.n, reader'.n = reader.n,
             PeekAlone', out' = out \/ out' = <<>>
      PROVE  Bytes' /\ [Abstract!Next]_(Abstract!vars)
  <2>1. Bytes' /\ Contents' = Contents
    BY <1>1, BytesStand
  <2> QED
    BY <1>1, <2>1 DEF Abstract!Next, Abstract!Use, Abstract!vars
<1>2. CASE WriteCall
  <2>1. PICK o \in ProducerCalls, s \in StepSizes, k \in Steps : writer' = Called(writer, o, s, k)
    BY <1>2 DEF WriteCall
  <2>2. Working(writer') /\ writer'.n = 0 /\ writer.n = 0
    BY <1>2, <2>1, CalledWorks DEF WriteCall, Sound, Discipline
  <2> QED
    BY <1>1, <1>2, <2>2 DEF WriteCall, Bytes, PeekAlone
<1>3. CASE WaitWrite
  <2>1. Size - 1 - Unread \in Nat
    BY SizeAssumption
  <2>2. Working(writer') /\ writer'.n = 0 /\ writer.n = 0
    BY <1>3, <2>1, WaitedWorks DEF WaitWrite, Waited, Sound, Discipline, Bytes
  <2> QED
    BY <1>1, <1>3, <2>2 DEF WaitWrite, Bytes, PeekAlone
<1>4. CASE CheckWrite
  <2>1. Size - 1 - Unread \in Nat
    BY SizeAssumption
  <2>2. Working(writer') /\ writer'.n = 0 /\ writer.n = 0
    BY <1>4, <2>1, CheckedWorks DEF CheckWrite, Checked, Sound, Discipline, Bytes
  <2> QED
    BY <1>1, <1>4, <2>2 DEF CheckWrite, Bytes, PeekAlone
<1>5. CASE CopyIn
  <2>1. UNCHANGED <<sent, out>>
    BY <1>5 DEF CopyIn
  <2> QED
    BY <1>5, <2>1, CopyInBytes DEF Abstract!vars
<1>6. CASE PublishWrite
  BY <1>6, PublishWriteBytes
<1>7. CASE ReadCall
  <2>1. PICK o \in ConsumerCalls, s \in StepSizes, k \in Steps : reader' = Called(reader, o, s, k)
    BY <1>7 DEF ReadCall
  <2>2. Working(reader') /\ reader'.n = 0 /\ reader.n = 0
    BY <1>7, <2>1, CalledWorks DEF ReadCall, Sound, Discipline
  <2> QED
    BY <1>1, <1>7, <2>2 DEF ReadCall, Bytes, PeekAlone
<1>8. CASE WaitRead
  <2>1. Working(reader') /\ reader'.n = 0 /\ reader.n = 0
    BY <1>8, WaitedWorks DEF WaitRead, Waited, Sound, Discipline, Bytes
  <2> QED
    BY <1>1, <1>8, <2>1 DEF WaitRead, Bytes, PeekAlone
<1>9. CASE CheckRead
  <2>1. Checked(reader, available_read, reader') /\ available_read \in Nat
    BY <1>9 DEF CheckRead
  <2>2. Working(reader') /\ reader'.n = 0
    BY <2>1, CheckedWorks DEF Bytes
  <2>3. reader.n = 0
    BY <2>1 DEF Checked, Sound, Discipline
  <2> QED
    BY <1>1, <1>9, <2>2, <2>3 DEF CheckRead, Bytes, PeekAlone
<1>10. CASE CopyOut
  <2>1. UNCHANGED <<sent, out>>
    BY <1>10 DEF CopyOut
  <2> QED
    BY <1>10, <2>1, CopyOutBytes DEF Abstract!vars
<1>11. CASE PublishRead
  BY <1>11, PublishReadBytes
<1>12. CASE Peek
  <2>1. HasView
    BY <1>12 DEF Peek, Sound, Side
  <2> QED
    BY <1>12, <2>1, PeekBytes
<1>13. CASE UNCHANGED vars
  <2>1. UNCHANGED <<write_pos, read_pos, buf, sent, writer, reader, copied, out>>
    BY <1>13 DEF vars
  <2> QED
    BY <1>1, <2>1 DEF Bytes, PeekAlone, Working
<1> QED
  BY <1>2, <1>3, <1>4, <1>5, <1>6, <1>7, <1>8, <1>9, <1>10, <1>11, <1>12, <1>13
     DEF Next, Producer, Consumer

\* The lock-free ring implements the byte pipe: the consumer gets the producer's bytes,
\* all of them, in order and unchanged, across the end of the buffer and the overflow of
\* the positions. A copy of the contents has to go through a view.
THEOREM PipeImplemented ==
    ASSUME HasView \/ "peek" \notin ConsumerCalls
    PROVE  SafeSpec => ImplementsPipe
<1>1. Init => Bytes /\ Abstract!Init
  BY AtStart
<1>2. IInv /\ IInv' /\ Bytes /\ [Next]_vars => Bytes' /\ [Abstract!Next]_(Abstract!vars)
  BY StepRefines
<1> QED
  BY <1>1, <1>2, Invariance, PTL DEF SafeSpec, ImplementsPipe, Abstract!Spec

-----------------------------------------------------------------------------
(* The hang-up protocol for a transfer of any length over a ring of any size: *)
(* a producer that gave way gets the channel back, and the two threads stop   *)
(* moving only at the end, or in the jam of a full ring.                      *)

\* Who can have left which word: only a sender leaves ACTIVE, only a consumer
\* about to hang up leaves HANGING_UP.  A consumer that hung up over a sender
\* and comes back to wait found the ring empty; once the producer is done, the
\* word is IDLE for a consumer that looks for it.
Words ==
    /\ state = ACTIVE => producer \in {"send", "sent"}
    /\ state = HANGING_UP => consumer = "hang"
    /\ state = IDLE => producer \notin {"send", "sent"}
    /\ consumer \in {"hangup", "failed", "wait_idle"} =>
           /\ state = HUNG_UP /\ producer = "send" => unread = 0
           /\ producer = "done" => state = IDLE

\* What each thread still has to do, and a byte seen is there until it is read.
Shares ==
    /\ producer \notin {"sent", "done"} => written < Total
    /\ producer = "done" => written = Total
    /\ consumer \in {"wait_read", "read"} => read < Total
    /\ consumer = "read" => unread > 0
    /\ consumer = "done" => read = Total

SyncInv == SyncTypeOK /\ ReacquireSucceeds /\ Words /\ Shares

\* Both threads at the head of their loops, with bytes to move.
LEMMA SyncStarts == SyncInit => SyncInv
BY TotalAssumption DEF SyncInit, SyncInv, SyncTypeOK, ReacquireSucceeds, Words, Shares,
                      IDLE, ACTIVE, HANGING_UP, HUNG_UP

\* Each atomic operation of the producer.
LEMMA ProducerKeeps == ASSUME SyncInv, SyncProducer PROVE SyncInv'
<1>. USE TotalAssumption DEF SyncInv, SyncTypeOK, ReacquireSucceeds, Words, Shares,
                             consumerVars, IDLE, ACTIVE, HANGING_UP, HUNG_UP
<1>1. CASE producer_acquire
    BY <1>1 DEF producer_acquire, CompareExchange
<1>2. CASE Refused
    BY <1>2 DEF Refused
<1>3. CASE producer_idle("give_way", "wait_hangup")
    BY <1>3 DEF producer_idle
<1>4. CASE producer_wait_hangup
    BY <1>4 DEF producer_wait_hangup
<1>5. CASE producer_acquire_from_hangup
    BY <1>5 DEF producer_acquire_from_hangup
<1>6. CASE Send
    BY <1>6 DEF Send
<1>7. CASE producer_idle("sent", IF written < Total THEN "acquire" ELSE "done")
    BY <1>7 DEF producer_idle
<1>. QED BY <1>1, <1>2, <1>3, <1>4, <1>5, <1>6, <1>7 DEF SyncProducer

\* Each atomic operation of the consumer: it leaves HUNG_UP alone, or sets it.
LEMMA ConsumerKeeps == ASSUME SyncInv, SyncConsumer PROVE SyncInv'
<1>. USE TotalAssumption DEF SyncInv, SyncTypeOK, ReacquireSucceeds, Words, Shares,
                             producerVars, LoopHead, Receive, IDLE, ACTIVE, HANGING_UP, HUNG_UP
<1>1. CASE AwaitByte
    BY <1>1 DEF AwaitByte
<1>2. CASE Read
    BY <1>2 DEF Read
<1>3. CASE consumer_hangup
    BY <1>3 DEF consumer_hangup, CompareExchange
<1>4. CASE Failed
    BY <1>4 DEF Failed
<1>5. CASE consumer_wait_producer_idle
    BY <1>5 DEF consumer_wait_producer_idle
<1>6. CASE Drain
    BY <1>6 DEF Drain
<1>7. CASE consumer_hung_up
    BY <1>7 DEF consumer_hung_up
<1>. QED BY <1>1, <1>2, <1>3, <1>4, <1>5, <1>6, <1>7 DEF SyncConsumer

\* Every step of the two threads.
LEMMA SyncStays == SyncInv /\ [SyncNext]_syncVars => SyncInv'
<1>. SUFFICES ASSUME SyncInv, [SyncNext]_syncVars PROVE SyncInv'
    OBVIOUS
<1>1. CASE UNCHANGED syncVars
    BY <1>1 DEF syncVars, SyncInv, SyncTypeOK, ReacquireSucceeds, Words, Shares
<1>. QED BY <1>1, ProducerKeeps, ConsumerKeeps DEF SyncNext

\* ring_buffer_producer_acquire_from_hangup succeeds for a producer that has
\* seen the hang-up (ring_buffer_unittest.cpp:483).
THEOREM Reacquired == SyncSpec => []ReacquireSucceeds
<1>1. SyncInv => ReacquireSucceeds
    BY DEF SyncInv
<1>. QED BY <1>1, SyncStarts, SyncStays, PTL DEF SyncSpec

\* The guards of the threads' waits, as the actions state them: a thread that
\* is not waiting can always take its next step.
ProducerMoves ==
    /\ producer # "done"
    /\ producer = "wait_hangup" => state = HUNG_UP
    /\ producer = "send" => unread < Capacity
ConsumerMoves ==
    /\ consumer # "done"
    /\ consumer = "wait_idle" => state = IDLE
    /\ consumer = "read" => unread > 0

\* While the test runs, one of the threads can move, unless the ring is full,
\* the producer is in the middle of sending and the consumer waits for it to be
\* idle (ring_buffer_unittest.cpp:460): the one deadlock of the protocol.
THEOREM OnlyFullRingJams == SyncSpec => [](ProducerMoves \/ ConsumerMoves \/ Finished \/ Jammed)
<1>1. SyncInv => ProducerMoves \/ ConsumerMoves \/ Finished \/ Jammed
    BY TotalAssumption
    DEF SyncInv, SyncTypeOK, ReacquireSucceeds, Words, Shares, ProducerMoves, ConsumerMoves,
        Finished, Jammed, IDLE, ACTIVE, HANGING_UP, HUNG_UP
<1>. QED BY <1>1, SyncStarts, SyncStays, PTL DEF SyncSpec

\* With room for the whole transfer there is no jam, so one of the threads can
\* always move until both are done.
THEOREM NoJamWithRoom ==
    ASSUME Total <= Capacity
    PROVE  SyncSpec => [](ProducerMoves \/ ConsumerMoves \/ Finished)
<1>1. SyncInv => ProducerMoves \/ ConsumerMoves \/ Finished
    BY TotalAssumption
    DEF SyncInv, SyncTypeOK, ReacquireSucceeds, Words, Shares, ProducerMoves, ConsumerMoves,
        Finished, IDLE, ACTIVE, HANGING_UP, HUNG_UP
<1>. QED BY <1>1, SyncStarts, SyncStays, PTL DEF SyncSpec
=============================================================================
