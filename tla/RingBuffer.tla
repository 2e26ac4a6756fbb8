----------------------------- MODULE RingBuffer -----------------------------
(* The lock-free ring_buffer (base/ring_buffer.cpp) between one producer and  *)
(* one consumer.  Each owns one position, an unsigned word that is never      *)
(* reduced to the size of the buffer and overflows; the other only loads it.  *)
(* An operation loads the other's position, copies bytes in at most two       *)
(* pieces, and then adds to its own position; the other side runs between     *)
(* any two of these steps.                                                    *)
EXTENDS Integers, Sequences

CONSTANTS
    Size,           \* bytes in the buffer or view, a power of two
    Word,           \* 2^32 in the code
    StepSizes,      \* the step_size and the bytes of calls
    Steps,          \* the steps of calls
    ProducerCalls, ConsumerCalls,
    HasView         \* whether the ring is used through a ring_buffer_view

ASSUME SizeAssumption == Size \in Nat \ {0, 1} /\ Word \in Nat /\ Word > Size
ASSUME WordAssumption == \E k \in 1..Word : Word = k * Size
ASSUME StepAssumption == StepSizes \subseteq Nat \ {0} /\ Steps \subseteq Nat \ {0}

VARIABLES
    write_pos, read_pos,
    buf,            \* the bytes in the slots; Stale in those given back
    sent,           \* the producer's next byte, modulo Word
    writer, reader, \* the call each side is in
    copied,         \* what the reader's memcpys of this step have copied
    out             \* what the last completed step or copy handed out

vars == <<write_pos, read_pos, buf, sent, writer, reader, copied, out>>

\* Leftovers of earlier laps and the memory behind the buffer: no byte of the
\* producer's.  Which leftovers ring_buffer_advance_write publishes, no property
\* tells.
Stale == Word
Behind == Word + 1

\* Arithmetic on words.
Plus(a, b) == IF a + b < Word THEN a + b ELSE a + b - Word
Minus(a, b) == IF a >= b THEN a - b ELSE a - b + Word
Least(a, b) == IF a < b THEN a ELSE b

get_ring_pos(index) == index % Size

\* Mutant: the slot that tells a full ring from an empty one is given away.
FillsWholeBuffer ==
    get_ring_pos(IF read_pos = write_pos THEN Word - 1 ELSE Minus(read_pos, write_pos))

available_read == get_ring_pos(Minus(write_pos, read_pos))
available_write == get_ring_pos(Minus(Minus(read_pos, write_pos), 1))

\* Mutant: a step of a full transfer may be as long as the ring.
LongSteps(bytes) == Least(Size - 1, bytes)

get_step_size(bytes) == Least(Size \div 2, bytes)

\* A call: where it is, its step_size, the steps or (fully) the bytes left, the
\* bytes of this step copied, and the bytes a successful wait has promised.
Idle == [pc |-> "idle", op |-> "none", step |-> 0, left |-> 0, n |-> 0, sure |-> 0]
Called(side, o, s, k) ==
    CASE o = "wait"  -> [side EXCEPT !.pc = "wait", !.op = o, !.step = s]
      [] o = "fully" -> [side EXCEPT !.pc = "wait", !.op = o, !.step = get_step_size(s), !.left = s]
      [] o = "peek"  -> [side EXCEPT !.pc = "check", !.op = o, !.step = s]
      [] OTHER       -> [side EXCEPT !.pc = "check", !.op = o, !.step = s, !.left = k]
Returned(promise) == [Idle EXCEPT !.sure = promise]

Init ==
    /\ write_pos = 0 /\ read_pos = 0
    /\ buf = [i \in 0..Size - 1 |-> Stale]
    /\ sent = 0
    /\ writer = Idle /\ reader = Idle
    /\ copied = <<>> /\ out = <<>>

-----------------------------------------------------------------------------
(* What both sides do alike, with "avail" the room or the data for "side".     *)

\* ring_buffer_wait_write and wait_read: the loop leaves when the other side has
\* made room or data, or, for a caller that gave a timeout, when it has passed.
Waited(side, avail, next) ==
    /\ side.pc = "wait"
    /\ \/ /\ avail >= side.step
          /\ next = IF side.op = "wait" THEN Returned(side.step) ELSE [side EXCEPT !.pc = "check"]
       \/ side.op = "wait" /\ next = Returned(0)

\* The check at the head of each step; a step that does not fit ends the call
\* with the steps done so far.
Checked(side, avail, next) ==
    /\ side.pc = "check"
    /\ next = IF avail < side.step THEN Returned(0)
              ELSE [side EXCEPT !.sure = 0, !.pc = IF side.op = "advance" THEN "publish" ELSE "copy"]

\* After the position has moved: the next step, or the end of the call.  A full
\* transfer may find its abort value here and give up.
Stepped(side, next) ==
    LET rest == side.left - (IF side.op = "fully" THEN side.step ELSE 1)
        again == [side EXCEPT !.left = rest, !.n = 0,
                    !.pc = IF side.op = "fully" THEN "wait" ELSE "check",
                    !.step = IF side.op = "fully" THEN Least(side.step, rest) ELSE @]
    IN \/ rest > 0 /\ next = again
       \/ (rest = 0 \/ side.op = "fully") /\ next = Returned(0)

\* The part of this step that the next memcpy moves, from the slot of pos.
Part(side, pos) == Least(side.step - side.n, Size - get_ring_pos(Plus(pos, side.n)))

-----------------------------------------------------------------------------
(* The producer.                                                              *)

WriteCall ==
    /\ writer.pc = "idle"
    /\ \E o \in ProducerCalls, s \in StepSizes, k \in Steps : writer' = Called(writer, o, s, k)
    /\ UNCHANGED <<write_pos, read_pos, buf, sent, reader, copied, out>>

WaitWrite ==
    /\ Waited(writer, available_write, writer')
    /\ UNCHANGED <<write_pos, read_pos, buf, sent, reader, copied, out>>

CheckWrite ==
    /\ Checked(writer, available_write, writer')
    /\ UNCHANGED <<write_pos, read_pos, buf, sent, reader, copied, out>>

\* Mutant: a step is copied in one piece, as if it never crossed the end.
CopyInOnePiece ==
    /\ writer.pc = "copy"
    /\ LET at == get_ring_pos(write_pos) IN
       buf' = [i \in DOMAIN buf |->
                 IF i \in at..at + writer.step - 1 THEN (sent + i - at) % Word ELSE buf[i]]
    /\ writer' = [writer EXCEPT !.n = writer.step, !.pc = "publish"]
    /\ UNCHANGED <<write_pos, read_pos, sent, reader, copied, out>>

CopyIn ==
    /\ writer.pc = "copy"
    /\ LET part == Part(writer, write_pos)
           at == get_ring_pos(Plus(write_pos, writer.n))
           done == writer.n + part
       IN /\ buf' = [i \in DOMAIN buf |->
                       IF i \in at..at + part - 1 THEN Plus(sent, writer.n + i - at) ELSE buf[i]]
          /\ writer' = [writer EXCEPT !.n = done, !.pc = IF done = writer.step THEN "publish" ELSE "copy"]
    /\ UNCHANGED <<write_pos, read_pos, sent, reader, copied, out>>

\* The store that hands the step to the consumer.
PublishWrite ==
    /\ writer.pc = "publish"
    /\ write_pos' = Plus(write_pos, writer.step)
    /\ sent' = Plus(sent, writer.step)
    /\ Stepped(writer, writer')
    /\ UNCHANGED <<read_pos, buf, reader, copied, out>>

-----------------------------------------------------------------------------
(* The consumer.                                                              *)

\* The caller has done with what its last call handed out.
ReadCall ==
    /\ reader.pc = "idle"
    /\ \E o \in ConsumerCalls, s \in StepSizes, k \in Steps : reader' = Called(reader, o, s, k)
    /\ out' = <<>>
    /\ UNCHANGED <<write_pos, read_pos, buf, sent, writer, copied>>

\* Mutant: wait_read is content with one byte.
WaitReadAnything ==
    /\ Waited(reader, IF available_read > 0 THEN Size ELSE 0, reader')
    /\ UNCHANGED <<write_pos, read_pos, buf, sent, writer, copied, out>>

WaitRead ==
    /\ Waited(reader, available_read, reader')
    /\ UNCHANGED <<write_pos, read_pos, buf, sent, writer, copied, out>>

CheckRead ==
    /\ Checked(reader, available_read, reader')
    /\ UNCHANGED <<write_pos, read_pos, buf, sent, writer, copied, out>>

CopyOut ==
    /\ reader.pc = "copy" /\ reader.op # "peek"
    /\ LET part == Part(reader, read_pos)
           at == get_ring_pos(Plus(read_pos, reader.n))
           done == reader.n + part
       IN /\ copied' = copied \o [i \in 1..part |-> buf[at + i - 1]]
          /\ reader' = [reader EXCEPT !.n = done, !.pc = IF done = reader.step THEN "publish" ELSE "copy"]
    /\ UNCHANGED <<write_pos, read_pos, buf, sent, writer, out>>

\* The store that gives the slots back to the producer.
PublishRead ==
    /\ reader.pc = "publish"
    /\ read_pos' = Plus(read_pos, reader.step)
    /\ out' = IF reader.op = "advance" THEN out ELSE copied
    /\ copied' = <<>>
    /\ buf' = [i \in DOMAIN buf |->
                 IF \E j \in 0..reader.step - 1 : i = get_ring_pos(Plus(read_pos, j)) THEN Stale ELSE buf[i]]
    /\ Stepped(reader, reader')
    /\ UNCHANGED <<write_pos, sent, writer>>

\* A memcpy that runs past the buffer finds the fields behind it.
Piece(start, len) ==
    [i \in 1..len |-> LET at == get_ring_pos(start) + i - 1 IN IF at < Size THEN buf[at] ELSE Behind]

\* ring_buffer_copy_contents measures the first piece from read_pos in a view,
\* and from write_pos in the ring's own buffer.
Peek ==
    /\ reader.pc = "copy" /\ reader.op = "peek"
    /\ LET available_at_end == Size - get_ring_pos(IF HasView THEN read_pos ELSE write_pos)
           first == Least(reader.step, available_at_end)
       IN out' = Piece(read_pos, first) \o Piece(Plus(read_pos, first), reader.step - first)
    /\ reader' = Returned(0)
    /\ UNCHANGED <<write_pos, read_pos, buf, sent, writer, copied>>

-----------------------------------------------------------------------------
Producer == WaitWrite \/ CheckWrite \/ CopyIn \/ PublishWrite
Consumer == WaitRead \/ CheckRead \/ CopyOut \/ PublishRead \/ Peek
Next == WriteCall \/ ReadCall \/ Producer \/ Consumer

\* A thread inside a call goes on.
Fairness == WF_vars(Producer) /\ WF_vars(Consumer)

SafeSpec == Init /\ [][Next]_vars
Spec == SafeSpec /\ Fairness

-----------------------------------------------------------------------------
(* Properties.                                                                *)

Position == 0..Word - 1
Byte == Position \union {Stale}
Side(calls) ==
    [pc : {"idle", "wait", "check", "copy", "publish"}, op : calls \union {"none"},
     step : Nat, left : Nat, n : Nat, sure : Nat]

TypeOK ==
    /\ write_pos \in Position /\ read_pos \in Position /\ sent \in Position
    /\ buf \in [0..Size - 1 -> Byte]
    /\ writer \in Side(ProducerCalls) /\ writer.n <= writer.step
    /\ reader \in Side(ConsumerCalls) /\ reader.n <= reader.step
    /\ copied \in Seq(Byte)

Unread == Minus(write_pos, read_pos)
Contents == [i \in 1..Unread |-> buf[get_ring_pos(Plus(read_pos, i - 1))]]

\* The positions stay within one buffer of each other, overflow or not, and the
\* slots one side is working on are out of the other's reach: no byte is read
\* while it is written.
SlotsApart ==
    /\ Unread < Size
    /\ writer.pc \in {"copy", "publish"} => Unread + writer.step < Size
    /\ reader.pc \in {"copy", "publish"} => reader.step <= Unread

\* What a successful wait has promised is there until the caller uses it.
WaitKeepsPromise == writer.sure <= available_write /\ reader.sure <= available_read

\* A producer in write_fully and a consumer in read_fully never block each
\* other, whatever their lengths.
NotBothBlocked ==
    ~ /\ writer.op = "fully" /\ writer.pc = "wait" /\ available_write < writer.step
      /\ reader.op = "fully" /\ reader.pc = "wait" /\ available_read < reader.step

Abstract == INSTANCE BytePipe WITH Byte <- Word, Capacity <- Size - 1, pipe <- Contents

\* The consumer gets the producer's bytes, all of them, in order and unchanged.
ImplementsPipe == Abstract!Spec

\* Facing full transfers end.
FullTransfersEnd ==
    writer.op = "fully" /\ reader.op = "fully" ~> writer.pc = "idle" \/ reader.pc = "idle"

=============================================================================
