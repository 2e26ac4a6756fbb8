------------------------------ MODULE BytePipe ------------------------------
(* What ring_buffer promises its one producer and its one consumer: a bounded *)
(* FIFO pipe of bytes.  The producer's data are the bytes 0, 1, 2, ... taken  *)
(* modulo Byte.                                                               *)
EXTENDS Integers, Sequences

CONSTANTS
    Byte,       \* number of distinct bytes
    Capacity,   \* bytes the pipe holds
    Stale       \* a byte the producer never wrote

VARIABLES
    pipe,       \* the bytes written and not yet read
    sent,       \* the next byte of the producer's data
    out         \* the bytes last given to the consumer

Init == pipe = <<>> /\ sent = 0 /\ out = <<>>

Put(n) ==
    /\ Len(pipe) + n <= Capacity
    /\ pipe' = pipe \o [i \in 1..n |-> (sent + i - 1) % Byte]
    /\ sent' = (sent + n) % Byte
    /\ UNCHANGED out

\* The producer publishes what lies in the buffer, in the place of its data.
Publish(n) ==
    /\ Len(pipe) + n <= Capacity
    /\ pipe' = pipe \o [i \in 1..n |-> Stale]
    /\ sent' = (sent + n) % Byte
    /\ UNCHANGED out

Take(n) ==
    /\ n <= Len(pipe)
    /\ out' = SubSeq(pipe, 1, n)
    /\ pipe' = SubSeq(pipe, n + 1, Len(pipe))
    /\ UNCHANGED sent

Skip(n) ==
    /\ n <= Len(pipe)
    /\ pipe' = SubSeq(pipe, n + 1, Len(pipe))
    /\ UNCHANGED <<sent, out>>

Peek(n) ==
    /\ n <= Len(pipe)
    /\ out' = SubSeq(pipe, 1, n)
    /\ UNCHANGED <<pipe, sent>>

\* The consumer has done with what it was given.
Use == out' = <<>> /\ UNCHANGED <<pipe, sent>>

Next ==
    \/ Use
    \/ \E n \in 1..Capacity : Put(n) \/ Publish(n) \/ Take(n) \/ Skip(n) \/ Peek(n)

vars == <<pipe, sent, out>>
Spec == Init /\ [][Next]_vars
=============================================================================
