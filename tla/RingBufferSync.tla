--------------------------- MODULE RingBufferSync ---------------------------
(* The hang-up protocol of ring_buffer (ring_buffer_producer_acquire and its  *)
(* companions): one word says whether the producer is sending and whether the *)
(* consumer has hung up, and each side changes it with one atomic operation.  *)
(* The two threads are the ones of the test ProducerDrivenSync, the only      *)
(* users in the repository.  The ring itself is the pipe that RingBuffer      *)
(* implements; of its bytes only the number matters here.  The threads spin:  *)
(* a wait is an action that is not enabled, and if neither has one that is,   *)
(* both spin for ever.                                                        *)
EXTENDS Naturals

CONSTANTS
    Total,          \* totalTestLength
    Capacity        \* bytes the ring holds

ASSUME TotalAssumption == Total \in Nat \ {0} /\ Capacity \in Nat \ {0}

IDLE == "PRODUCER_IDLE"
ACTIVE == "PRODUCER_ACTIVE"
HANGING_UP == "CONSUMER_HANGING_UP"
HUNG_UP == "CONSUMER_HUNG_UP"

VARIABLES
    state,
    unread,         \* bytes in the ring
    written, read,  \* bytes each thread has handled
    producer,       \* what each thread does next
    consumer

syncVars == <<state, unread, written, read, producer, consumer>>
producerVars == <<written, producer>>
consumerVars == <<read, consumer>>

\* ring_buffer_sync_init, and the heads of the two loops.
SyncInit ==
    /\ state = IDLE
    /\ unread = 0 /\ written = 0 /\ read = 0
    /\ producer = "acquire" /\ consumer = "wait_read"

CompareExchange(from, to) == state = from /\ state' = to

-----------------------------------------------------------------------------
(* The producer.                                                              *)

producer_acquire ==
    /\ producer = "acquire"
    /\ IF state = IDLE
       THEN CompareExchange(IDLE, ACTIVE) /\ producer' = "send"
       ELSE producer' = "refused" /\ UNCHANGED state
    /\ UNCHANGED <<unread, written, consumerVars>>

\* The test looks at the state that refused it.
Refused ==
    /\ producer = "refused"
    /\ producer' = "give_way"
    /\ UNCHANGED <<state, unread, written, consumerVars>>

producer_idle(from, to) ==
    /\ producer = from
    /\ state' = IDLE
    /\ producer' = to
    /\ UNCHANGED <<unread, written, consumerVars>>

\* Mutant: a consumer that is still hanging up counts as one that has.
WaitAnyHangup ==
    /\ producer = "wait_hangup"
    /\ state \in {HANGING_UP, HUNG_UP}
    /\ producer' = "reacquire"
    /\ UNCHANGED <<state, unread, written, consumerVars>>

producer_wait_hangup ==
    /\ producer = "wait_hangup"
    /\ state = HUNG_UP
    /\ producer' = "reacquire"
    /\ UNCHANGED <<state, unread, written, consumerVars>>

producer_acquire_from_hangup ==
    /\ producer = "reacquire"
    /\ state' = IF state = HUNG_UP THEN ACTIVE ELSE state
    /\ producer' = "send"
    /\ UNCHANGED <<unread, written, consumerVars>>

Send ==
    /\ producer = "send"
    /\ unread < Capacity
    /\ unread' = unread + 1
    /\ written' = written + 1
    /\ producer' = "sent"
    /\ UNCHANGED <<state, consumerVars>>

SyncProducer ==
    \/ producer_acquire \/ Refused \/ producer_idle("give_way", "wait_hangup")
    \/ producer_wait_hangup \/ producer_acquire_from_hangup \/ Send
    \/ producer_idle("sent", IF written < Total THEN "acquire" ELSE "done")

-----------------------------------------------------------------------------
(* The consumer.                                                              *)

LoopHead == IF read < Total THEN "wait_read" ELSE "done"

Receive ==
    /\ unread > 0
    /\ unread' = unread - 1
    /\ read' = read + 1

\* wait_read with a timeout: it has seen a byte, or an empty ring and the time
\* is over.
AwaitByte ==
    /\ consumer = "wait_read"
    /\ consumer' = IF unread > 0 THEN "read" ELSE "hangup"
    /\ UNCHANGED <<state, unread, read, producerVars>>

Read ==
    /\ consumer = "read"
    /\ Receive
    /\ consumer' = IF read + 1 < Total THEN "wait_read" ELSE "done"
    /\ UNCHANGED <<state, producerVars>>

\* Mutant: the consumer hangs up whatever the producer does.
HangsUpAnyway ==
    /\ consumer = "hangup"
    /\ state' = HANGING_UP
    /\ consumer' = "hang"
    /\ UNCHANGED <<unread, read, producerVars>>

consumer_hangup ==
    /\ consumer = "hangup"
    /\ IF state = IDLE
       THEN CompareExchange(IDLE, HANGING_UP) /\ consumer' = "hang"
       ELSE consumer' = "failed" /\ UNCHANGED state
    /\ UNCHANGED <<unread, read, producerVars>>

\* The test looks at the state that kept it from hanging up.
Failed ==
    /\ consumer = "failed"
    /\ consumer' = "wait_idle"
    /\ UNCHANGED <<state, unread, read, producerVars>>

consumer_wait_producer_idle ==
    /\ consumer = "wait_idle"
    /\ state = IDLE
    /\ consumer' = "drain"
    /\ UNCHANGED <<state, unread, read, producerVars>>

Drain ==
    /\ consumer = "drain"
    /\ IF unread > 0
       THEN Receive /\ UNCHANGED consumer
       ELSE consumer' = "hang" /\ UNCHANGED <<unread, read>>
    /\ UNCHANGED <<state, producerVars>>

consumer_hung_up ==
    /\ consumer = "hang"
    /\ state' = HUNG_UP
    /\ consumer' = LoopHead
    /\ UNCHANGED <<unread, read, producerVars>>

SyncConsumer ==
    \/ AwaitByte \/ Read \/ consumer_hangup \/ Failed
    \/ consumer_wait_producer_idle \/ Drain \/ consumer_hung_up

-----------------------------------------------------------------------------
Finished == producer = "done" /\ consumer = "done"

\* The consumer waits for a producer that is not sending, and does not read;
\* the producer is in the middle of sending, and waits for room.
Jammed ==
    /\ producer = "send" /\ unread = Capacity
    /\ consumer = "wait_idle" /\ state = ACTIVE

SyncNext ==
    \/ SyncProducer \/ SyncConsumer
    \/ Finished /\ UNCHANGED syncVars
    \/ Jammed /\ UNCHANGED syncVars

SyncSpec == SyncInit /\ [][SyncNext]_syncVars /\ WF_syncVars(SyncProducer) /\ WF_syncVars(SyncConsumer)

-----------------------------------------------------------------------------
(* Properties.                                                                *)

SyncTypeOK ==
    /\ state \in {IDLE, ACTIVE, HANGING_UP, HUNG_UP}
    /\ unread \in 0..Capacity /\ written \in 0..Total /\ read \in 0..Total
    /\ written = read + unread
    /\ producer \in {"acquire", "refused", "give_way", "wait_hangup", "reacquire",
                     "send", "sent", "done"}
    /\ consumer \in {"wait_read", "read", "hangup", "failed", "wait_idle", "drain",
                     "hang", "done"}

\* ring_buffer_unittest.cpp:483: a producer that gave way and has seen the
\* hang-up gets the channel.
ReacquireSucceeds == producer = "reacquire" => state = HUNG_UP

\* ring_buffer_unittest.cpp:494: both threads get to the end of their loops,
\* but for one way to hang: the full ring of Jammed.  Whatever the two overwrite
\* of each other's word, neither waits for a state that nobody will set.
FinishOrJam == <>(Finished \/ Jammed)
=============================================================================
