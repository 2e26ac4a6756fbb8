--------------------------- MODULE BoundedChannel ---------------------------
(* What a MessageChannel promises its callers: a bounded FIFO queue whose     *)
(* operations take effect atomically between their call and their return, and *)
(* that a stop empties for good.  Nothing of the ring, of the lock or of the  *)
(* condition variables is visible here; MessageChannel implements it.         *)
EXTENDS Naturals, Sequences

CONSTANTS
    Sender,     \* threads that call send and trySend
    Receiver,   \* threads that call receive, tryReceive and timedReceive
    Emptier,    \* threads that call waitForEmpty
    Msg,        \* the messages of type T
    NoMsg,      \* the default-constructed (or moved-from) T
    CAPACITY    \* the channel's fixed capacity

VARIABLES
    queue,      \* the messages accepted and not yet handed out, oldest first
    stopped,    \* stop has been called
    op,         \* op[t]: the call thread t has made and not returned from
    msg,        \* msg[t]: the message thread t is sending
    ret         \* the last call that returned, and what it returned

chan == <<queue, stopped>>
vars == <<queue, stopped, op, msg, ret>>

Thread == Sender \union Receiver \union Emptier

Result(t, o, ok, m) == [thread |-> t, op |-> o, ok |-> ok, msg |-> m]

Init ==
    /\ queue = <<>>
    /\ stopped = FALSE
    /\ op = [t \in Thread |-> "none"]
    /\ msg = [t \in Thread |-> NoMsg]
    /\ ret = Result(NoMsg, "none", FALSE, NoMsg)

Return(t, ok, m) ==
    /\ op' = [op EXCEPT ![t] = "none"]
    /\ msg' = [msg EXCEPT ![t] = NoMsg]
    /\ ret' = Result(t, op[t], ok, m)

Call(t, o, m) ==
    /\ op[t] = "none"
    /\ op' = [op EXCEPT ![t] = o]
    /\ msg' = [msg EXCEPT ![t] = m]
    /\ UNCHANGED <<chan, ret>>

Invoke ==
    \/ \E t \in Sender, m \in Msg : Call(t, "send", m)
    \/ \E t \in Receiver, o \in {"receive", "timedReceive"} : Call(t, o, NoMsg)
    \/ \E t \in Emptier : Call(t, "waitForEmpty", NoMsg)

Put(m) == Len(queue) < CAPACITY /\ ~stopped /\ queue' = Append(queue, m) /\ UNCHANGED stopped
Take == queue # <<>> /\ ~stopped /\ queue' = Tail(queue) /\ UNCHANGED stopped

\* A send is accepted when there is room, refused only by a stopped channel.
Send(t) == op[t] = "send" /\ Put(msg[t]) /\ Return(t, TRUE, NoMsg)

Receive(t) ==
    op[t] \in {"receive", "timedReceive"} /\ Take /\ Return(t, TRUE, Head(queue))

Refuse(t) ==
    /\ op[t] \in {"send", "receive", "timedReceive"}
    /\ stopped
    /\ Return(t, FALSE, NoMsg)
    /\ UNCHANGED chan

\* The deadline of a timedReceive passed: it may return nothing.
Expire(t) ==
    /\ op[t] = "timedReceive"
    /\ Return(t, FALSE, NoMsg)
    /\ UNCHANGED chan

SeeEmpty(t) ==
    /\ op[t] = "waitForEmpty"
    /\ queue = <<>>
    /\ Return(t, TRUE, NoMsg)
    /\ UNCHANGED chan

\* The calls that never block take effect in one step.
Immediate(t, o, ok, m) == 
    /\ op[t] = "none"
    /\ ret' = Result(t, o, ok, m)
    /\ UNCHANGED <<op, msg>>

TrySend(t, m) ==
    \/ Put(m) /\ Immediate(t, "trySend", TRUE, NoMsg)
    \/ /\ Len(queue) = CAPACITY \/ stopped
       /\ Immediate(t, "trySend", FALSE, NoMsg)
       /\ UNCHANGED chan

TryReceive(t) ==
    \/ Take /\ Immediate(t, "tryReceive", TRUE, Head(queue))
    \/ /\ queue = <<>>
       /\ Immediate(t, "tryReceive", FALSE, NoMsg)
       /\ UNCHANGED chan

Stop ==
    /\ stopped' = TRUE
    /\ queue' = <<>>
    /\ UNCHANGED <<op, msg, ret>>

SomeSend == \E t \in Sender : Send(t)
SomeReceive == \E t \in Receiver : Receive(t)

Next ==
    \/ Invoke
    \/ SomeSend
    \/ SomeReceive
    \/ \E t \in Thread : Refuse(t) \/ Expire(t) \/ SeeEmpty(t)
    \/ \E t \in Sender, m \in Msg : TrySend(t, m)
    \/ \E t \in Receiver : TryReceive(t)
    \/ Stop

SafeSpec == Init /\ [][Next]_vars

\* The channel as a whole makes progress (no promise to any one thread: a
\* thread woken for a free slot can be overtaken), and a stop releases everyone.
Fairness ==
    /\ WF_vars(SomeSend)
    /\ WF_vars(SomeReceive)
    /\ \A t \in Thread : WF_vars(Refuse(t))

Spec == SafeSpec /\ Fairness
=============================================================================
