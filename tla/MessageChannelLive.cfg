\* Two threads on each side of a ring of two slots: the ring wraps, both sides
\* block, and a thread can overtake a woken one.
SPECIFICATION Spec
CONSTANTS
    Sender = {s1, s2}
    Receiver = {r1, r2}
    Emptier = {}
    Msg = {m1}
    NoMsg = NoMsg
    CAPACITY = 2
INVARIANTS ReceiversKeepUp SendersKeepUp StoppedIsQuiet
PROPERTIES ImplementsFairChannel TimedReceiveReturns
