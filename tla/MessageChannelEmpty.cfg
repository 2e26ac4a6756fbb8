\* A thread that waits for the channel to drain, beside one sender and one
\* receiver on a ring of two slots.
SPECIFICATION Spec
CONSTANTS
    Sender = {s1}
    Receiver = {r1}
    Emptier = {e1}
    Msg = {m1, m2}
    NoMsg = NoMsg
    CAPACITY = 2
PROPERTIES ImplementsChannel StopReleases
