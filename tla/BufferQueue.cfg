\* One thread at each end, every blocking call, on a ring of two slots that wraps,
\* and grows to four.
SPECIFICATION Spec
CONSTANTS
    Pusher = {p}
    Popper = {c}
    PusherCalls = {"push", "waitPushable"}
    PopperCalls = {"pop", "popBefore", "waitPopable"}
    Item = {a, b}
    Nothing = Nothing
    Capacity = 2
    MaxSize = 4
VIEW WithoutRet
SYMMETRY Symmetry
INVARIANTS NobodyStranded
PROPERTIES ImplementsQueue
