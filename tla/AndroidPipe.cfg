SPECIFICATION Spec
CONSTANTS
    Pipes = {p1}
    Names = {a, b}
    CanLoad = {a}
    Optional = {b}
    BufferSize = 2
    MaxPending = 2
INVARIANTS OnlyLateOutlive LoadKeepsWakes ServicesMatched
CHECK_DEADLOCK FALSE
