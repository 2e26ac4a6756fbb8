\* Six bytes through a ring of two: the producer may have to wait for room, and
\* the consumer may miss every moment in which the producer is idle.
SPECIFICATION SyncSpec
CONSTANTS
    Total = 6
    Capacity = 2
INVARIANTS ReacquireSucceeds
PROPERTIES FinishOrJam
