\* A ring of four bytes whose positions overflow after eight.
SPECIFICATION Spec
CONSTANTS
    Size = 4
    Word = 8
    StepSizes = {1, 3}
    Steps = {2}
    ProducerCalls = {"write", "advance", "fully", "wait"}
    ConsumerCalls = {"read", "advance", "fully", "wait", "peek"}
    HasView = TRUE
INVARIANTS SlotsApart WaitKeepsPromise NotBothBlocked
PROPERTIES ImplementsPipe FullTransfersEnd
