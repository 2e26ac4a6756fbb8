SPECIFICATION SignalingSpec
CONSTANTS
    MaxReconnectAttempts = 1
    MaxStarts = 1
    MaxSignals = 2
INVARIANTS NothingLeftOpen OneProcessor OwnSession
PROPERTIES ReconnectsOrGivesUp SignalsProcessed
CHECK_DEADLOCK FALSE
