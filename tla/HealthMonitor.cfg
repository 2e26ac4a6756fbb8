SPECIFICATION Spec
CONSTANTS
    Threads = {t1, t2}
    Threshold = 4
    MaxLag = 2
    MaxTasks = 2
    MaxTouches = 1
INVARIANTS HungCount WatchedUntilStopped
PROPERTIES HangIsReal
CHECK_DEADLOCK FALSE
