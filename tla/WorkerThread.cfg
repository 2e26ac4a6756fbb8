\* Two items, a stop and a sync from four threads, two threads that start.
SPECIFICATION WorkerSpec
CONSTANTS
    Work = {w1, w2}
    Halt = {h1}
    Sync = {s1}
    Starter = {t1, t2}
    StartMayFail = TRUE
INVARIANTS ProcessedInOrder SyncWaitsForEarlier
PROPERTIES FuturesReadyOnceStarted
