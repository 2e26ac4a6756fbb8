SPECIFICATION Spec
CONSTANTS
    Generations = 4
    NoItem = NoItem
    MaxIndex = 2
    MaxMapIndex = 3
    MaxComponents = 3
    MaxCalls = 6
    Threads = {t1, t2}
INVARIANTS FreeListsExact HandlesResolve TrackedResolves
CHECK_DEADLOCK FALSE
