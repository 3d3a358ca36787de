SPECIFICATION Spec
CONSTANTS
    good = good
    bad = bad
    w1 = w1
    Entries <- MCEntries
    Poison <- MCPoison
    Workers <- MCWorkers
    MaxSize = 2
    MaxDepth = 0
    MaxAttempts = 3
    MaxStalls = 1
INVARIANT
    ShutdownFlushes
CHECK_DEADLOCK FALSE
