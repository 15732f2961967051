CONSTANTS
    i1 = i1
    i2 = i2
    t1 = t1
    t2 = t2
    t3 = t3
    Callers = {1, 2, 3}
    Accounts = {a1}
    QueueSize = 1
    BatchSize = 2
    UsedCap = 1
    MaxEntries = 2
    MaxTime = 2
    Importers = {i1, i2}
    Pasted <- SomeTokens
    Crowds <- SomeCrowds
    MaxConcurrent = 1
    ImportSlots = 2
    Workers = {w1}
    RefreshCap = 1
SPECIFICATION ServerSpec
INVARIANTS NoUseAfterClose CloseDrains NothingIsLeaked
PROPERTIES OutboxSpec WorkEnds
CHECK_DEADLOCK FALSE
