\* A task submitted three times, an owner and a client, a pool of two threads, one retry.
CONSTANTS
    t1 = t1
    c1 = c1
    Owner = Owner
    Tasks = {t1}
    Bound = 3
    MaxAttempts = 2
    Clients = {c1}
    PoolSize = 2
    None = None
SPECIFICATION FairSpec
CHECK_DEADLOCK FALSE
INVARIANTS
    AsyncInv
    ShutdownDrains
    TasksHaveEnded
PROPERTIES
    FuturesSettle
    ShutdownReturns
