\* Three tasks, of which a graph holds one or two and may grow by the other between its
\* two runs; two faults altogether: crashes, lost saves, BaseExceptions, cancels through
\* the store and deletes by an observer.
CONSTANTS
    a = a
    b = b
    c = c
    Tasks = {a, b, c}
    None = None
    Order <- UpstreamFirst
    Edges <- AfterA
    Finally = {c}
    MaxMembers = 2
    Runner = Runner
    Observers = {Observer}
    Destructive = {Runner}
    Versions = {None, "old"}
    MaxRuns = 2
    MaxFaults = 2
SPECIFICATION Spec
CHECK_DEADLOCK FALSE
INVARIANTS
    StoreInv
    SchemaWhole
    
    StoredOrder
    RefusedOnlyAfterCrash
    StoreCatchesUp
PROPERTY NoRepeat
