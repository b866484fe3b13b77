\* Two threads, three calls, a switch between any two reads and writes.
CONSTANTS
    w = w
    c = c
    Threads = {w, c}
    Calls <- TwoThreads
    MaxCalls = 3
    None = None
    MaxAttempts = 2
SPECIFICATION Spec
CHECK_DEADLOCK FALSE
INVARIANTS
    ExecutorInv
    NothingLeftRunning
    SettledForGood
    OutcomeAgrees
    VerdictsHold
PROPERTY
    FollowsLedger
