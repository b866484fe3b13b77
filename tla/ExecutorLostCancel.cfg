\* cancel() beside a handler that raises: the CANCELLED event that never comes.
CONSTANTS
    w = w
    c = c
    Threads = {w, c}
    Calls <- TwoThreads
    MaxCalls = 3
    None = None
    MaxAttempts = 2
SPECIFICATION Spec
CHECK_DEADLOCK FALSE
INVARIANT CancelAnnounced
