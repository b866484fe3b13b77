\* A second run() that should pick up what the first left FAILED and BLOCKED.
CONSTANTS
    a = a
    b = b
    c = c
    Tasks = {a, b, c}
    None = None
    Main = Main
    InitGraphs <- Vee
    DepLists = {}
    Unhandled = {}
    Outcomes = {"return", "raise"}
    CancelFrom = {}
    MaxWorkers = 1
    MaxRuns = 2
    MaxAdds = 0
    MaxCancels = 0
SPECIFICATION Spec
CHECK_DEADLOCK FALSE
INVARIANT BlockedHasCause
