\* One run, nobody fails, nobody cancels.
CONSTANTS
    a = a
    b = b
    c = c
    Tasks = {a, b, c}
    None = None
    Main = Main
    InitGraphs <- Vee
    DepLists = {}
    Unhandled = {}
    Outcomes = {"return"}
    CancelFrom = {}
    MaxWorkers = 2
    MaxRuns = 1
    MaxAdds = 0
    MaxCancels = 0
SPECIFICATION Spec
CHECK_DEADLOCK FALSE
INVARIANT NoProgressIsReal
