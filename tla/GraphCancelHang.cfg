\* One run; one external cancel() finds a PENDING task.
CONSTANTS
    a = a
    b = b
    c = c
    Tasks = {a, b, c}
    None = None
    Main = Main
    InitGraphs <- Chain
    DepLists = {}
    Unhandled = {}
    Outcomes = {"return", "raise"}
    CancelFrom = {"pending"}
    MaxWorkers = 1
    MaxRuns = 1
    MaxAdds = 0
    MaxCancels = 1
SPECIFICATION FairSpec
CHECK_DEADLOCK FALSE
PROPERTY RunTerminates
