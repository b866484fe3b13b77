\* Termination of run(): two runs, the second with what the first left behind,
\* of graphs grown by add() from nothing, and cancels of tasks that have started or are already bad.
CONSTANTS
    a = a
    b = b
    c = c
    Tasks = {a, b}
    None = None
    Main = Main
    InitGraphs <- EmptyGraph
    DepLists <- AnyDeps
    Unhandled = {}
    Outcomes = {"return", "raise", "escape"}
    CancelFrom = {"running", "failed", "blocked"}
    MaxWorkers = 2
    MaxRuns = 2
    MaxAdds = 2
    MaxCancels = 1
SPECIFICATION FairSpec
CHECK_DEADLOCK FALSE
INVARIANTS
    SchedulerInv
    ErrorsComplete
PROPERTIES
    RunTerminates
    ImplementsGraphRun
