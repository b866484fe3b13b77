\* One run over every three-task graph, with one external cancel().
CONSTANTS
    a = a
    b = b
    c = c
    Tasks = {a, b, c}
    None = None
    Main = Main
    InitGraphs <- ThreeTasks
    DepLists = {}
    Unhandled = {c}
    Outcomes = {"return", "raise", "cancel", "escape"}
    CancelFrom = {"pending", "running", "failed", "blocked"}
    MaxWorkers = 2
    MaxRuns = 1
    MaxAdds = 0
    MaxCancels = 1
SPECIFICATION Spec
CHECK_DEADLOCK FALSE
INVARIANTS
    RunsOnlyAfterDependencies
    BlockedJustified
    NothingLeftUndecided
    BlockedHasCause
    FinallyBecomesReady
PROPERTY FinallyIsLast
