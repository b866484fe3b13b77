\* A session entered twice: two handler calls on its own loop, or three direct calls.
CONSTANTS
    x = x
    y = y
    z = z
    HandlerCalls = {x, y}
    DirectCalls = {x, y, z}
    Modes <- EitherMode
    None = None
    MaxOpens = 2
SPECIFICATION FairSpec
CHECK_DEADLOCK FALSE
INVARIANTS
    SessionInv
    OneTurn
    AbortHitsOwnTurn
PROPERTIES
    CancelledCallsEnd
    CallsEndUnlessStuck
