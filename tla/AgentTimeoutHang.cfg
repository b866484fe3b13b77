\* Two handler calls on a session that is entered once.
CONSTANTS
    x = x
    y = y
    z = z
    HandlerCalls = {x, y}
    DirectCalls = {}
    Modes = {"sync"}
    None = None
    MaxOpens = 1
SPECIFICATION FairSpec
CHECK_DEADLOCK FALSE
PROPERTY TimeoutsEndCalls
