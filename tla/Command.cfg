\* Two cancellers; the leader may ignore SIGTERM, its descendant obeys.
CONSTANTS
    r = r
    c = c
    d = d
    Runner = r
    Cancellers = {c, d}
    MayIgnore <- OnlyLeader
SPECIFICATION FairSpec
CHECK_DEADLOCK FALSE
INVARIANTS
    CommandInv
    NothingSurvives
    CancelReaches
    OwnExitUnsignalled
PROPERTY TimeoutEnds
