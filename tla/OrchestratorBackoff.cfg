\* Expected violation: the back-off after 31 restarts.
CONSTANTS
    N = 1
    Texts <- OneSpec
    Graphs <- NoGraphs
    MaxDeps = 8
    IntBits = 32
    MaxStarts = 43
    MaxCmds = 1
    MaxFails = 2
SPECIFICATION Spec
CHECK_DEADLOCK FALSE
INVARIANTS
    BackoffInRange
