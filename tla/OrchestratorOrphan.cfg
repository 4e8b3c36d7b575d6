\* Expected violation: a restart by hand and one by the monitor at once.
CONSTANTS
    N = 1
    Texts <- OneSpec
    Graphs <- NoGraphs
    MaxDeps = 8
    IntBits = 32
    MaxStarts = 4
    MaxCmds = 3
    MaxFails = 2
SPECIFICATION Spec
CHECK_DEADLOCK FALSE
PROPERTIES
    DownStopsAll
