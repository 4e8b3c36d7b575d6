\* The session ends, hence no deadlock check.
CONSTANTS
    N = 3
    Texts <- SmallSpecs
    Graphs <- AllGraphs
    MaxDeps = 8
    IntBits = 32
    MaxStarts = 3
    MaxCmds = 3
    MaxFails = 1
SPECIFICATION FairSpec
CHECK_DEADLOCK FALSE
INVARIANTS
    OrderFound
    NoStrayContainer
    UnhealthyEarned
PROPERTIES
    DownLeavesNone
    DependencyOrder
    ForeignUntouched
    DownEnds
    RestartHappens
