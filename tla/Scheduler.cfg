\* All commands.  The session ends, hence no deadlock check.
CONSTANTS
    N = 3
    MaxCmds = 3
SPECIFICATION FairSpec
CHECK_DEADLOCK FALSE
INVARIANTS
    TargetsOK
    StoppedIsTarget
PROPERTIES
    NoStarvation
    OneAtATime
    JoinReturns
