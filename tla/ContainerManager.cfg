\* Two containers and two pids; liveness, hence no symmetry.
CONSTANTS
    Pids = {p1, p2}
    NoPid = NoPid
    MaxSeq = 2
    PidReuse = TRUE
SPECIFICATION FairSpec
INVARIANTS
    FreshIds
    NoForgottenProcess
    ExecRecorded
    SavedAtPrompt
PROPERTIES
    CleanExit
    ReapedByOwner
    StopKills
    ExitEnds
