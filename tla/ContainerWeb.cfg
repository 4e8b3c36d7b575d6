\* Polls of the web threads between any two steps of the command line.
CONSTANTS
    Pids = {p1, p2, p3}
    NoPid = NoPid
    MaxSeq = 2
    PidReuse = TRUE
SPECIFICATION WebSpec
SYMMETRY PidSymmetry
INVARIANTS
    NoForgottenProcess
    SavedAtPrompt
