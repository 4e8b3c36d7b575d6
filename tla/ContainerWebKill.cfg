\* Expected violation: a poll sets the pid to -1 in the middle of a stop.
CONSTANTS
    Pids = {p1, p2}
    NoPid = NoPid
    MaxSeq = 2
    PidReuse = FALSE
SPECIFICATION WebSpec
SYMMETRY PidSymmetry
PROPERTIES
    KillsItsContainer
