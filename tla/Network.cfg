\* Two container numbers, two processes, a pool of two addresses and one
\* end of the simulator.  Nothing is left to do once the processes are used
\* up, hence no deadlock check.
CONSTANTS
    MaxIds = 2
    Texts <- SmallTexts
    MaxPort = 2
    MaxMaps = 8
    LastHost = 3
    MaxProcs = 2
    MaxCrashes = 1
SPECIFICATION NetSpec
CHECK_DEADLOCK FALSE
INVARIANTS
    UniqueAddress
    RulesMatch
    LinksOwned
