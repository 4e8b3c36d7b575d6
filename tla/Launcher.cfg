\* A launch of the command line and one of the monitor.  Both end,
\* hence no deadlock check.
CONSTANTS
    N = 2
SPECIFICATION FairSpec
CHECK_DEADLOCK FALSE
INVARIANTS
    ResultTrue
    DescriptorsClosed
PROPERTIES
    LaunchReturns
    WaitersEnd
