\* Two threads, a ring that wraps more than once.
CONSTANTS
    RingSize = 2
    Emitters = {t1, t2}
    MaxEvents = 4
SPECIFICATION Spec
INVARIANTS
    LogComplete
    ReplayRestores
    ReadsCurrent
PROPERTIES
    ImplementsLog
